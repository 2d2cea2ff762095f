------------------------------ MODULE FeedRead ------------------------------
(***************************************************************************)
(* One user scrolls through the home feed: get_home_feed with its global   *)
(* backfill (feed_service.py) for each page, and the client that asks for  *)
(* the pages (frontend useFeed.ts), while posts are created and keys       *)
(* evicted.                                                                *)
(*                                                                         *)
(* A page merges three sorted sets, in time order: the home feed, the      *)
(* timeline of a celebrity the user follows, and the global recent feed.   *)
(* HomeFeed has who is a celebrity and what is fanned out; here both are   *)
(* fixed.  Hydration finds every post: rows are never deleted.             *)
(***************************************************************************)
EXTENDS Integers, FiniteSets

CONSTANTS
    Posts,
    TimeOf,         \* created_at of each post, in ticks
    Second,         \* ticks of a second (10^6 in the code)
    Latest,         \* "+inf": what a request without before_ts reads up to
    FannedOut,      \* posts of people the user follows
    Celebrity,      \* posts of the celebrity the user follows
    PageSize,       \* limit, PAGE_SIZE (20 in the code)
    MaxSize,        \* feed_max_size (1000 in the code)
    MaxEvictions,   \* bound: keys evicted
    MaxFailures     \* bound: requests for more that fail

ASSUME ReadAssumption ==
    /\ IsFiniteSet(Posts) /\ TimeOf \in [Posts -> Nat]
    /\ Latest \in Nat /\ \A p \in Posts : TimeOf[p] < Latest
    /\ FannedOut \union Celebrity \subseteq Posts /\ FannedOut \intersect Celebrity = {}
    /\ Second \in Nat \ {0} /\ PageSize \in Nat \ {0} /\ MaxSize \in Nat \ {0}
    /\ MaxEvictions \in Nat /\ MaxFailures \in Nat

VARIABLES
    rows,       \* PostgreSQL: posts
    feed,       \* Redis: the three sorted sets, {} when the key is missing
    stage,      \* how far create_post and its fan-out have come
    step,       \* what get_home_feed, or the client, does next
    before,     \* before_ts of the request, Latest for the first page
    merged,     \* posts merged so far
    selected,   \* rows the backfill has read
    shown,      \* posts the client has
    \* history
    ends,       \* the oldest post of each page
    kept,       \* posts that never left each set since the scroll began
    evictions, failures

writer == <<rows, stage>>
reader == <<step, before, merged, selected>>
bounds == <<evictions, failures>>
readVars == <<writer, feed, reader, shown, ends, kept, bounds>>

Sources == {"home", "timeline", "global"}

\* The n newest of S; posts of the same time come in any order.
Newest(S, n) ==
    {T \in SUBSET S :
        /\ Cardinality(T) = IF Cardinality(S) < n THEN Cardinality(S) ELSE n
        /\ \A q \in T, r \in S \ T : TimeOf[q] >= TimeOf[r]}

\* ZREVRANGEBYSCORE max "-inf" LIMIT 0 n, of what the set holds now.
ReadFrom(source) == Newest({p \in feed[source] : TimeOf[p] <= before}, PageSize)

\* The sets change; what has left one is no longer kept.
Become(f) ==
    /\ feed' = f
    /\ kept' = [s \in Sources |-> kept[s] \intersect f[s]]

-----------------------------------------------------------------------------
(* create_post and the fan-out worker *)

Commit(p) ==
    /\ stage[p] = "none"
    /\ rows' = rows \union {p}
    /\ stage' = [stage EXCEPT ![p] = "row"]
    /\ UNCHANGED <<feed, reader, shown, ends, kept, bounds>>

\* MULTI: ZADD to the author's timeline and to the global feed, each trimmed.
\* The author is not the reader: HomeFeed has the author's own home feed.
Push(p) ==
    /\ stage[p] = "row"
    /\ \E g \in Newest(feed["global"] \union {p}, MaxSize),
          t \in Newest(feed["timeline"] \union ({p} \intersect Celebrity), MaxSize) :
             Become([feed EXCEPT !["global"] = g, !["timeline"] = t])
    /\ stage' = [stage EXCEPT ![p] = "pushed"]
    /\ UNCHANGED <<rows, reader, shown, ends, bounds>>

\* The worker's ZADD to the reader's home feed, or that of a follow ...
FanOut(p) ==
    /\ stage[p] = "pushed" /\ p \in FannedOut
    /\ Become([feed EXCEPT !["home"] = @ \union {p}])
    /\ stage' = [stage EXCEPT ![p] = "fanning_out"]
    /\ UNCHANGED <<rows, reader, shown, ends, bounds>>

\* ... and its ZREMRANGEBYRANK, the next command of the pipeline.
TrimHome(p) ==
    /\ stage[p] = "fanning_out"
    /\ \E h \in Newest(feed["home"], MaxSize) : Become([feed EXCEPT !["home"] = h])
    /\ stage' = [stage EXCEPT ![p] = "fanned_out"]
    /\ UNCHANGED <<rows, reader, shown, ends, bounds>>

Evict(s) ==
    /\ feed[s] # {} /\ evictions < MaxEvictions
    /\ Become([feed EXCEPT ![s] = {}])
    /\ evictions' = evictions + 1
    /\ UNCHANGED <<writer, reader, shown, ends, failures>>

-----------------------------------------------------------------------------
(* get_home_feed *)

\* What if the home feed alone filled a page?
ReadHomeOnly ==
    /\ step = "home"
    /\ merged' \in ReadFrom("home")
    /\ step' = IF Cardinality(merged') = PageSize THEN "answer" ELSE "timeline"
    /\ UNCHANGED <<writer, feed, before, selected, shown, ends, kept, bounds>>

ReadHome ==
    /\ step = "home"
    /\ merged' \in ReadFrom("home")
    /\ step' = "timeline"
    /\ UNCHANGED <<writer, feed, before, selected, shown, ends, kept, bounds>>

ReadTimeline ==
    /\ step = "timeline"
    /\ \E rs \in ReadFrom("timeline") : merged' = merged \union rs
    /\ step' = "exists"
    /\ UNCHANGED <<writer, feed, before, selected, shown, ends, kept, bounds>>

\* EXISTS: the global feed is rebuilt only if there is no key at all.
Exists ==
    /\ step = "exists"
    /\ step' = IF feed["global"] = {} THEN "select" ELSE "global"
    /\ UNCHANGED <<writer, feed, before, merged, selected, shown, ends, kept,
                   bounds>>

Select ==
    /\ step = "select"
    /\ selected' \in Newest(rows, MaxSize)
    /\ step' = IF rows = {} THEN "global" ELSE "zadd"
    /\ UNCHANGED <<writer, feed, before, merged, shown, ends, kept, bounds>>

\* What if the backfill were left to the next request?
BackfillLater ==
    /\ step = "zadd"
    /\ kept' = IF shown = {} THEN [kept EXCEPT !["global"] = selected] ELSE kept
    /\ selected' = {} /\ step' = "global"
    /\ UNCHANGED <<writer, feed, before, merged, shown, ends, bounds>>

\* ZADD, without trimming, to whatever the key holds by now.  From here on the
\* rows are in the feed like any other, if no page has been shown yet.
Backfill ==
    /\ step = "zadd"
    /\ feed' = [feed EXCEPT !["global"] = @ \union selected]
    /\ kept' = IF shown = {} THEN [kept EXCEPT !["global"] = @ \union selected] ELSE kept
    /\ selected' = {} /\ step' = "global"
    /\ UNCHANGED <<writer, before, merged, shown, ends, bounds>>

\* The last set is merged; sorted and cut to the limit, this is the page.
ReadGlobal ==
    /\ step = "global"
    /\ \E rs \in ReadFrom("global") : merged' \in Newest(merged \union rs, PageSize)
    /\ step' = "answer"
    /\ UNCHANGED <<writer, feed, before, selected, shown, ends, kept, bounds>>

-----------------------------------------------------------------------------
(* useFeed *)

\* loadInitial; the list is replaced by what comes.
Open ==
    /\ step \in {"idle", "done"}
    /\ step' = "home" /\ before' = Latest
    /\ shown' = {} /\ ends' = {} /\ kept' = feed
    /\ UNCHANGED <<writer, feed, merged, selected, bounds>>

\* What if the cursor were the second of the oldest post?
CursorWithin(p) == (TimeOf[p] \div Second) * Second

\* What if the cursor went back one more second?
CursorTooFar(p) == (TimeOf[p] \div Second) * Second - 2 * Second

\* oldestCursor: its second, rounded down, less one.
Cursor(p) == (TimeOf[p] \div Second) * Second - Second

\* The page arrives.  A full one may be followed by more.
Show ==
    /\ step = "answer"
    /\ shown' = shown \union merged
    /\ merged' = {}
    /\ IF Cardinality(merged) = PageSize
         THEN /\ step' = "home"
              /\ \E p \in merged :
                    /\ \A q \in merged : TimeOf[p] <= TimeOf[q]
                    /\ before' = Cursor(p) /\ ends' = ends \union {p}
         ELSE step' = "done" /\ UNCHANGED <<before, ends>>
    /\ UNCHANGED <<writer, feed, selected, kept, bounds>>

\* loadMore fails: list and cursor stay, and the user asks for the page again.
LoadFails ==
    /\ step \notin {"idle", "done"} /\ shown # {}
    /\ failures < MaxFailures
    /\ failures' = failures + 1
    /\ step' = "home" /\ merged' = {} /\ selected' = {}
    /\ UNCHANGED <<writer, feed, before, shown, ends, kept, evictions>>

\* The client leaves, or its first request fails.
Leave ==
    /\ step \notin {"idle", "done"}
    /\ step' = "idle"
    /\ before' = Latest /\ merged' = {} /\ selected' = {} /\ shown' = {} /\ ends' = {}
    /\ kept' = [s \in Sources |-> {}]
    /\ UNCHANGED <<writer, feed, bounds>>

-----------------------------------------------------------------------------
ReadInit ==
    /\ rows = {} /\ stage = [p \in Posts |-> "none"]
    /\ feed = [s \in Sources |-> {}] /\ kept = feed
    /\ step = "idle" /\ before = Latest
    /\ merged = {} /\ selected = {} /\ shown = {} /\ ends = {}
    /\ evictions = 0 /\ failures = 0

Environment ==
    \/ \E p \in Posts : Commit(p) \/ Push(p) \/ FanOut(p) \/ TrimHome(p)
    \/ \E s \in Sources : Evict(s)
    \/ Open \/ LoadFails \/ Leave

Scroll ==
    \/ ReadHome \/ ReadTimeline \/ Exists \/ Select \/ Backfill \/ ReadGlobal \/ Show

ReadNext == Environment \/ Scroll

ReadSpec == ReadInit /\ [][ReadNext]_readVars

\* A request that is served goes on, and so does a user: on to the next page, or
\* to the same one again after a failure.
FairReadSpec == ReadSpec /\ WF_readVars(Scroll)

-----------------------------------------------------------------------------
(* Properties *)

ReadTypeOK ==
    /\ rows = {p \in Posts : stage[p] # "none"}
    /\ stage \in [Posts -> {"none", "row", "pushed", "fanning_out", "fanned_out"}]
    /\ feed \in [Sources -> SUBSET rows]
    /\ Cardinality(feed["home"])
          <= MaxSize + Cardinality({p \in Posts : stage[p] = "fanning_out"})
    /\ Cardinality(feed["timeline"]) <= MaxSize
    /\ Cardinality(feed["global"]) <= 2 * MaxSize
    /\ step \in {"idle", "home", "timeline", "exists", "select", "zadd", "global",
                 "answer", "done"}
    /\ before \in (-Second)..Latest
    /\ merged \subseteq rows /\ selected \subseteq rows /\ shown \subseteq rows
    /\ ends \subseteq shown
    /\ kept \in [Sources -> SUBSET rows] /\ \A s \in Sources : kept[s] \subseteq feed[s]
    /\ evictions \in 0..MaxEvictions /\ failures \in 0..MaxFailures

Steady == UNION {kept[s] : s \in Sources}

\* A page leaves out no post it asked for that has been in one of the three
\* sets since the scroll began: it is in it, or the page is full of posts that
\* are not older.
NothingSkipped ==
    step = "answer" =>
        \A p \in Steady \ merged : TimeOf[p] <= before =>
            /\ Cardinality(merged) = PageSize
            /\ \A q \in merged : TimeOf[q] >= TimeOf[p]

\* A user who scrolls to the end, over pages that failed and were asked for again,
\* has seen every post that was in a set all the time, except those that follow
\* the oldest post of a page by less than two seconds: the cursor goes back by up
\* to that much, and by no more.
ScrolledPast ==
    {p \in Posts : \E q \in ends : TimeOf[q] - TimeOf[p] \in 0..(2 * Second - 1)}

SeenToTheEnd == step = "done" => Steady \subseteq shown \union ScrolledPast

\* Scrolling comes to an end, however many posts share a second.
ScrollEnds == step = "home" ~> step \in {"idle", "done"}
=============================================================================
