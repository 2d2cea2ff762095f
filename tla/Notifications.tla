---------------------------- MODULE Notifications ----------------------------
(***************************************************************************)
(* The notifications of one user, the recipient: emit_notification of      *)
(* notification_service.py, the live WebSocket of api/notifications.py,    *)
(* and the worker that archives events in PostgreSQL and credits karma.    *)
(*                                                                         *)
(* An event is its stream id; ids grow, so the events are 1, 2, ...  The   *)
(* request that emits an event appears only as the event's stage, so that  *)
(* any number of them run at once.  The worker is one process, as in       *)
(* docker-compose.yml: it fetches jobs in batches, handles them one by     *)
(* one, and stays down once it has ended, until somebody starts it again.  *)
(* StreamQueue has the queue between them and shows that this group, which *)
(* never reclaims, hands a job out once at most.                           *)
(***************************************************************************)
EXTENDS Integers, FiniteSets

CONSTANTS
    KindOf,     \* the kind of each event emitted
    Sockets,    \* WebSocket connections of the recipient
    Replay,     \* events replayed to a new socket (20 in the code)
    MaxLen,     \* maxlen of the recipient's stream (1000 in the code)
    MaxEvents,  \* bound: events emitted
    MaxFaults   \* bound: requests and jobs cut short, the worker's deaths, evictions

ASSUME NotifAssumption ==
    /\ KindOf \in [1..MaxEvents -> {"like", "comment", "follow"}]
    /\ Replay \in Nat \ {0} /\ MaxLen \in Nat /\ Replay <= MaxLen
    /\ MaxEvents \in Nat /\ MaxFaults \in Nat

VARIABLES
    \* Redis
    last,       \* id of the newest event ever added
    retained,   \* ids notif:stream still has
    unread,     \* notif:unread; a missing key counts as 0
    karma,      \* the recipient's score on the leaderboard
    group,      \* jobs:notifications has its consumer group
    \* PostgreSQL
    rows,       \* rows[e]: notification rows of event e
    \* API processes and workers
    alive,      \* the notification worker runs
    stage,      \* what is done next for e, by its request or the worker
    cut,        \* events whose request or job was cut short at that stage, or
                \* whose job the stream lost: nobody gets on with them
    sock,       \* "closed", "replayed" (not subscribed yet) or "live"
    replayed,   \* events of the history message of a socket
    forwarded,  \* live events sent over it
    inbox,      \* events its subscription has received and not forwarded
    \* history
    published,  \* events that reached PUBLISH
    owedNot,    \* per socket: gone from the stream before its replay, or
                \* published between the replay and SUBSCRIBE
    forgotten,  \* karma lost with the leaderboard
    faults

events == <<last, retained, unread>>
archive == <<karma, rows, forgotten>>
jobs == <<group, alive>>
socket == <<sock, replayed, forwarded, inbox, owedNot>>
notifVars == <<events, archive, jobs, stage, cut, socket, published, faults>>

Events == 1..MaxEvents
Karma == [like |-> 1, comment |-> 2, follow |-> 3]
Stages == {"none", "publish", "enqueue", "waiting", "fetched", "commit", "credit", "ack", "done"}

\* The n newest of S: XREVRANGE with COUNT n.
Newest(S, n) == {e \in S : Cardinality({f \in S : f > e}) < n}

\* Approximate trimming drops oldest entries and keeps MaxLen at least.
TrimmedFrom(E) ==
    {T \in {{e \in E : e > c} : c \in {0} \union E} :
        T = E \/ Cardinality(T) >= MaxLen}

Advance(e, from, to) ==
    /\ stage[e] = from /\ e \notin cut
    /\ stage' = [stage EXCEPT ![e] = to]

Fault == faults < MaxFaults /\ faults' = faults + 1

-----------------------------------------------------------------------------
(* emit_notification; it ignores what users do to their own posts *)

\* MULTI: XADD with MAXLEN ~, INCR and EXPIRE of the unread counter.
Emit ==
    /\ last < MaxEvents
    /\ last' = last + 1
    /\ retained' \in TrimmedFrom(retained \union {last + 1})
    /\ unread' = unread + 1
    /\ stage' = [stage EXCEPT ![last + 1] = "publish"]
    /\ UNCHANGED <<archive, jobs, cut, socket, published, faults>>

\* PUBLISH, to every socket that has subscribed.
PublishEvent(e) ==
    /\ Advance(e, "publish", "enqueue")
    /\ published' = published \union {e}
    /\ inbox' = [s \in Sockets |->
            IF sock[s] = "live" THEN inbox[s] \union {e} ELSE inbox[s]]
    /\ owedNot' = [s \in Sockets |->
            IF sock[s] = "replayed" THEN owedNot[s] \union {e} ELSE owedNot[s]]
    /\ UNCHANGED <<events, archive, jobs, cut, sock, replayed, forwarded, faults>>

\* XADD of the job.  A stream without its group is as good as none: the group is
\* created at "$", and what the stream holds by then is handed to nobody.
PublishJob(e) ==
    /\ Advance(e, "enqueue", "waiting")
    /\ cut' = IF group THEN cut ELSE cut \union {e}
    /\ UNCHANGED <<events, archive, jobs, socket, published, faults>>

\* What if the failed job were handed out again?
CutShortAndRetried(e) ==
    /\ stage[e] \in {"credit", "ack"} /\ Fault
    /\ stage' = [stage EXCEPT ![e] = "commit"]
    /\ UNCHANGED <<events, archive, jobs, cut, socket, published>>

\* The request dies or a call to Redis raises: no later step is taken.
\* Likewise the handler of a job, or its XACK, raises ("will retry"): the worker
\* goes on with the next job; this one stays pending, and nobody looks at that.
CutShort(e) ==
    /\ stage[e] \in {"publish", "enqueue", "commit", "credit", "ack"} /\ e \notin cut
    /\ Fault
    /\ cut' = cut \union {e}
    /\ UNCHANGED <<events, archive, jobs, stage, socket, published>>

-----------------------------------------------------------------------------
(* The live stream of one connection *)

\* Accept, authenticate, and replay the newest events.  What the client saw on
\* an earlier connection plays no part.
Connect(s) ==
    /\ sock[s] = "closed"
    /\ sock' = [sock EXCEPT ![s] = "replayed"]
    /\ replayed' = [replayed EXCEPT ![s] = Newest(retained, Replay)]
    /\ owedNot' = [owedNot EXCEPT ![s] = (1..last) \ retained]
    /\ UNCHANGED <<events, archive, jobs, stage, cut, forwarded, inbox, published, faults>>

Subscribe(s) ==
    /\ sock[s] = "replayed"
    /\ sock' = [sock EXCEPT ![s] = "live"]
    /\ UNCHANGED <<events, archive, jobs, stage, cut, replayed, forwarded, inbox,
                   owedNot, published, faults>>

\* What if a round ended by a client frame lost what get_message had taken?
ForwardOrLose(s, e) ==
    /\ sock[s] = "live" /\ e \in inbox[s]
    /\ inbox' = [inbox EXCEPT ![s] = @ \ {e}]
    /\ \/ forwarded' = [forwarded EXCEPT ![s] = @ \union {e}]
       \/ UNCHANGED forwarded
    /\ UNCHANGED <<events, archive, jobs, stage, cut, sock, replayed, owedNot,
                   published, faults>>

\* A round in which get_message completed: the event is sent.  A round that a
\* client frame or the one-second timeout ends changes nothing: an event that
\* the cancelled get_message had not returned stays in the connection.
Forward(s, e) ==
    /\ sock[s] = "live" /\ e \in inbox[s]
    /\ inbox' = [inbox EXCEPT ![s] = @ \ {e}]
    /\ forwarded' = [forwarded EXCEPT ![s] = @ \union {e}]
    /\ UNCHANGED <<events, archive, jobs, stage, cut, sock, replayed, owedNot,
                   published, faults>>

\* What if a closed connection were not unsubscribed?
CloseStaysSubscribed(s) ==
    /\ sock[s] # "closed"
    /\ sock' = [sock EXCEPT ![s] = "closed"]
    /\ UNCHANGED <<events, archive, jobs, stage, cut, replayed, forwarded, inbox,
                   owedNot, published, faults>>

\* The client leaves, a call raises or the process dies.
Close(s) ==
    /\ sock[s] # "closed"
    /\ sock' = [sock EXCEPT ![s] = "closed"]
    /\ replayed' = [replayed EXCEPT ![s] = {}]
    /\ forwarded' = [forwarded EXCEPT ![s] = {}]
    /\ inbox' = [inbox EXCEPT ![s] = {}]
    /\ owedNot' = [owedNot EXCEPT ![s] = {}]
    /\ UNCHANGED <<events, archive, jobs, stage, cut, published, faults>>

\* POST /notifications/read-all: DEL of the counter.  Its expiry after 30 days
\* and its eviction do the same.
MarkAllRead ==
    /\ unread > 0 /\ unread' = 0
    /\ UNCHANGED <<last, retained, archive, jobs, stage, cut, socket, published,
                   faults>>

\* Eviction of the stream.
EvictStream ==
    /\ retained # {} /\ Fault
    /\ retained' = {}
    /\ UNCHANGED <<last, unread, archive, jobs, stage, cut, socket, published>>

-----------------------------------------------------------------------------
(* The notification worker *)

\* The job being handled, and with the rest of the batch, what the worker has.
Handled == {e \in Events : stage[e] \in {"commit", "credit", "ack"}} \ cut
Fetched == Handled \union ({e \in Events : stage[e] = "fetched"} \ cut)
Waiting == {e \in Events : stage[e] = "waiting"} \ cut

\* XREADGROUP ">", when the batch is done: some of the jobs nobody has (64 at most).
Fetch ==
    /\ alive /\ group /\ Fetched = {}
    /\ \E batch \in SUBSET Waiting \ {{}} :
          stage' = [e \in Events |-> IF e \in batch THEN "fetched" ELSE stage[e]]
    /\ UNCHANGED <<events, archive, jobs, cut, socket, published, faults>>

\* NOGROUP: XREADGROUP raises, and the process ends.
NoGroup ==
    /\ alive /\ ~group /\ Fetched = {}
    /\ alive' = FALSE
    /\ UNCHANGED <<events, archive, group, stage, cut, socket, published, faults>>

\* What if the job were acknowledged before the handler runs?
TakeAndAck(e) ==
    /\ alive /\ Handled = {} /\ stage[e] = "fetched" /\ e \notin cut
    /\ \E s \in {"commit", "done"} : stage' = [stage EXCEPT ![e] = s]
    /\ UNCHANGED <<events, archive, jobs, cut, socket, published, faults>>

\* The next job of the batch is started.
Take(e) ==
    /\ alive /\ Handled = {}
    /\ Advance(e, "fetched", "commit")
    /\ UNCHANGED <<events, archive, jobs, cut, socket, published, faults>>

\* INSERT and COMMIT of the notification.
CommitRow(e) ==
    /\ alive /\ Advance(e, "commit", "credit")
    /\ rows' = [rows EXCEPT ![e] = @ + 1]
    /\ UNCHANGED <<events, karma, forgotten, jobs, cut, socket, published, faults>>

\* ZINCRBY of the recipient's karma, by the kind of the event.
CreditKarma(e) ==
    /\ alive /\ Advance(e, "credit", "ack")
    /\ karma' = karma + Karma[KindOf[e]]
    /\ UNCHANGED <<events, rows, forgotten, jobs, cut, socket, published, faults>>

\* XACK.
AckJob(e) ==
    /\ alive /\ Advance(e, "ack", "done")
    /\ UNCHANGED <<events, archive, jobs, cut, socket, published, faults>>

\* The process ends: killed, told to stop, or at a call of consume that raises.
\* What it had fetched stays pending, be it handled or not.
WorkerDies ==
    /\ alive /\ Fault
    /\ alive' = FALSE
    /\ cut' = cut \union Fetched
    /\ UNCHANGED <<events, archive, group, stage, socket, published>>

\* The operator starts the worker again, and it ensures the group.
WorkerStarts ==
    /\ ~alive /\ alive' = TRUE /\ group' = TRUE
    /\ UNCHANGED <<events, archive, stage, cut, socket, published, faults>>

\* An API process starts, and ensures the group.
ApiStarts ==
    /\ ~group /\ group' = TRUE
    /\ UNCHANGED <<events, archive, alive, stage, cut, socket, published, faults>>

\* Eviction of jobs:notifications: its entries and its group are gone.  What the
\* worker has fetched is in its memory.
EvictJobs ==
    /\ group /\ Fault
    /\ group' = FALSE /\ cut' = cut \union Waiting
    /\ UNCHANGED <<events, archive, alive, stage, socket, published>>

\* Eviction of the leaderboard.
EvictKarma ==
    /\ karma > 0 /\ Fault
    /\ karma' = 0 /\ forgotten' = forgotten + karma
    /\ UNCHANGED <<events, rows, jobs, stage, cut, socket, published>>

-----------------------------------------------------------------------------
NotifInit ==
    /\ last = 0 /\ retained = {} /\ unread = 0 /\ karma = 0 /\ forgotten = 0
    /\ group = TRUE /\ alive = TRUE
    /\ rows = [e \in Events |-> 0]
    /\ stage = [e \in Events |-> "none"]
    /\ cut = {}
    /\ sock = [s \in Sockets |-> "closed"]
    /\ replayed = [s \in Sockets |-> {}]
    /\ forwarded = [s \in Sockets |-> {}]
    /\ inbox = [s \in Sockets |-> {}]
    /\ published = {}
    /\ owedNot = [s \in Sockets |-> {}]
    /\ faults = 0

\* A worker that runs gets on with its batch, and then with the next one.
HandleJob(e) == Take(e) \/ CommitRow(e) \/ CreditKarma(e) \/ AckJob(e)

WorkerStep == Fetch \/ NoGroup \/ \E e \in Events : HandleJob(e)

EventStep(e) == PublishEvent(e) \/ PublishJob(e) \/ CutShort(e) \/ HandleJob(e)

JobsStep ==
    Fetch \/ NoGroup \/ WorkerDies \/ WorkerStarts \/ ApiStarts \/ EvictJobs \/ EvictKarma

SocketStep(s) ==
    \/ Connect(s) \/ Subscribe(s) \/ Close(s)
    \/ \E e \in Events : Forward(s, e)

NotifNext ==
    \/ Emit
    \/ \E e \in Events : EventStep(e)
    \/ \E s \in Sockets : SocketStep(s)
    \/ JobsStep
    \/ MarkAllRead \/ EvictStream

NotifSpec == NotifInit /\ [][NotifNext]_notifVars

\* Nothing makes a worker that is down start again.
FairNotifSpec == NotifSpec /\ WF_notifVars(WorkerStep)

-----------------------------------------------------------------------------
(* Properties *)

NotifTypeOK ==
    /\ last \in 0..MaxEvents /\ retained \subseteq 1..last /\ unread \in 0..last
    /\ karma \in Nat /\ forgotten \in Nat
    /\ group \in BOOLEAN /\ alive \in BOOLEAN
    /\ ~alive => Fetched = {}
    /\ rows \in [Events -> Nat]
    /\ stage \in [Events -> Stages]
    /\ \A e \in Events : stage[e] = "none" <=> e > last
    /\ cut \subseteq 1..last /\ published \subseteq 1..last
    /\ sock \in [Sockets -> {"closed", "replayed", "live"}]
    /\ replayed \in [Sockets -> SUBSET (1..last)]
    /\ forwarded \in [Sockets -> SUBSET published]
    /\ inbox \in [Sockets -> SUBSET published]
    /\ owedNot \in [Sockets -> SUBSET (1..last)]
    /\ \A s \in Sockets : /\ sock[s] = "closed" => replayed[s] = {}
                          /\ sock[s] # "live" => forwarded[s] \union inbox[s] = {}
    /\ faults \in 0..MaxFaults

\* An open socket has been sent, or will be sent, every event that reached
\* PUBLISH, except those older than a full replay, those the stream had lost
\* before the replay, and those of the gap between the replay and SUBSCRIBE.
\* What is pushed and what is replayed overlap, and leave nothing else out.
NoneMissed ==
    \A s \in Sockets : sock[s] = "live" =>
        \A e \in published \ (replayed[s] \union forwarded[s] \union inbox[s]) :
            \/ e \in owedNot[s]
            \/ Cardinality({f \in replayed[s] : f > e}) = Replay

\* Archived events of a kind that no worker has still to credit.
Credited(kind) ==
    {e \in Events : KindOf[e] = kind /\ rows[e] = 1 /\ stage[e] # "credit"}

\* Karma, with what went with the leaderboard, is what the archived notifications
\* add up to, each archived once, except those whose handler is, or was cut short,
\* between COMMIT and ZINCRBY.
KarmaFromRows ==
    /\ \A e \in Events : rows[e] <= 1
    /\ karma + forgotten =
               Karma.like * Cardinality(Credited("like"))
               + Karma.comment * Cardinality(Credited("comment"))
               + Karma.follow * Cardinality(Credited("follow"))

\* If a worker that is down is always started again, every event whose job was
\* published is archived, except those whose job was cut short, was with a worker
\* that died, or went with the stream.
ArchivedUnlessFailed ==
    []<>alive => \A e \in Events : stage[e] = "waiting" ~> rows[e] = 1 \/ e \in cut
=============================================================================
