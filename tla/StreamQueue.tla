---------------------------- MODULE StreamQueue ----------------------------
(***************************************************************************)
(* The durable job queue: a Redis Stream with one consumer group           *)
(* (redis_layer/queue.py) and the worker processes that drain it           *)
(* (workers/fanout_worker.py, workers/notification_worker.py).             *)
(*                                                                         *)
(* A job is its stream id; ids grow, so the jobs are 1, 2, ... MaxJobs.    *)
(* Each worker process is an event loop with two tasks: "main" iterates    *)
(* over StreamQueue.consume, "reclaim" runs reclaim_loop.  Only the        *)
(* fan-out worker has a reclaim task: Reclaimers is Workers for that       *)
(* group and {} for the notification group.                                *)
(*                                                                         *)
(* The owner that a pending entry names is left out: XACK and XAUTOCLAIM   *)
(* look only at whether the entry is pending and for how long.             *)
(***************************************************************************)
EXTENDS Integers, FiniteSets

CONSTANTS
    Workers,        \* worker processes of the consumer group
    Reclaimers,     \* those that run a reclaim loop
    MaxJobs,        \* bound: jobs published in a behaviour
    BatchSize,      \* count of XREADGROUP (32 or 64 in the code)
    ClaimCount,     \* count of XAUTOCLAIM (100 in the code)
    MaxLen,         \* maxlen of XADD (100000 in the code)
    MaxFaults,      \* bound: crashes, signals, exceptions and lost replies
    MaxEvictions    \* bound: evictions of the whole stream key

ASSUME QueueAssumption ==
    /\ Reclaimers \subseteq Workers
    /\ MaxJobs \in Nat
    /\ BatchSize \in Nat \ {0}
    /\ ClaimCount \in Nat \ {0}
    /\ MaxLen \in Nat \ {0}
    /\ MaxFaults \in Nat
    /\ MaxEvictions \in Nat

VARIABLES
    \* Redis: the stream key
    last,       \* id of the newest job ever added
    entries,    \* ids the stream still retains
    group,      \* does the consumer group exist?
    cursor,     \* the group's last-delivered id
    pel,        \* the group's pending entries list
    idle,       \* pending for at least min_idle_ms (60 s)
    \* worker processes
    proc,       \* proc[w]: "running", "stopping" (signal seen) or "down"
    pc,         \* pc[k]: where task k is between two awaits
    todo,       \* todo[k]: messages fetched and not yet started
    cur,        \* cur[k]: the message being processed, NoJob if none
    \* history and bounds
    handled,    \* how often a handler finished: 0, 1, or 2 for "again"
    acked,      \* jobs for which a worker sent XACK
    reclaimed,  \* jobs some XAUTOCLAIM handed out
    faults, evictions

stream == <<last, entries, group, cursor, pel, idle>>
local == <<proc, pc, todo, cur>>
history == <<handled, acked, reclaimed>>
bounds == <<faults, evictions>>
vars == <<stream, local, history, bounds>>

Jobs == 1..MaxJobs
NoJob == 0
Loops == {"main", "reclaim"}
Tasks == Workers \X Loops
Main(w) == <<w, "main">>
Reclaim(w) == <<w, "reclaim">>

StreamTypeOK ==
    /\ last \in 0..MaxJobs
    /\ entries \subseteq 1..last
    /\ group \in BOOLEAN
    /\ cursor \in 0..last
    /\ pel \subseteq 1..cursor
    /\ idle \subseteq pel

WorkerTypeOK ==
    /\ proc \in [Workers -> {"running", "stopping", "down"}]
    /\ pc \in [Tasks -> {"next", "handle", "ack"}]
    /\ todo \in [Tasks -> SUBSET (1..last)]
    /\ cur \in [Tasks -> 0..last]
    /\ \A k \in Tasks : pc[k] = "next" <=> cur[k] = NoJob

HistoryTypeOK ==
    /\ handled \in [Jobs -> 0..2]
    /\ acked \subseteq 1..last
    /\ reclaimed \subseteq 1..last
    /\ faults \in 0..MaxFaults
    /\ evictions \in 0..MaxEvictions

TypeOK == StreamTypeOK /\ WorkerTypeOK /\ HistoryTypeOK

-----------------------------------------------------------------------------
(* Helpers *)

\* The n smallest ids of S: what a COUNT n range read returns.
FirstN(S, n) == {j \in S : Cardinality({i \in S : i < j}) < n}

\* Entries the group has not delivered yet (XREADGROUP ">").
Undelivered == {j \in entries : j > cursor}

\* What if a trim could cut anywhere, whatever MAXLEN says?
TrimmedAnywhere(E) == {{j \in E : j > c} : c \in {0} \union E}

\* Approximate trimming (MAXLEN ~): drops whole nodes of oldest entries, and
\* never leaves fewer than MaxLen entries.
TrimmedFrom(E) ==
    {T \in {{j \in E : j > c} : c \in {0} \union E} :
        T = E \/ Cardinality(T) >= MaxLen}

\* What if every start re-created the group from id 0?
EnsureGroupFromStart ==
    /\ group' = TRUE
    /\ cursor' = 0
    /\ UNCHANGED <<last, entries, pel, idle>>

\* XGROUP CREATE id="$" MKSTREAM, with BUSYGROUP ignored: a new group starts
\* after the newest entry.
EnsureGroup ==
    /\ group' = TRUE
    /\ cursor' = IF group THEN cursor ELSE last
    /\ UNCHANGED <<last, entries, pel, idle>>

\* A worker process ends: both tasks and everything they fetched are gone.
GoDown(w) ==
    /\ proc' = [proc EXCEPT ![w] = "down"]
    /\ pc' = [k \in Tasks |-> IF k[1] = w THEN "next" ELSE pc[k]]
    /\ todo' = [k \in Tasks |-> IF k[1] = w THEN {} ELSE todo[k]]
    /\ cur' = [k \in Tasks |-> IF k[1] = w THEN NoJob ELSE cur[k]]

Waiting(k) == pc[k] = "next" /\ todo[k] = {}

Fault ==
    /\ faults < MaxFaults
    /\ faults' = faults + 1
    /\ UNCHANGED evictions

-----------------------------------------------------------------------------
(* Producer side: the API processes *)

\* XADD with MAXLEN ~.  It creates a missing stream, but never the group.
Publish ==
    /\ last < MaxJobs
    /\ last' = last + 1
    /\ entries' \in TrimmedFrom(entries \union {last + 1})
    /\ UNCHANGED <<group, cursor, pel, idle, local, history, bounds>>

\* An API process starts: its lifespan handler ensures the group.
StartApi ==
    /\ ~group
    /\ EnsureGroup
    /\ UNCHANGED <<local, history, bounds>>

-----------------------------------------------------------------------------
(* Worker side: the main task *)

\* What if XREADGROUP were called with NOACK?
ReadNoAck(w) ==
    /\ group
    /\ proc[w] # "down"
    /\ Waiting(Main(w))
    /\ \E newest \in FirstN(Undelivered, BatchSize) :
        /\ \A j \in FirstN(Undelivered, BatchSize) : j <= newest
        /\ cursor' = newest
    /\ todo' = [todo EXCEPT ![Main(w)] = FirstN(Undelivered, BatchSize)]
    /\ UNCHANGED <<last, entries, group, pel, idle, proc, pc, cur, history,
                   bounds>>

\* XREADGROUP ">": blocks while there is nothing to deliver.  What it
\* returns becomes pending before the worker sees it.
Read(w) ==
    LET batch == FirstN(Undelivered, BatchSize) IN
    /\ group
    /\ proc[w] # "down"
    /\ Waiting(Main(w))
    /\ \E newest \in batch :
        /\ \A j \in batch : j <= newest
        /\ cursor' = newest
    /\ pel' = pel \union batch
    /\ todo' = [todo EXCEPT ![Main(w)] = batch]
    /\ UNCHANGED <<last, entries, group, idle, proc, pc, cur, history, bounds>>

\* XREADGROUP without a group raises NOGROUP, which nothing catches: the
\* generator ends, the finally clause runs and the process exits.
ReadNoGroup(w) ==
    /\ ~group
    /\ proc[w] # "down"
    /\ Waiting(Main(w))
    /\ GoDown(w)
    /\ UNCHANGED <<stream, history, bounds>>

\* The stop flag is looked at only when a message arrives; the process then
\* leaves that message, and the rest of its batch, pending.
Quit(w) ==
    /\ proc[w] = "stopping"
    /\ pc[Main(w)] = "next"
    /\ todo[Main(w)] # {}
    /\ GoDown(w)
    /\ UNCHANGED <<stream, history, bounds>>

-----------------------------------------------------------------------------
(* Worker side: the reclaim task *)

\* What one XAUTOCLAIM from 0-0 covers: the first ClaimCount pending ids that
\* are idle long enough or whose entry is gone from the stream.
Claimable == FirstN({j \in pel : j \in idle \/ j \notin entries}, ClaimCount)

\* What if claiming took the jobs off the pending list?
TakeClaimableOff ==
    /\ group
    /\ Claimable # {}
    /\ pel' = pel \ Claimable
    /\ idle' = idle \ Claimable
    /\ reclaimed' = reclaimed \union (Claimable \intersect entries)
    /\ UNCHANGED <<last, entries, group, cursor>>

\* XAUTOCLAIM's effect: pending ids without an entry are deleted, the others
\* are handed out and their idle time restarts.
TakeClaimable ==
    /\ group
    /\ Claimable # {}
    /\ pel' = pel \ (Claimable \ entries)
    /\ idle' = idle \ Claimable
    /\ reclaimed' = reclaimed \union (Claimable \intersect entries)
    /\ UNCHANGED <<last, entries, group, cursor>>

MayClaim(w) ==
    /\ w \in Reclaimers
    /\ proc[w] = "running"
    /\ Waiting(Reclaim(w))

Claim(w) ==
    /\ MayClaim(w)
    /\ TakeClaimable
    /\ todo' = [todo EXCEPT ![Reclaim(w)] = Claimable \intersect entries]
    /\ UNCHANGED <<proc, pc, cur, handled, acked, bounds>>

\* XAUTOCLAIM ran but its reply is lost: the loop logs the error and sleeps.
ClaimReplyLost(w) ==
    /\ MayClaim(w)
    /\ TakeClaimable
    /\ Fault
    /\ UNCHANGED <<local, handled, acked>>

-----------------------------------------------------------------------------
(* Both tasks: handle a message, then acknowledge it *)

\* What if a message were acknowledged before it is handled?
BeginAckFirst(k) ==
    /\ pc[k] = "next"
    /\ k[2] = "main" => proc[k[1]] = "running"
    /\ \E j \in todo[k] :
        /\ \A i \in todo[k] : j <= i
        /\ cur' = [cur EXCEPT ![k] = j]
        /\ todo' = [todo EXCEPT ![k] = @ \ {j}]
    /\ pc' = [pc EXCEPT ![k] = "ack"]
    /\ UNCHANGED <<stream, proc, history, bounds>>

\* The next message in id order.  Only the main task looks at the stop flag.
Begin(k) ==
    /\ pc[k] = "next"
    /\ k[2] = "main" => proc[k[1]] = "running"
    /\ \E j \in todo[k] :
        /\ \A i \in todo[k] : j <= i
        /\ cur' = [cur EXCEPT ![k] = j]
        /\ todo' = [todo EXCEPT ![k] = @ \ {j}]
    /\ pc' = [pc EXCEPT ![k] = "handle"]
    /\ UNCHANGED <<stream, proc, history, bounds>>

\* _handle returned.
Finish(k) ==
    /\ pc[k] = "handle"
    /\ pc' = [pc EXCEPT ![k] = "ack"]
    /\ handled' = [handled EXCEPT ![cur[k]] = IF @ = 0 THEN 1 ELSE 2]
    /\ UNCHANGED <<stream, proc, todo, cur, acked, reclaimed, bounds>>

\* What if an acknowledged job stayed on the clock of idle ones?
AckKeepsIdle(k) ==
    /\ pc[k] = "ack"
    /\ pel' = pel \ {cur[k]}
    /\ acked' = acked \union {cur[k]}
    /\ pc' = [pc EXCEPT ![k] = "next"]
    /\ cur' = [cur EXCEPT ![k] = NoJob]
    /\ UNCHANGED <<last, entries, group, cursor, idle, proc, todo, handled,
                   reclaimed, bounds>>

\* XACK.  An exception raised after Redis applied it ends in the same state.
Ack(k) ==
    /\ pc[k] = "ack"
    /\ pel' = pel \ {cur[k]}
    /\ idle' = idle \ {cur[k]}
    /\ acked' = acked \union {cur[k]}
    /\ pc' = [pc EXCEPT ![k] = "next"]
    /\ cur' = [cur EXCEPT ![k] = NoJob]
    /\ UNCHANGED <<last, entries, group, cursor, proc, todo, handled, reclaimed,
                   bounds>>

\* _handle or ack raised: the exception is logged and the loop goes on to its
\* next message, leaving this one pending.
Fail(k) ==
    /\ pc[k] \in {"handle", "ack"}
    /\ pc' = [pc EXCEPT ![k] = "next"]
    /\ cur' = [cur EXCEPT ![k] = NoJob]
    /\ Fault
    /\ UNCHANGED <<stream, proc, todo, history>>

-----------------------------------------------------------------------------
(* Process life cycle and the environment *)

\* SIGTERM or SIGINT: the handler only sets the stop event.
Signal(w) ==
    /\ proc[w] = "running"
    /\ proc' = [proc EXCEPT ![w] = "stopping"]
    /\ Fault
    /\ UNCHANGED <<stream, pc, todo, cur, history>>

\* The process is killed, or XREADGROUP raises a connection error.
Crash(w) ==
    /\ proc[w] # "down"
    /\ GoDown(w)
    /\ Fault
    /\ UNCHANGED <<stream, history>>

\* Somebody starts the process again: it ensures the group, then waits.
Start(w) ==
    /\ proc[w] = "down"
    /\ EnsureGroup
    /\ proc' = [proc EXCEPT ![w] = "running"]
    /\ UNCHANGED <<pc, todo, cur, history, bounds>>

\* A pending message has been with its consumer for 60 seconds.
Age(j) ==
    /\ j \in pel \ idle
    /\ idle' = idle \union {j}
    /\ UNCHANGED <<last, entries, group, cursor, pel, local, history, bounds>>

\* maxmemory-policy allkeys-lru evicts the stream key, group and all.
EvictStream ==
    /\ evictions < MaxEvictions
    /\ group \/ entries # {}
    /\ evictions' = evictions + 1
    /\ entries' = {} /\ pel' = {} /\ idle' = {}
    /\ group' = FALSE
    /\ UNCHANGED <<last, cursor, local, history, faults>>

-----------------------------------------------------------------------------
Init ==
    /\ last = 0 /\ entries = {} /\ cursor = 0
    /\ group = TRUE     \* main.py's lifespan ensured it before any request
    /\ pel = {} /\ idle = {}
    /\ proc = [w \in Workers |-> "running"]
    /\ pc = [k \in Tasks |-> "next"]
    /\ todo = [k \in Tasks |-> {}]
    /\ cur = [k \in Tasks |-> NoJob]
    /\ handled = [j \in Jobs |-> 0]
    /\ acked = {} /\ reclaimed = {}
    /\ faults = 0 /\ evictions = 0

TaskStep(k) == Begin(k) \/ Finish(k) \/ Ack(k)

WorkerNext(w) ==
    \/ Read(w) \/ ReadNoGroup(w) \/ Quit(w)
    \/ Claim(w) \/ ClaimReplyLost(w)
    \/ Signal(w) \/ Crash(w) \/ Start(w)

Next ==
    \/ Publish \/ StartApi \/ EvictStream
    \/ \E w \in Workers : WorkerNext(w)
    \/ \E k \in Tasks : TaskStep(k) \/ Fail(k)
    \/ \E j \in Jobs : Age(j)

Spec == Init /\ [][Next]_vars

\* The event loop runs every task that can run, a reclaim loop comes round
\* every 30 s, and time passes.  Nothing obliges anybody to publish or to
\* restart a process: docker-compose.yml declares no restart policy.
Fairness ==
    /\ \A w \in Workers : WF_vars(Read(w)) /\ WF_vars(Quit(w)) /\ WF_vars(Claim(w))
    /\ \A k \in Tasks : WF_vars(TaskStep(k))
    /\ \A j \in Jobs : WF_vars(Age(j))

FairSpec == Spec /\ Fairness

-----------------------------------------------------------------------------
(* Properties *)

\* An acknowledgement is never premature: XACK is sent only for a job whose
\* handler returned, so no exception or crash between the two loses the job.
AckedHandled == \A j \in acked : handled[j] > 0

\* As long as the stream key is not evicted, every retained entry is
\* acknowledged, pending, or still ahead of the group's cursor: no crash,
\* restart, batch left behind by a signal, lost reply or reclaim drops it.
RetainedIsRecoverable ==
    evictions = 0 =>
        \A j \in entries : j \in acked \/ j \in pel \/ j > cursor

\* Running a job twice, or holding it in two tasks at once, takes a reclaim:
\* the read path alone never delivers a job again.  The notification group,
\* which has no reclaim loop, therefore handles every job at most once.
Held(k) == IF cur[k] = NoJob THEN todo[k] ELSE todo[k] \union {cur[k]}
RepeatOnlyAfterReclaim ==
    \A j \in Jobs \ reclaimed :
        /\ handled[j] <= 1
        /\ \A k, l \in Tasks : j \in Held(k) /\ j \in Held(l) => k = l

\* Every published job is handled eventually, where workers reclaim, for all
\* crashes, signals, exceptions and lost replies ("Durable", README.md).
EveryJobHandled == \A j \in Jobs : last >= j ~> handled[j] > 0

\* An entry that left the pending list un-acknowledged is never delivered
\* again, so it may leave only if its entry was trimmed or the key evicted.
NeverForgottenWhileRetained ==
    [][\A j \in pel \ pel' :
          j \in acked' \/ j \notin entries']_vars

\* The contract the services rely on: with no eviction and no trimming a
\* published job never leaves the books before it is done, whatever crashes.
JobStatus(j) ==
    IF j > last THEN "unpublished"
    ELSE IF j \in acked THEN "acknowledged"
    ELSE IF j \in entries /\ (j \in pel \/ ~group \/ j > cursor) THEN "outstanding"
    ELSE "lost"
Delivery == INSTANCE JobDelivery WITH
    MayLose <- MaxEvictions > 0 \/ MaxLen < MaxJobs,
    status <- [j \in Jobs |-> JobStatus(j)],
    completed <- {j \in Jobs : handled[j] > 0}
DeliverySpec == Delivery!Spec
=============================================================================
