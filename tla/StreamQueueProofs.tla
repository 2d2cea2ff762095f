------------------------- MODULE StreamQueueProofs -------------------------
(***************************************************************************)
(* Theorems about StreamQueue, for any set of workers, any set of them     *)
(* that reclaims, and any batch sizes, stream lengths and bounds.          *)
(***************************************************************************)
EXTENDS StreamQueue, FiniteSetTheorems, TLAPS

-----------------------------------------------------------------------------
(* Lemmas on the helpers *)

\* A COUNT n range read returns elements of the set it reads.
LEMMA FirstNSubset ==
    ASSUME NEW S, NEW n
    PROVE  FirstN(S, n) \subseteq S
  BY DEF FirstN

\* It returns a prefix: whatever precedes a returned id is returned too.
LEMMA FirstNPrefix ==
    ASSUME NEW S \in SUBSET Nat, IsFiniteSet(S), NEW n \in Nat,
           NEW b \in FirstN(S, n), NEW j \in S, j < b
    PROVE  j \in FirstN(S, n)
  <1> DEFINE Below(x) == {i \in S : i < x}
  <1>0. b \in S /\ b \in Nat /\ j \in Nat
    BY FirstNSubset
  <1>1. Below(j) \subseteq Below(b)
    <2> SUFFICES ASSUME NEW i \in S, i < j PROVE i < b
      OBVIOUS
    <2> i \in Nat
      OBVIOUS
    <2> QED
      BY <1>0
  <1>2. IsFiniteSet(Below(b))
    BY FS_Subset
  <1>3. IsFiniteSet(Below(j)) /\ Cardinality(Below(j)) <= Cardinality(Below(b))
    BY <1>1, <1>2, FS_Subset
  <1>4. Cardinality(Below(b)) < n
    BY DEF FirstN
  <1>5. Cardinality(Below(j)) \in Nat /\ Cardinality(Below(b)) \in Nat
    BY <1>2, <1>3, FS_CardinalityType
  <1>6. Cardinality(Below(j)) < n
    BY <1>3, <1>4, <1>5
  <1> QED
    BY <1>6 DEF FirstN

\* Trimming only removes entries.
LEMMA TrimmedSubset ==
    ASSUME NEW E, NEW T \in TrimmedFrom(E)
    PROVE  T \subseteq E
  BY DEF TrimmedFrom

LEMMA TaskOf ==
    ASSUME NEW w \in Workers
    PROVE  Main(w) \in Tasks /\ Reclaim(w) \in Tasks /\ Main(w) # Reclaim(w)
  BY DEF Main, Reclaim, Tasks, Loops

\* The claimed ids are pending.
LEMMA ClaimablePending == Claimable \subseteq pel
  BY FirstNSubset DEF Claimable

-----------------------------------------------------------------------------
(* Type correctness *)

LEMMA TypeInit == Init => TypeOK
  BY QueueAssumption
     DEF Init, TypeOK, StreamTypeOK, WorkerTypeOK, HistoryTypeOK, Jobs, NoJob

\* A worker that goes down leaves its tasks idle.
LEMMA GoDownType ==
    ASSUME WorkerTypeOK, NEW w \in Workers, GoDown(w), last' = last, last \in Nat
    PROVE  WorkerTypeOK'
  <1> USE DEF WorkerTypeOK, GoDown, NoJob
  <1>1. proc' \in [Workers -> {"running", "stopping", "down"}]
    OBVIOUS
  <1>2. pc' \in [Tasks -> {"next", "handle", "ack"}]
    OBVIOUS
  <1>3. todo' \in [Tasks -> SUBSET (1..last')]
    OBVIOUS
  <1>4. cur' \in [Tasks -> 0..last']
    <2> 0 \in 0..last
      OBVIOUS
    <2> QED
      OBVIOUS
  <1>5. \A k \in Tasks : pc'[k] = "next" <=> cur'[k] = NoJob
    OBVIOUS
  <1> QED
    BY <1>1, <1>2, <1>3, <1>4, <1>5

\* XAUTOCLAIM changes the pending list and its clocks only.
LEMMA TakeClaimableType ==
    ASSUME TypeOK, TakeClaimable
    PROVE  /\ StreamTypeOK'
           /\ last' = last
           /\ reclaimed' \subseteq 1..last
           /\ Claimable \intersect entries \subseteq 1..last
  BY ClaimablePending DEF TypeOK, StreamTypeOK, HistoryTypeOK, TakeClaimable

LEMMA EnsureGroupType ==
    ASSUME StreamTypeOK, EnsureGroup
    PROVE  StreamTypeOK' /\ last' = last
  BY DEF StreamTypeOK, EnsureGroup

\* While a task holds a message, it is one that was published.
LEMMA CurrentJob ==
    ASSUME TypeOK, NEW k \in Tasks, pc[k] # "next"
    PROVE  cur[k] \in 1..last /\ cur[k] \in Jobs
  BY QueueAssumption DEF TypeOK, StreamTypeOK, WorkerTypeOK, NoJob, Jobs

\* The parts that a step does not touch keep their type.
LEMMA SameWorkerType ==
    ASSUME WorkerTypeOK, UNCHANGED <<proc, pc, todo, cur, last>>
    PROVE  WorkerTypeOK'
  BY DEF WorkerTypeOK

LEMMA ReleaseType ==
    ASSUME WorkerTypeOK, NEW k \in Tasks, UNCHANGED <<proc, todo, last>>,
           last \in Nat,
           pc' = [pc EXCEPT ![k] = "next"], cur' = [cur EXCEPT ![k] = NoJob]
    PROVE  WorkerTypeOK'
  <1>1. pc' \in [Tasks -> {"next", "handle", "ack"}]
    BY DEF WorkerTypeOK
  <1>2. cur' \in [Tasks -> 0..last']
    <2> SUFFICES ASSUME NEW l \in Tasks PROVE cur'[l] \in 0..last'
      BY DEF WorkerTypeOK
    <2> QED
      BY DEF WorkerTypeOK, NoJob
  <1>3. \A l \in Tasks : pc'[l] = "next" <=> cur'[l] = NoJob
    BY DEF WorkerTypeOK
  <1> QED
    BY <1>1, <1>2, <1>3 DEF WorkerTypeOK

LEMMA SameHistoryType ==
    ASSUME HistoryTypeOK, UNCHANGED <<handled, acked, reclaimed, last>>,
           faults' \in 0..MaxFaults, evictions' \in 0..MaxEvictions
    PROVE  HistoryTypeOK'
  BY DEF HistoryTypeOK

LEMMA FaultType ==
    ASSUME HistoryTypeOK, Fault
    PROVE  faults' \in 0..MaxFaults /\ evictions' \in 0..MaxEvictions
  BY QueueAssumption DEF HistoryTypeOK, Fault

LEMMA TypeStep == TypeOK /\ [Next]_vars => TypeOK'
  <1> SUFFICES ASSUME TypeOK, [Next]_vars PROVE TypeOK'
    OBVIOUS
  <1> USE DEF TypeOK, stream, local, history, bounds
  <1>0. /\ faults \in 0..MaxFaults /\ evictions \in 0..MaxEvictions
        /\ last \in Nat
    BY QueueAssumption DEF StreamTypeOK, HistoryTypeOK
  <1>1. CASE Publish
    <2>1. last' \in 0..MaxJobs /\ last < last' /\ 1..last \subseteq 1..last'
      BY <1>0, <1>1, QueueAssumption DEF Publish
    <2>2. entries' \subseteq entries \union {last'}
      BY <1>1, TrimmedSubset DEF Publish
    <2>3. StreamTypeOK'
      BY <1>0, <1>1, <2>1, <2>2 DEF Publish, StreamTypeOK
    <2>4. WorkerTypeOK'
      BY <1>0, <1>1, <2>1 DEF Publish, WorkerTypeOK
    <2>5. HistoryTypeOK'
      BY <1>1, <2>1 DEF Publish, HistoryTypeOK
    <2> QED
      BY <2>3, <2>4, <2>5
  <1>2. CASE StartApi
    BY <1>0, <1>2, EnsureGroupType, SameWorkerType, SameHistoryType DEF StartApi
  <1>3. CASE EvictStream
    <2>1. StreamTypeOK'
      BY <1>3 DEF EvictStream, StreamTypeOK
    <2>2. evictions' \in 0..MaxEvictions
      BY <1>0, <1>3, QueueAssumption DEF EvictStream
    <2> QED
      BY <1>0, <1>3, <2>1, <2>2, SameWorkerType, SameHistoryType DEF EvictStream
  <1>4. ASSUME NEW w \in Workers, Read(w) PROVE TypeOK'
    <2> DEFINE batch == FirstN(Undelivered, BatchSize)
    <2>1. batch \subseteq 1..last
      BY FirstNSubset DEF Undelivered, StreamTypeOK
    <2>2. cursor' \in batch
      BY <1>4 DEF Read
    <2>3. todo' = [todo EXCEPT ![Main(w)] = batch] /\ pel' = pel \union batch
      BY <1>4 DEF Read
    <2> HIDE DEF batch
    <2>4. StreamTypeOK'
      <3> last' = last
        BY <1>4 DEF Read
      <3>0. \A j \in batch : j > cursor /\ j <= cursor' /\ j \in 1..last
        BY <1>4, <2>1, FirstNSubset DEF batch, Read, Undelivered
      <3>1. cursor' \in 0..last' /\ pel' \subseteq 1..cursor'
        <4>1. cursor' \in 1..last /\ cursor < cursor' /\ cursor \in Nat
          BY <1>0, <2>2, <3>0 DEF StreamTypeOK
        <4>2. pel \subseteq 1..cursor'
          BY <4>1 DEF StreamTypeOK
        <4>3. batch \subseteq 1..cursor'
          BY <3>0, <4>1
        <4> QED
          BY <2>3, <4>1, <4>2, <4>3
      <3>2. idle' \subseteq pel'
        BY <1>4, <2>3 DEF Read, StreamTypeOK
      <3> QED
        BY <1>4, <3>1, <3>2 DEF Read, StreamTypeOK
    <2>5. WorkerTypeOK'
      BY <1>4, <2>1, <2>3 DEF Read, WorkerTypeOK
    <2> QED
      BY <1>0, <1>4, <2>4, <2>5, SameHistoryType DEF Read
  <1>5. ASSUME NEW w \in Workers, ReadNoGroup(w) \/ Quit(w) \/ Crash(w)
        PROVE  TypeOK'
    <2>1. GoDown(w) /\ UNCHANGED <<stream, history>>
      BY <1>5 DEF ReadNoGroup, Quit, Crash
    <2>2. faults' \in 0..MaxFaults /\ evictions' \in 0..MaxEvictions
      BY <1>0, <1>5, FaultType DEF ReadNoGroup, Quit, Crash
    <2> QED
      BY <1>0, <2>1, <2>2, GoDownType, SameHistoryType DEF StreamTypeOK
  <1>6. ASSUME NEW w \in Workers, Claim(w) PROVE TypeOK'
    <2>1. TakeClaimable
      BY <1>6 DEF Claim
    <2>2. WorkerTypeOK'
      BY <1>6, <2>1, TakeClaimableType DEF Claim, WorkerTypeOK
    <2>3. HistoryTypeOK'
      BY <1>6, <2>1, TakeClaimableType DEF Claim, HistoryTypeOK
    <2> QED
      BY <2>1, <2>2, <2>3, TakeClaimableType
  <1>7. ASSUME NEW w \in Workers, ClaimReplyLost(w) PROVE TypeOK'
    <2>1. TakeClaimable /\ Fault /\ UNCHANGED <<local, handled, acked>>
      BY <1>7 DEF ClaimReplyLost
    <2>2. HistoryTypeOK'
      BY <2>1, TakeClaimableType, FaultType DEF HistoryTypeOK
    <2> QED
      BY <2>1, <2>2, TakeClaimableType, SameWorkerType
  <1>8. ASSUME NEW w \in Workers, Signal(w) PROVE TypeOK'
    <2>1. WorkerTypeOK'
      BY <1>8 DEF Signal, WorkerTypeOK
    <2> QED
      BY <1>8, <2>1, FaultType, SameHistoryType DEF Signal, StreamTypeOK
  <1>9. ASSUME NEW w \in Workers, Start(w) PROVE TypeOK'
    <2>1. StreamTypeOK' /\ last' = last
      BY <1>9, EnsureGroupType DEF Start
    <2>2. WorkerTypeOK'
      BY <1>9, <2>1 DEF Start, WorkerTypeOK
    <2> QED
      BY <1>0, <1>9, <2>1, <2>2, SameHistoryType DEF Start
  <1>10. ASSUME NEW k \in Tasks, Begin(k) PROVE TypeOK'
    <2>1. WorkerTypeOK'
      BY <1>0, <1>10 DEF Begin, WorkerTypeOK, NoJob
    <2> QED
      BY <1>0, <1>10, <2>1, SameHistoryType DEF Begin, StreamTypeOK
  <1>11. ASSUME NEW k \in Tasks, Finish(k) PROVE TypeOK'
    <2>1. WorkerTypeOK'
      BY <1>11 DEF Finish, WorkerTypeOK
    <2>2. cur[k] \in Jobs
      BY <1>11, CurrentJob DEF Finish
    <2>3. HistoryTypeOK'
      BY <1>11, <2>2 DEF Finish, HistoryTypeOK
    <2> QED
      BY <1>11, <2>1, <2>3 DEF Finish, StreamTypeOK
  <1>12. ASSUME NEW k \in Tasks, Ack(k) PROVE TypeOK'
    <2>1. WorkerTypeOK'
      BY <1>0, <1>12, ReleaseType DEF Ack
    <2>2. cur[k] \in 1..last
      BY <1>12, CurrentJob DEF Ack
    <2>3. HistoryTypeOK'
      BY <1>12, <2>2 DEF Ack, HistoryTypeOK
    <2>4. StreamTypeOK'
      BY <1>12 DEF Ack, StreamTypeOK
    <2> QED
      BY <2>1, <2>3, <2>4
  <1>13. ASSUME NEW k \in Tasks, Fail(k) PROVE TypeOK'
    <2>1. WorkerTypeOK'
      BY <1>0, <1>13, ReleaseType DEF Fail, StreamTypeOK
    <2> QED
      BY <1>13, <2>1, FaultType, SameHistoryType DEF Fail, StreamTypeOK
  <1>14. ASSUME NEW j \in Jobs, Age(j) PROVE TypeOK'
    <2>1. StreamTypeOK'
      BY <1>14 DEF Age, StreamTypeOK
    <2> QED
      BY <1>0, <1>14, <2>1, SameWorkerType, SameHistoryType DEF Age
  <1>15. CASE UNCHANGED vars
    BY <1>0, <1>15, SameWorkerType, SameHistoryType DEF vars, StreamTypeOK
  <1> QED
    BY <1>1, <1>2, <1>3, <1>4, <1>5, <1>6, <1>7, <1>8, <1>9, <1>10, <1>11,
       <1>12, <1>13, <1>14, <1>15
       DEF Next, WorkerNext, TaskStep

\* Every step keeps every variable of the queue and its workers in its type,
\* and a task between messages never holds a job.
THEOREM TypeCorrect == Spec => []TypeOK
  BY TypeInit, TypeStep, PTL DEF Spec

-----------------------------------------------------------------------------
(* Safety *)

\* Nothing beyond the cursor has been delivered, nothing unpublished either.
Untouched(j) == handled[j] = 0 /\ \A k \in Tasks : j \notin Held(k)
Fresh ==
    /\ \A j \in Jobs : j > last => Untouched(j)
    /\ group => \A j \in Jobs : j > cursor => Untouched(j)

\* A job that no XAUTOCLAIM handed out is held by one task at most, and once
\* its handler returned only that task's ack is left to do.
SingleDelivery ==
    \A j \in Jobs \ reclaimed :
        /\ handled[j] <= 1
        /\ \A k, l \in Tasks : j \in Held(k) /\ j \in Held(l) => k = l
        /\ \A k \in Tasks :
              j \in todo[k] \/ (j = cur[k] /\ pc[k] = "handle") => handled[j] = 0

\* What a task is about to acknowledge has been handled, and it never holds
\* the message it works on twice.
AckIsEarned ==
    \A k \in Tasks :
        /\ pc[k] = "ack" => handled[cur[k]] > 0
        /\ cur[k] \notin todo[k]

QueueInv ==
    /\ AckIsEarned
    /\ AckedHandled
    /\ RetainedIsRecoverable
    /\ evictions = 0 => group
    /\ Fresh
    /\ SingleDelivery

\* A step after which no task holds or works on anything new, and no handler
\* returned: most steps are of this kind.
Quiet ==
    /\ handled' = handled
    /\ reclaimed \subseteq reclaimed'
    /\ \A k \in Tasks :
        \/ pc'[k] = pc[k] /\ cur'[k] = cur[k] /\ todo'[k] = todo[k]
        \/ pc'[k] = "next" /\ cur'[k] = NoJob /\ todo'[k] \subseteq todo[k]

LEMMA InvInit == Init => QueueInv
  BY QueueAssumption
     DEF Init, QueueInv, AckIsEarned, AckedHandled, RetainedIsRecoverable, Fresh,
         Untouched, SingleDelivery, Held, NoJob, Jobs

LEMMA QuietLocal ==
    ASSUME TypeOK, TypeOK', AckIsEarned, SingleDelivery, Quiet
    PROVE  AckIsEarned' /\ SingleDelivery'
  <1> USE DEF Quiet, NoJob
  <1>1. \A k \in Tasks : todo[k] \subseteq 1..last /\ 0 \notin todo[k]
    BY DEF TypeOK, WorkerTypeOK
  <1>2. AckIsEarned'
    BY <1>1 DEF AckIsEarned
  <1>3. \A k \in Tasks : Held(k)' \subseteq Held(k)
    BY DEF Held
  <1>4. \A k \in Tasks : \A j \in Jobs :
           j \in todo'[k] \/ (j = cur'[k] /\ pc'[k] = "handle")
           => j \in todo[k] \/ (j = cur[k] /\ pc[k] = "handle")
    BY DEF Jobs
  <1>5. SingleDelivery'
    BY <1>3, <1>4 DEF SingleDelivery
  <1> QED
    BY <1>2, <1>5

LEMMA QuietFresh ==
    ASSUME TypeOK, TypeOK', Fresh, Quiet, last' \in {last, last + 1},
           group' => cursor' = last \/ (group /\ cursor' = cursor)
    PROVE  Fresh'
  <1>1. \A k \in Tasks : Held(k)' \subseteq Held(k)
    BY DEF Held, Quiet, NoJob
  <1>2. \A j \in Jobs : Untouched(j) => Untouched(j)'
    BY <1>1 DEF Untouched, Quiet
  <1>3. last \in Nat /\ Jobs \subseteq Nat
    BY QueueAssumption DEF TypeOK, StreamTypeOK, Jobs
  <1>4. \A j \in Jobs : j > last' => Untouched(j)'
    BY <1>2, <1>3 DEF Fresh
  <1>5. group' => \A j \in Jobs : j > cursor' => Untouched(j)'
    BY <1>2, <1>3 DEF Fresh
  <1> QED
    BY <1>4, <1>5 DEF Fresh

\* What a step must show besides, when it leaves the tasks quiet.
LEMMA QuietStep ==
    ASSUME TypeOK, TypeOK', QueueInv, Quiet, last' \in {last, last + 1},
           group' => cursor' = last \/ (group /\ cursor' = cursor),
           AckedHandled', RetainedIsRecoverable', evictions' = 0 => group'
    PROVE  QueueInv'
  BY QuietLocal, QuietFresh DEF QueueInv

\* Redis-side effect of a step that neither delivers nor drops an entry.
LEMMA StillRecoverable ==
    ASSUME TypeOK, QueueInv, evictions' = 0 => evictions = 0,
           acked \subseteq acked', entries' \subseteq entries,
           cursor' = cursor, pel \ pel' \subseteq acked' \union (pel \ entries)
    PROVE  RetainedIsRecoverable'
  BY DEF QueueInv, RetainedIsRecoverable

LEMMA SameLocalInv ==
    ASSUME QueueInv,
           UNCHANGED <<last, entries, group, cursor, pel, pc, todo, cur, history,
                       evictions>>
    PROVE  QueueInv'
  BY DEF QueueInv, AckIsEarned, AckedHandled, RetainedIsRecoverable, Fresh,
         Untouched, SingleDelivery, Held, history

LEMMA GoDownQuiet ==
    ASSUME TypeOK, NEW w \in Workers, GoDown(w), UNCHANGED history
    PROVE  Quiet
  BY DEF Quiet, GoDown, NoJob, history, TypeOK, WorkerTypeOK

LEMMA ReleaseQuiet ==
    ASSUME TypeOK, NEW k \in Tasks, UNCHANGED <<todo, handled, reclaimed>>,
           pc' = [pc EXCEPT ![k] = "next"], cur' = [cur EXCEPT ![k] = NoJob]
    PROVE  Quiet
  BY DEF Quiet, NoJob, TypeOK, WorkerTypeOK

\* The entries a Read leaves undelivered are all beyond the new cursor.
LEMMA ReadPrefix ==
    ASSUME TypeOK, NEW w \in Workers, Read(w), NEW j \in entries, j > cursor,
           j \notin FirstN(Undelivered, BatchSize)
    PROVE  j > cursor'
  <1> DEFINE batch == FirstN(Undelivered, BatchSize)
  <1>1. Undelivered \in SUBSET Nat /\ IsFiniteSet(Undelivered)
    <2>1. entries \subseteq 1..last /\ last \in Nat
      BY QueueAssumption DEF TypeOK, StreamTypeOK
    <2>2. IsFiniteSet(1..last)
      BY <2>1, FS_Interval
    <2>3. Undelivered \in SUBSET (1..last)
      BY <2>1 DEF Undelivered
    <2>4. IsFiniteSet(Undelivered)
      BY <2>2, <2>3, FS_Subset
    <2> QED
      BY <2>1, <2>3, <2>4
  <1>2. cursor' \in batch
    BY DEF Read
  <1>3. j \in Undelivered
    BY DEF Undelivered
  <1>4. ~(j < cursor')
    BY <1>1, <1>2, <1>3, FirstNPrefix, QueueAssumption
  <1>5. cursor' \in Nat /\ j \in Nat /\ j # cursor'
    BY <1>1, <1>2, <1>3, FirstNSubset
  <1> QED
    BY <1>4, <1>5

LEMMA ReadInv ==
    ASSUME TypeOK, TypeOK', QueueInv, NEW w \in Workers, Read(w)
    PROVE  QueueInv'
  <1> DEFINE batch == FirstN(Undelivered, BatchSize)
  <1> USE DEF QueueInv, stream, local, history, bounds
  <1>0. Main(w) \in Tasks /\ pc[Main(w)] = "next" /\ todo[Main(w)] = {}
        /\ cur[Main(w)] = NoJob
    BY TaskOf DEF Read, Waiting, TypeOK, WorkerTypeOK
  <1>1. batch \subseteq Undelivered /\ cursor' \in batch
        /\ \A j \in batch : j <= cursor'
    BY FirstNSubset DEF Read
  <1>2. todo' = [todo EXCEPT ![Main(w)] = batch] /\ pel' = pel \union batch
    BY DEF Read
  <1>3. /\ group /\ group'
        /\ UNCHANGED <<last, entries, pc, cur, handled, acked, reclaimed, evictions>>
    BY DEF Read
  <1>4. \A j \in batch : j \in Jobs /\ j \in entries /\ Untouched(j) /\ j # NoJob
    BY <1>1, <1>3, QueueAssumption
       DEF Undelivered, Fresh, TypeOK, StreamTypeOK, Jobs, NoJob
  <1>5. RetainedIsRecoverable'
    <2>0. \A j \in entries : j > cursor /\ j \notin batch => j > cursor'
      BY ReadPrefix
    <2> HIDE DEF batch
    <2> QED
      BY <1>2, <1>3, <2>0 DEF RetainedIsRecoverable
  <1> HIDE DEF batch
  <1>6. AckIsEarned'
    BY <1>0, <1>2, <1>3, <1>4 DEF AckIsEarned, TypeOK, WorkerTypeOK
  <1>7. \A k \in Tasks : /\ k # Main(w) => Held(k)' = Held(k)
                         /\ k = Main(w) => Held(k) = {} /\ Held(k)' = batch
    BY <1>0, <1>2, <1>3 DEF Held, TypeOK, WorkerTypeOK, NoJob
  <1>8. Fresh'
    <2> SUFFICES ASSUME NEW j \in Jobs, j > last \/ j > cursor' PROVE Untouched(j)'
      BY <1>3 DEF Fresh
    <2>1. j > cursor
      <3>1. cursor' \in Nat /\ cursor \in Nat /\ last \in Nat /\ j \in Nat
            /\ cursor' > cursor /\ last >= cursor
        BY <1>1, QueueAssumption DEF Undelivered, TypeOK, StreamTypeOK, Jobs
      <3> QED
        BY <3>1
    <2>2. Untouched(j)
      BY <1>3, <2>1 DEF Fresh
    <2>3. j \notin batch
      BY <1>1, QueueAssumption DEF TypeOK, StreamTypeOK, Jobs, Undelivered
    <2> QED
      BY <1>3, <1>7, <2>2, <2>3 DEF Untouched
  <1>9. SingleDelivery'
    <2> SUFFICES ASSUME NEW j \in Jobs, j \notin reclaimed
                 PROVE  /\ handled[j] <= 1
                        /\ \A k, l \in Tasks :
                              j \in Held(k)' /\ j \in Held(l)' => k = l
                        /\ \A k \in Tasks :
                              j \in todo'[k] \/ (j = cur[k] /\ pc[k] = "handle")
                              => handled[j] = 0
      BY <1>3 DEF SingleDelivery
    <2>1. CASE j \in batch
      <3>1. handled[j] = 0 /\ \A k \in Tasks : j \notin Held(k)
        BY <1>4, <2>1 DEF Untouched
      <3> QED
        BY <1>7, <3>1
    <2>2. CASE j \notin batch
      <3>1. \A k \in Tasks : j \in Held(k)' => j \in Held(k)
        BY <1>7, <2>2
      <3>2. \A k \in Tasks : j \in todo'[k] => j \in todo[k]
        BY <1>2, <2>2 DEF TypeOK, WorkerTypeOK
      <3> QED
        BY <3>1, <3>2 DEF SingleDelivery
    <2> QED
      BY <2>1, <2>2
  <1> QED
    BY <1>3, <1>5, <1>6, <1>8, <1>9 DEF AckedHandled

LEMMA TakeClaimableRecoverable ==
    ASSUME TypeOK, QueueInv, TakeClaimable, UNCHANGED <<acked, evictions>>
    PROVE  RetainedIsRecoverable' /\ (evictions' = 0 => group')
  BY DEF TakeClaimable, QueueInv, RetainedIsRecoverable

LEMMA ClaimInv ==
    ASSUME TypeOK, TypeOK', QueueInv, NEW w \in Workers, Claim(w)
    PROVE  QueueInv'
  <1> DEFINE got == Claimable \intersect entries
             me == Reclaim(w)
  <1> USE DEF QueueInv
  <1>0. me \in Tasks /\ pc[me] = "next" /\ todo[me] = {} /\ cur[me] = NoJob
    BY TaskOf DEF Claim, MayClaim, Waiting, TypeOK, WorkerTypeOK
  <1>1. /\ todo' = [todo EXCEPT ![me] = got]
        /\ UNCHANGED <<last, entries, group, cursor, pc, cur, handled, acked,
                       evictions>>
        /\ reclaimed' = reclaimed \union got
    BY DEF Claim, TakeClaimable, bounds
  <1>2. RetainedIsRecoverable' /\ AckedHandled' /\ (evictions' = 0 => group')
    BY <1>1, TakeClaimableRecoverable DEF Claim, AckedHandled
  <1>3. got \subseteq pel /\ pel \subseteq 1..cursor
    BY ClaimablePending DEF TypeOK, StreamTypeOK
  <1>8. \A j \in got : ~(j > last) /\ ~(j > cursor)
    <2>1. cursor \in Nat /\ last \in Nat /\ cursor <= last
      BY QueueAssumption DEF TypeOK, StreamTypeOK
    <2> HIDE DEF got
    <2>2. got \subseteq 1..cursor
      BY <1>3
    <2> QED
      BY <2>1, <2>2
  <1> HIDE DEF got, me
  <1>4. AckIsEarned'
    BY <1>0, <1>1, <1>3 DEF AckIsEarned, TypeOK, WorkerTypeOK, NoJob
  <1>5. \A k \in Tasks : /\ k # me => Held(k)' = Held(k)
                         /\ k = me => Held(k)' = got
    BY <1>0, <1>1 DEF Held, TypeOK, WorkerTypeOK
  <1>6. SingleDelivery'
    BY <1>0, <1>1, <1>5 DEF SingleDelivery, TypeOK, WorkerTypeOK
  <1>7. Fresh'
    BY <1>1, <1>3, <1>5, <1>8 DEF Fresh, Untouched
  <1> QED
    BY <1>2, <1>4, <1>6, <1>7

LEMMA BeginInv ==
    ASSUME TypeOK, TypeOK', QueueInv, NEW k \in Tasks, Begin(k)
    PROVE  QueueInv'
  <1> USE DEF QueueInv
  <1>1. PICK j \in todo[k] :
          /\ cur' = [cur EXCEPT ![k] = j]
          /\ todo' = [todo EXCEPT ![k] = @ \ {j}]
    BY DEF Begin
  <1>2. /\ pc[k] = "next" /\ pc' = [pc EXCEPT ![k] = "handle"] /\ cur[k] = NoJob
        /\ UNCHANGED <<stream, history, bounds>>
    BY DEF Begin, TypeOK, WorkerTypeOK
  <1>3. j # NoJob
    BY DEF TypeOK, WorkerTypeOK, NoJob
  <1>4. \A l \in Tasks : Held(l)' = Held(l)
    <2>1. /\ cur'[k] = j /\ todo'[k] = todo[k] \ {j}
          /\ \A l \in Tasks : l # k => cur'[l] = cur[l] /\ todo'[l] = todo[l]
      BY <1>1 DEF TypeOK, WorkerTypeOK
    <2> QED
      BY <1>1, <1>2, <1>3, <2>1 DEF Held
  <1>5. AckIsEarned'
    BY <1>1, <1>2 DEF AckIsEarned, TypeOK, WorkerTypeOK, history
  <1>6. SingleDelivery'
    BY <1>1, <1>2, <1>4 DEF SingleDelivery, TypeOK, WorkerTypeOK, history
  <1>7. Fresh'
    BY <1>2, <1>4 DEF Fresh, Untouched, stream, history
  <1>8. AckedHandled' /\ RetainedIsRecoverable' /\ (evictions' = 0 => group')
    BY <1>2 DEF AckedHandled, RetainedIsRecoverable, stream, history, bounds
  <1> QED
    BY <1>5, <1>6, <1>7, <1>8

LEMMA FinishInv ==
    ASSUME TypeOK, TypeOK', QueueInv, NEW k \in Tasks, Finish(k)
    PROVE  QueueInv'
  <1> DEFINE c == cur[k]
  <1> USE DEF QueueInv
  <1>1. /\ pc[k] = "handle" /\ pc' = [pc EXCEPT ![k] = "ack"]
        /\ handled' = [handled EXCEPT ![c] = IF @ = 0 THEN 1 ELSE 2]
        /\ UNCHANGED <<stream, todo, cur, acked, reclaimed, bounds>>
    BY DEF Finish
  <1>2. c \in Jobs /\ c \in Held(k) /\ c # NoJob
    BY <1>1, CurrentJob DEF Held, TypeOK, WorkerTypeOK
  <1>3. handled'[c] > 0 /\ \A j \in Jobs : j # c => handled'[j] = handled[j]
    BY <1>1, <1>2 DEF TypeOK, HistoryTypeOK
  <1>4. \A l \in Tasks : Held(l)' = Held(l)
    BY <1>1 DEF Held
  <1>5. AckIsEarned'
    <2> SUFFICES ASSUME NEW l \in Tasks
                 PROVE  (pc'[l] = "ack" => handled'[cur[l]] > 0)
                        /\ cur[l] \notin todo[l]
      BY <1>1 DEF AckIsEarned
    <2>1. pc'[l] = "ack" => pc[l] # "next"
      BY <1>1 DEF TypeOK, WorkerTypeOK
    <2>2. pc'[l] = "ack" => cur[l] \in Jobs
      BY <2>1, CurrentJob
    <2>3. CASE l = k
      BY <1>3, <2>3 DEF AckIsEarned
    <2>4. CASE l # k
      <3>1. pc'[l] = pc[l]
        BY <1>1, <2>4 DEF TypeOK, WorkerTypeOK
      <3> QED
        BY <1>3, <2>2, <3>1 DEF AckIsEarned
    <2> QED
      BY <2>3, <2>4
  <1>6. SingleDelivery'
    <2> SUFFICES ASSUME NEW j \in Jobs, j \notin reclaimed
                 PROVE  /\ handled'[j] <= 1
                        /\ \A l, m \in Tasks :
                              j \in Held(l) /\ j \in Held(m) => l = m
                        /\ \A l \in Tasks :
                              j \in todo[l] \/ (j = cur[l] /\ pc'[l] = "handle")
                              => handled'[j] = 0
      BY <1>1, <1>4 DEF SingleDelivery
    <2>1. CASE j # c
      <3>1. \A l \in Tasks : pc'[l] = "handle" => pc[l] = "handle"
        BY <1>1 DEF TypeOK, WorkerTypeOK
      <3> QED
        BY <1>3, <2>1, <3>1 DEF SingleDelivery
    <2>2. CASE j = c
      <3>1. handled[j] = 0
        BY <1>1, <2>2 DEF SingleDelivery
      <3>2. handled'[j] = 1
        BY <1>1, <1>2, <2>2, <3>1 DEF TypeOK, HistoryTypeOK
      <3>3. \A l \in Tasks : j \in Held(l) => l = k
        BY <1>2, <2>2 DEF SingleDelivery
      <3>4. \A l \in Tasks : j \notin todo[l] /\ ~(j = cur[l] /\ pc'[l] = "handle")
        BY <1>1, <1>2, <2>2, <3>3 DEF Held, AckIsEarned, TypeOK, WorkerTypeOK
      <3> QED
        BY <3>2, <3>3, <3>4
    <2> QED
      BY <2>1, <2>2
  <1>7. Fresh'
    <2>1. \A j \in Jobs : Untouched(j) => Untouched(j)'
      BY <1>2, <1>3, <1>4 DEF Untouched
    <2> QED
      BY <1>1, <2>1 DEF Fresh, stream
  <1>8. AckedHandled' /\ RetainedIsRecoverable' /\ (evictions' = 0 => group')
    <2>1. acked \subseteq Jobs
      BY QueueAssumption DEF TypeOK, StreamTypeOK, HistoryTypeOK, Jobs
    <2> QED
      BY <1>1, <1>3, <2>1
         DEF AckedHandled, RetainedIsRecoverable, stream, bounds
  <1> QED
    BY <1>5, <1>6, <1>7, <1>8

LEMMA InvStep == TypeOK /\ TypeOK' /\ QueueInv /\ [Next]_vars => QueueInv'
  <1> SUFFICES ASSUME TypeOK, TypeOK', QueueInv, [Next]_vars PROVE QueueInv'
    OBVIOUS
  <1> USE DEF stream, local, history, bounds
  <1>0. evictions \in Nat /\ AckedHandled /\ RetainedIsRecoverable
        /\ (evictions = 0 => group)
    BY QueueAssumption DEF QueueInv, TypeOK, HistoryTypeOK
  <1>1. CASE Publish
    <2>1. Quiet /\ AckedHandled'
      BY <1>0, <1>1 DEF Publish, Quiet, AckedHandled
    <2>2. entries' \subseteq entries \union {last + 1} /\ last + 1 > cursor
      BY <1>1, TrimmedSubset, QueueAssumption DEF Publish, TypeOK, StreamTypeOK
    <2>3. RetainedIsRecoverable'
      BY <1>0, <1>1, <2>2 DEF Publish, RetainedIsRecoverable
    <2> QED
      BY <1>0, <1>1, <2>1, <2>3, QuietStep DEF Publish
  <1>2. CASE StartApi
    <2>1. Quiet /\ AckedHandled' /\ RetainedIsRecoverable'
      BY <1>0, <1>2
         DEF StartApi, EnsureGroup, Quiet, AckedHandled, RetainedIsRecoverable
    <2> QED
      BY <1>0, <1>2, <2>1, QuietStep DEF StartApi, EnsureGroup
  <1>3. CASE EvictStream
    <2>1. Quiet /\ AckedHandled' /\ RetainedIsRecoverable'
      BY <1>0, <1>3 DEF EvictStream, Quiet, AckedHandled, RetainedIsRecoverable
    <2>2. evictions' # 0 /\ last' = last /\ ~group'
      BY <1>0, <1>3 DEF EvictStream
    <2> QED
      BY <2>1, <2>2, QuietStep
  <1>4. ASSUME NEW w \in Workers, Read(w) PROVE QueueInv'
    BY <1>4, ReadInv
  <1>5. ASSUME NEW w \in Workers, ReadNoGroup(w) \/ Quit(w) \/ Crash(w)
        PROVE  QueueInv'
    <2>1. GoDown(w) /\ UNCHANGED <<stream, history, evictions>>
      BY <1>5 DEF ReadNoGroup, Quit, Crash, Fault
    <2>2. Quiet /\ AckedHandled' /\ RetainedIsRecoverable'
      BY <1>0, <2>1, GoDownQuiet DEF AckedHandled, RetainedIsRecoverable
    <2> QED
      BY <1>0, <2>1, <2>2, QuietStep
  <1>6. ASSUME NEW w \in Workers, Claim(w) PROVE QueueInv'
    BY <1>6, ClaimInv
  <1>7. ASSUME NEW w \in Workers, ClaimReplyLost(w) PROVE QueueInv'
    <2>1. TakeClaimable /\ UNCHANGED <<local, handled, acked, evictions>>
      BY <1>7 DEF ClaimReplyLost, Fault
    <2>2. Quiet /\ AckedHandled' /\ RetainedIsRecoverable' /\ (evictions' = 0 => group')
      BY <1>0, <2>1, TakeClaimableRecoverable DEF Quiet, TakeClaimable, AckedHandled
    <2> QED
      BY <2>1, <2>2, QuietStep DEF TakeClaimable
  <1>8. ASSUME NEW w \in Workers, Signal(w) PROVE QueueInv'
    <2>1. UNCHANGED <<stream, pc, todo, cur, history, evictions>>
      BY <1>8 DEF Signal, Fault
    <2> QED
      BY <2>1, SameLocalInv
  <1>9. ASSUME NEW w \in Workers, Start(w) PROVE QueueInv'
    <2>1. EnsureGroup /\ UNCHANGED <<pc, todo, cur, history, bounds>>
      BY <1>9 DEF Start
    <2>2. Quiet /\ AckedHandled' /\ RetainedIsRecoverable'
      BY <1>0, <2>1 DEF EnsureGroup, Quiet, AckedHandled, RetainedIsRecoverable
    <2> QED
      BY <1>0, <2>1, <2>2, QuietStep DEF EnsureGroup
  <1>10. ASSUME NEW k \in Tasks, Begin(k) PROVE QueueInv'
    BY <1>10, BeginInv
  <1>11. ASSUME NEW k \in Tasks, Finish(k) PROVE QueueInv'
    BY <1>11, FinishInv
  <1>12. ASSUME NEW k \in Tasks, Ack(k) PROVE QueueInv'
    <2>1. Quiet
      BY <1>12, ReleaseQuiet DEF Ack
    <2>2. handled[cur[k]] > 0
      BY <1>12 DEF QueueInv, AckIsEarned, Ack
    <2>3. AckedHandled'
      BY <1>0, <1>12, <2>2 DEF Ack, AckedHandled
    <2>4. RetainedIsRecoverable'
      BY <1>0, <1>12 DEF Ack, RetainedIsRecoverable
    <2> QED
      BY <1>0, <1>12, <2>1, <2>3, <2>4, QuietStep DEF Ack
  <1>13. ASSUME NEW k \in Tasks, Fail(k) PROVE QueueInv'
    <2>1. Quiet
      BY <1>13, ReleaseQuiet DEF Fail
    <2>2. UNCHANGED <<stream, history, evictions>>
      BY <1>13 DEF Fail, Fault
    <2>3. AckedHandled' /\ RetainedIsRecoverable'
      BY <1>0, <2>2 DEF AckedHandled, RetainedIsRecoverable
    <2> QED
      BY <1>0, <2>1, <2>2, <2>3, QuietStep
  <1>14. ASSUME NEW j \in Jobs, Age(j) PROVE QueueInv'
    <2>1. UNCHANGED <<last, entries, group, cursor, pel, pc, todo, cur, history,
                      evictions>>
      BY <1>14 DEF Age
    <2> QED
      BY <2>1, SameLocalInv
  <1>15. CASE UNCHANGED vars
    BY <1>15, SameLocalInv DEF vars
  <1> QED
    BY <1>1, <1>2, <1>3, <1>4, <1>5, <1>6, <1>7, <1>8, <1>9, <1>10, <1>11,
       <1>12, <1>13, <1>14, <1>15
       DEF Next, WorkerNext, TaskStep

LEMMA InvHolds == Spec => [](TypeOK /\ QueueInv)
  BY TypeInit, TypeStep, InvInit, InvStep, PTL DEF Spec

\* Whatever crashes, signals, lost replies, trims and reclaims happen, a job
\* is acknowledged only after its handler returned.
THEOREM AcksAreEarned == Spec => []AckedHandled
  <1>1. QueueInv => AckedHandled
    BY DEF QueueInv
  <1> QED
    BY <1>1, InvHolds, PTL

\* Unless the stream key is evicted, no retained entry is forgotten.
THEOREM RetainedJobsRecoverable == Spec => []RetainedIsRecoverable
  <1>1. QueueInv => RetainedIsRecoverable
    BY DEF QueueInv
  <1> QED
    BY <1>1, InvHolds, PTL

\* Duplicated work is the reclaim loop's doing alone.
THEOREM RepeatsNeedReclaim == Spec => []RepeatOnlyAfterReclaim
  <1>1. QueueInv => RepeatOnlyAfterReclaim
    BY DEF QueueInv, SingleDelivery, RepeatOnlyAfterReclaim
  <1> QED
    BY <1>1, InvHolds, PTL

\* Jobs that run once at most and are in one task's hands at most.
AtMostOnce ==
    \A j \in Jobs :
        /\ handled[j] <= 1
        /\ \A k, l \in Tasks : j \in Held(k) /\ j \in Held(l) => k = l

\* The notification group runs no reclaim loop: whatever crashes, restarts and
\* lost acknowledgements it meets, none of its jobs runs twice.  Notifications
\* gives every event one worker for that reason.
THEOREM OnceWithoutReclaim ==
  ASSUME Reclaimers = {}
  PROVE  Spec => []AtMostOnce
  <1> DEFINE NoneReclaimed == reclaimed = {}
  <1>1. Init => NoneReclaimed
    BY DEF Init
  <1>2. NoneReclaimed /\ [Next]_vars => NoneReclaimed'
    <2> SUFFICES ASSUME NoneReclaimed, [Next]_vars PROVE NoneReclaimed'
      OBVIOUS
    <2> USE DEF history
    <2>1. ASSUME NEW w \in Workers, WorkerNext(w) PROVE UNCHANGED reclaimed
      <3>1. ~Claim(w) /\ ~ClaimReplyLost(w)
        BY DEF Claim, ClaimReplyLost, MayClaim
      <3> QED
        BY <2>1, <3>1 DEF WorkerNext, Read, ReadNoGroup, Quit, Signal, Crash, Start
    <2>2. ASSUME NEW k \in Tasks, TaskStep(k) \/ Fail(k) PROVE UNCHANGED reclaimed
      BY <2>2 DEF TaskStep, Begin, Finish, Ack, Fail
    <2>3. Publish \/ StartApi \/ EvictStream \/ (\E j \in Jobs : Age(j)) \/ UNCHANGED vars
            => UNCHANGED reclaimed
      BY DEF Publish, StartApi, EvictStream, Age, vars
    <2> QED
      BY <2>1, <2>2, <2>3 DEF Next
  <1>3. NoneReclaimed /\ RepeatOnlyAfterReclaim => AtMostOnce
    BY DEF RepeatOnlyAfterReclaim, AtMostOnce
  <1> HIDE DEF NoneReclaimed
  <1> QED
    BY <1>1, <1>2, <1>3, RepeatsNeedReclaim, PTL DEF Spec

\* A pending job is taken off the list only once it is acknowledged or when
\* the stream no longer holds its entry.
THEOREM PendingJobsKept == Spec => NeverForgottenWhileRetained
  <1> DEFINE Kept == \A j \in pel \ pel' : j \in acked' \/ j \notin entries'
  <1>1. [Next]_vars => [Kept]_vars
    <2> SUFFICES ASSUME Next PROVE Kept
      OBVIOUS
    <2> USE DEF stream, local, history, bounds
    <2>1. TakeClaimable => Kept
      BY DEF TakeClaimable
    <2>2. EvictStream => Kept
      BY DEF EvictStream
    <2>3. Publish \/ StartApi \/ (\E w \in Workers : Start(w)) => Kept
      BY DEF Publish, StartApi, Start, EnsureGroup
    <2>4. ASSUME NEW w \in Workers, WorkerNext(w) PROVE Kept
      BY <2>1, <2>3, <2>4
         DEF WorkerNext, Read, ReadNoGroup, Quit, Claim, ClaimReplyLost, Signal,
             Crash
    <2>5. ASSUME NEW k \in Tasks, TaskStep(k) \/ Fail(k) PROVE Kept
      BY <2>5 DEF TaskStep, Begin, Finish, Ack, Fail
    <2>6. (\E j \in Jobs : Age(j)) => Kept
      BY DEF Age
    <2> QED
      BY <2>2, <2>3, <2>4, <2>5, <2>6 DEF Next
  <1>2. NeverForgottenWhileRetained <=> [][Kept]_vars
    BY PTL DEF NeverForgottenWhileRetained
  <1> QED
    BY <1>1, <1>2, PTL DEF Spec

-----------------------------------------------------------------------------
(* Refinement: the stream and its workers implement JobDelivery *)

MayLose == MaxEvictions > 0 \/ MaxLen < MaxJobs

\* Redis keeps every entry when the stream cannot outgrow MAXLEN.
LEMMA NothingTrimmed ==
    ASSUME MaxLen >= MaxJobs, NEW n \in 0..MaxJobs, NEW E \in SUBSET (1..n),
           NEW T \in TrimmedFrom(E)
    PROVE  T = E
  <1>1. IsFiniteSet(1..MaxJobs) /\ Cardinality(1..MaxJobs) = MaxJobs
    BY QueueAssumption, FS_Interval
  <1>2. E \subseteq 1..MaxJobs /\ T \subseteq E
    BY QueueAssumption, TrimmedSubset
  <1>3. IsFiniteSet(E) /\ Cardinality(E) <= MaxJobs
    BY <1>1, <1>2, FS_Subset
  <1>4. IsFiniteSet(T) /\ Cardinality(T) <= Cardinality(E)
        /\ (Cardinality(T) = Cardinality(E) => T = E)
    BY <1>2, <1>3, FS_Subset
  <1>5. Cardinality(T) \in Nat /\ Cardinality(E) \in Nat
    BY <1>3, <1>4, FS_CardinalityType
  <1>6. T = E \/ Cardinality(T) >= MaxLen
    BY DEF TrimmedFrom
  <1> QED
    BY <1>3, <1>4, <1>5, <1>6, QueueAssumption

\* A trim keeps the newest entry.
LEMMA NewestKept ==
    ASSUME NEW n \in Nat, NEW E \in SUBSET (1..n), n \in E, NEW T \in TrimmedFrom(E)
    PROVE  n \in T
  <1>1. PICK c \in {0} \union E : T = {j \in E : j > c}
    BY DEF TrimmedFrom
  <1>2. CASE T = E
    BY <1>2
  <1>3. CASE Cardinality(T) >= MaxLen
    <2>1. T # {}
      BY <1>3, FS_EmptySet, QueueAssumption
    <2>2. PICK j \in T : TRUE
      BY <2>1
    <2>3. j \in 1..n /\ j > c /\ c \in 0..n
      BY <1>1, <2>2
    <2> QED
      BY <1>1, <2>3
  <1> QED
    BY <1>2, <1>3 DEF TrimmedFrom

\* What the mapping asks of a step that publishes, completes and acknowledges
\* nothing: it may only drop outstanding jobs.
LEMMA LoseStep ==
    ASSUME handled' = handled,
           \A j \in Jobs : JobStatus(j)' # JobStatus(j) =>
               JobStatus(j) = "outstanding" /\ JobStatus(j)' = "lost" /\ MayLose
    PROVE  Delivery!Lose
  <1> DEFINE D == {j \in Jobs : JobStatus(j)' # JobStatus(j)}
  <1>1. D \in SUBSET Delivery!Jobs /\ (D # {} => MayLose)
    BY DEF Delivery!Jobs, Jobs
  <1>2. \A j \in D : [i \in Jobs |-> JobStatus(i)][j] = "outstanding"
    OBVIOUS
  <1>3. [j \in Jobs |-> JobStatus(j)]' =
           [j \in Delivery!Jobs |->
               IF j \in D THEN "lost" ELSE [i \in Jobs |-> JobStatus(i)][j]]
    BY DEF Delivery!Jobs, Jobs
  <1> HIDE DEF D
  <1> QED
    BY <1>1, <1>2, <1>3 DEF Delivery!Lose, Delivery!Dropping, MayLose

LEMMA DeliveryInit == Init => Delivery!Init
  BY QueueAssumption DEF Init, Delivery!Init, Delivery!Jobs, JobStatus, Jobs

LEMMA DeliveryStep ==
    TypeOK /\ TypeOK' /\ QueueInv /\ [Next]_vars => [Delivery!Next]_(Delivery!vars)
  <1> SUFFICES ASSUME TypeOK, TypeOK', QueueInv, [Next]_vars
               PROVE  [Delivery!Next]_(Delivery!vars)
    OBVIOUS
  <1> USE DEF stream, local, history, bounds
  <1>0. /\ last \in Nat /\ cursor \in Nat /\ Jobs \subseteq Nat /\ evictions \in Nat
        /\ cursor <= last /\ evictions <= MaxEvictions /\ MaxEvictions \in Nat
    BY QueueAssumption
       DEF TypeOK, StreamTypeOK, HistoryTypeOK, Jobs
  <1>1. Delivery!Lose => Delivery!Next
    BY DEF Delivery!Next
  <1>2. CASE Publish
    <2>0. PICK n : n = last + 1
      OBVIOUS
    <2> DEFINE D == {j \in Jobs : JobStatus(j) = "outstanding" /\ j \notin entries'}
               st == [j \in Jobs |-> JobStatus(j)]
               before == [st EXCEPT ![n] = "outstanding"]
    <2>1. /\ n \in Jobs /\ n \in Delivery!Jobs /\ last' = n
          /\ entries' \in TrimmedFrom(entries \union {n})
          /\ UNCHANGED <<group, cursor, pel, handled, acked>>
      BY <1>0, <1>2, <2>0, QueueAssumption DEF Publish, Jobs, Delivery!Jobs
    <2>2. entries \union {n} \in SUBSET (1..n) /\ n \in 0..MaxJobs
      BY <1>0, <2>0, <2>1, QueueAssumption DEF TypeOK, StreamTypeOK, Jobs
    <2>3. entries' \subseteq entries \union {n} /\ n \in entries'
      BY <1>0, <2>1, <2>2, TrimmedSubset, NewestKept
    <2>4. JobStatus(n) = "unpublished" /\ JobStatus(n)' = "outstanding" /\ n \notin D
      <3>1. n > last /\ ~(n > n) /\ n > cursor /\ n \notin acked
        BY <1>0, <2>0 DEF TypeOK, HistoryTypeOK
      <3> QED
        BY <2>1, <2>3, <3>1 DEF JobStatus
    <2>5. \A j \in Jobs : j # n =>
             JobStatus(j)' = IF j \in D THEN "lost" ELSE JobStatus(j)
      <3> SUFFICES ASSUME NEW j \in Jobs, j # n
                   PROVE  JobStatus(j)' = IF j \in D THEN "lost" ELSE JobStatus(j)
        OBVIOUS
      <3>1. (j > n) <=> (j > last)
        BY <1>0, <2>0
      <3> QED
        BY <2>1, <2>3, <3>1 DEF JobStatus
    <2>6. D # {} => MayLose
      <3> SUFFICES ASSUME ~MayLose PROVE D = {}
        OBVIOUS
      <3>1. entries' = entries \union {n}
        BY <2>1, <2>2, NothingTrimmed, QueueAssumption DEF MayLose
      <3> QED
        BY <3>1 DEF JobStatus
    <2> HIDE DEF D
    <2>7. st' = [j \in Jobs |-> IF j \in D THEN "lost" ELSE before[j]]
      BY <2>1, <2>4, <2>5
    <2>8. \A j \in D : before[j] = "outstanding"
      BY <2>1, <2>4 DEF D
    <2>9. D \in SUBSET Delivery!Jobs /\ Delivery!Jobs = Jobs
      BY DEF D, Jobs, Delivery!Jobs
    <2>10. st[n] = "unpublished"
      BY <2>1, <2>4
    <2>11. Delivery!Publish(n)
      BY <2>1, <2>6, <2>7, <2>8, <2>9, <2>10
         DEF Delivery!Publish, Delivery!Dropping, MayLose
    <2> QED
      BY <2>1, <2>11 DEF Delivery!Next
  <1>3. CASE StartApi \/ \E w \in Workers : Start(w)
    <2>1. EnsureGroup /\ UNCHANGED <<handled, acked>>
      BY <1>3 DEF StartApi, Start
    <2>2. ~group => MayLose
      BY <1>0 DEF QueueInv, MayLose
    <2>3. ASSUME NEW j \in Jobs, JobStatus(j)' # JobStatus(j)
          PROVE  JobStatus(j) = "outstanding" /\ JobStatus(j)' = "lost" /\ MayLose
      BY <1>0, <2>1, <2>2, <2>3 DEF EnsureGroup, JobStatus
    <2> QED
      BY <1>1, <2>1, <2>3, LoseStep
  <1>4. CASE EvictStream
    <2>1. MayLose
      BY <1>0, <1>4 DEF EvictStream, MayLose
    <2>2. ASSUME NEW j \in Jobs, JobStatus(j)' # JobStatus(j)
          PROVE  JobStatus(j) = "outstanding" /\ JobStatus(j)' = "lost" /\ MayLose
      BY <1>4, <2>1, <2>2 DEF EvictStream, JobStatus
    <2> QED
      BY <1>1, <1>4, <2>2, LoseStep DEF EvictStream
  <1>5. ASSUME NEW w \in Workers, Read(w) PROVE Delivery!Lose
    <2>1. \A j \in entries : j > cursor =>
             j > cursor' \/ j \in FirstN(Undelivered, BatchSize)
      BY <1>5, ReadPrefix
    <2>2. FirstN(Undelivered, BatchSize) \subseteq {j \in entries : j > cursor}
      BY FirstNSubset DEF Undelivered
    <2>3. cursor' > cursor /\ cursor' \in Nat
      BY <1>0, <1>5, <2>2 DEF Read, TypeOK, StreamTypeOK
    <2>4. /\ pel' = pel \union FirstN(Undelivered, BatchSize)
          /\ UNCHANGED <<last, entries, group, handled, acked>> /\ group
      BY <1>5 DEF Read
    <2>5. \A j \in Jobs : JobStatus(j)' = JobStatus(j)
      BY <1>0, <2>1, <2>2, <2>3, <2>4 DEF JobStatus
    <2> QED
      BY <2>4, <2>5, LoseStep
  <1>6. ASSUME TakeClaimable, UNCHANGED <<handled, acked>> PROVE Delivery!Lose
    <2>1. \A j \in Jobs : JobStatus(j)' = JobStatus(j)
      BY <1>6 DEF TakeClaimable, JobStatus
    <2> QED
      BY <1>6, <2>1, LoseStep
  <1>7. ASSUME UNCHANGED <<last, entries, group, cursor, pel, handled, acked>>
        PROVE  Delivery!Lose
    <2>1. \A j \in Jobs : JobStatus(j)' = JobStatus(j)
      BY <1>7 DEF JobStatus
    <2> QED
      BY <1>7, <2>1, LoseStep
  <1>8. ASSUME NEW k \in Tasks, Finish(k) PROVE [Delivery!Next]_(Delivery!vars)
    <2>0. PICK c : c = cur[k]
      OBVIOUS
    <2>1. c \in Jobs /\ c \in 1..last
      BY <1>8, <2>0, CurrentJob DEF Finish
    <2>2. /\ handled' = [handled EXCEPT ![c] = IF @ = 0 THEN 1 ELSE 2]
          /\ UNCHANGED <<stream, acked>>
      BY <1>8, <2>0 DEF Finish
    <2>3. \A j \in Jobs : JobStatus(j)' = JobStatus(j)
      BY <2>2 DEF JobStatus
    <2>4. {j \in Jobs : handled[j] > 0}' = {j \in Jobs : handled[j] > 0} \union {c}
      BY <2>1, <2>2 DEF TypeOK, HistoryTypeOK
    <2>5. CASE handled[c] = 0
      <3>1. c \notin acked
        BY <2>5 DEF QueueInv, AckedHandled
      <3>2. JobStatus(c) \in {"outstanding", "lost"}
        BY <1>0, <2>1, <3>1 DEF JobStatus
      <3>3. Delivery!Complete(c)
        BY <2>1, <2>3, <2>4, <3>2 DEF Delivery!Complete
      <3> QED
        BY <2>1, <3>3 DEF Delivery!Next, Delivery!Jobs, Jobs
    <2>6. CASE handled[c] # 0
      <3>1. c \in {j \in Jobs : handled[j] > 0}
        BY <2>1, <2>6 DEF TypeOK, HistoryTypeOK
      <3> QED
        BY <2>3, <2>4, <3>1 DEF Delivery!vars
    <2> QED
      BY <2>5, <2>6
  <1>9. ASSUME NEW k \in Tasks, Ack(k) PROVE [Delivery!Next]_(Delivery!vars)
    <2>0. PICK c : c = cur[k]
      OBVIOUS
    <2>1. c \in Jobs /\ c \in 1..last /\ handled[c] > 0
      BY <1>9, <2>0, CurrentJob DEF Ack, QueueInv, AckIsEarned
    <2>2. /\ acked' = acked \union {c} /\ pel' = pel \ {c}
          /\ UNCHANGED <<last, entries, group, cursor, handled>>
      BY <1>9, <2>0 DEF Ack
    <2>3. \A j \in Jobs : j # c => JobStatus(j)' = JobStatus(j)
      BY <2>2 DEF JobStatus
    <2>4. JobStatus(c)' = "acknowledged"
      BY <1>0, <2>1, <2>2 DEF JobStatus
    <2>5. CASE c \in acked
      <3>1. JobStatus(c) = "acknowledged"
        BY <1>0, <2>1, <2>5 DEF JobStatus
      <3> QED
        BY <2>2, <2>3, <2>4, <3>1 DEF Delivery!vars
    <2>6. CASE c \notin acked
      <3>1. JobStatus(c) \in {"outstanding", "lost"}
        BY <1>0, <2>1, <2>6 DEF JobStatus
      <3>2. Delivery!Acknowledge(c)
        BY <2>1, <2>2, <2>3, <2>4, <3>1 DEF Delivery!Acknowledge
      <3> QED
        BY <2>1, <3>2 DEF Delivery!Next, Delivery!Jobs, Jobs
    <2> QED
      BY <2>5, <2>6
  <1>10. ASSUME NEW w \in Workers, WorkerNext(w)
         PROVE  [Delivery!Next]_(Delivery!vars)
    BY <1>1, <1>3, <1>5, <1>6, <1>7, <1>10
       DEF WorkerNext, ReadNoGroup, Quit, Claim, ClaimReplyLost, Signal, Crash
  <1>11. ASSUME NEW k \in Tasks, TaskStep(k) \/ Fail(k)
         PROVE  [Delivery!Next]_(Delivery!vars)
    BY <1>1, <1>7, <1>8, <1>9, <1>11 DEF TaskStep, Begin, Fail
  <1>12. CASE (\E j \in Jobs : Age(j)) \/ UNCHANGED vars
    BY <1>1, <1>7, <1>12 DEF Age, vars
  <1> QED
    BY <1>2, <1>3, <1>4, <1>10, <1>11, <1>12 DEF Next

\* The stream, its group and its workers keep the promise of JobDelivery; with
\* no eviction and a stream shorter than MAXLEN, that promise has no losses.
THEOREM ImplementsJobDelivery == Spec => DeliverySpec
  BY DeliveryInit, DeliveryStep, InvHolds, PTL DEF Spec, DeliverySpec, Delivery!Spec
=============================================================================
