------------------------- MODULE NotificationsProofs -------------------------
(***************************************************************************)
(* Proofs about Notifications, for any number of events, sockets and       *)
(* faults, and any length of the stream and of a replay.                   *)
(***************************************************************************)
EXTENDS Notifications, FiniteSetTheorems, TLAPS

USE NotifAssumption

\* A row is written between the commit and what follows it, once.
RowsByStage ==
    \A e \in Events :
        rows[e] = IF stage[e] \in {"credit", "ack", "done"} THEN 1 ELSE 0

\* NoneMissed holds from the replay on, before the socket has subscribed.
NoGap(s, e) ==
    \/ e \in owedNot[s]
    \/ Cardinality({f \in replayed[s] : f > e}) = Replay
Accounted ==
    \A s \in Sockets : sock[s] # "closed" =>
        \A e \in published \ (replayed[s] \union forwarded[s] \union inbox[s]) :
            NoGap(s, e)

NotifInv == NotifTypeOK /\ RowsByStage /\ Accounted /\ KarmaFromRows

-----------------------------------------------------------------------------
(* Newest *)

LEMMA EventsAreNumbers == \A e \in Events : e \in Nat /\ e > 0
BY DEF Events

LEMMA EventSets ==
    ASSUME NEW T \in SUBSET Events, NEW S \in SUBSET T
    PROVE  /\ IsFiniteSet(S) /\ IsFiniteSet(T)
           /\ Cardinality(S) \in Nat /\ Cardinality(T) \in Nat
           /\ Cardinality(S) <= Cardinality(T)
           /\ S # T => Cardinality(S) < Cardinality(T)
<1>1. IsFiniteSet(Events)
    BY FS_Interval DEF Events
<1>2. IsFiniteSet(T)
    BY <1>1, FS_Subset
<1>3. IsFiniteSet(S) /\ Cardinality(S) <= Cardinality(T)
        /\ (Cardinality(S) = Cardinality(T) => S = T)
    BY <1>2, FS_Subset
<1>4. Cardinality(S) \in Nat /\ Cardinality(T) \in Nat
    BY <1>2, <1>3, FS_CardinalityType
<1>5. QED
    BY <1>2, <1>3, <1>4

\* How many events of S are newer than e.
Rank(S, e) == Cardinality({f \in S : f > e})

LEMMA RankFalls ==
    ASSUME NEW S \in SUBSET Events
    PROVE  /\ \A e \in S : Rank(S, e) \in 0..(Cardinality(S) - 1)
           /\ \A d, e \in S : d < e => Rank(S, e) < Rank(S, d)
<1>1. ASSUME NEW e \in S PROVE Rank(S, e) \in 0..(Cardinality(S) - 1)
    <2>1. {f \in S : f > e} \subseteq S \ {e}
        BY DEF Events
    <2>2. S \ {e} \in SUBSET S /\ S \ {e} # S /\ S \ {e} \in SUBSET Events
        OBVIOUS
    <2>3. Cardinality(S \ {e}) < Cardinality(S) /\ Cardinality(S) \in Nat
            /\ Cardinality(S \ {e}) \in Nat
        BY <2>2, EventSets
    <2>4. Rank(S, e) \in Nat /\ Rank(S, e) <= Cardinality(S \ {e})
        BY <2>1, <2>2, EventSets DEF Rank
    <2>5. QED
        BY <2>3, <2>4
<1>2. ASSUME NEW d \in S, NEW e \in S, d < e PROVE Rank(S, e) < Rank(S, d)
    <2>1. {f \in S : f > e} \subseteq {f \in S : f > d} /\ {f \in S : f > d} \subseteq Events
        <3>1. \A f \in S : f > e => f > d
            BY <1>2, EventsAreNumbers
        <3>2. QED
            BY <3>1
    <2>2. e \in {f \in S : f > d} /\ e \notin {f \in S : f > e}
        BY <1>2, EventsAreNumbers
    <2>3. QED
        BY <2>1, <2>2, EventSets DEF Rank
<1>3. QED
    BY <1>1, <1>2

\* A set of more than n events has n newest ones: their ranks are 0 to n - 1.
LEMMA NewestSize ==
    ASSUME NEW S \in SUBSET Events, NEW n \in Nat, n <= Cardinality(S)
    PROVE  Cardinality(Newest(S, n)) = n
<1> DEFINE k == Cardinality(S)
           N == Newest(S, n)
           rank == [e \in S |-> Rank(S, e)]
           place == [e \in N |-> Rank(S, e)]
<1>1. N = {e \in S : Rank(S, e) < n} /\ N \subseteq S
    BY DEF Newest, Rank
<1>2. k \in Nat /\ IsFiniteSet(S)
    BY EventSets
<1>3. \A e \in S : Rank(S, e) \in 0..(k - 1)
    BY RankFalls
<1>4. \A d, e \in S : Rank(S, d) = Rank(S, e) => d = e
    <2> SUFFICES ASSUME NEW d \in S, NEW e \in S, Rank(S, d) = Rank(S, e), d # e
                 PROVE  FALSE
        OBVIOUS
    <2>1. d < e \/ e < d
        BY DEF Events
    <2>2. Rank(S, d) \in Nat /\ Rank(S, e) \in Nat
        BY <1>2, <1>3
    <2>3. QED
        BY <2>1, <2>2, RankFalls
<1>5. \A i \in Nat : IsFiniteSet(0..(i - 1)) /\ Cardinality(0..(i - 1)) = i
    BY FS_Interval
<1> HIDE DEF k, N
<1>6. \A i \in 0..(k - 1) : \E e \in S : Rank(S, e) = i
    <2>1. rank \in Injection(S, 0..(k - 1))
        BY <1>3, <1>4 DEF Injection, IsInjective
    <2>2. Cardinality(S) = Cardinality(0..(k - 1)) /\ IsFiniteSet(0..(k - 1))
        BY <1>2, <1>5 DEF k
    <2> HIDE DEF rank
    <2>3. rank \in Surjection(S, 0..(k - 1))
        BY <2>1, <2>2, FS_Injection
    <2>4. \A i \in 0..(k - 1) : \E e \in S : rank[e] = i
        BY <2>3 DEF Surjection
    <2>5. QED
        BY <2>4 DEF rank
<1>7. place \in Injection(N, 0..(n - 1)) /\ place \in Surjection(N, 0..(n - 1))
    <2>1. \A e \in N : e \in S /\ Rank(S, e) \in 0..(n - 1)
        BY <1>1, <1>2, <1>3
    <2>2. \A i \in 0..(n - 1) : \E e \in N : Rank(S, e) = i
        BY <1>1, <1>2, <1>6 DEF k
    <2>3. QED
        BY <1>1, <1>4, <2>1, <2>2 DEF Injection, IsInjective, Surjection
<1> HIDE DEF place
<1>8. QED
    BY <1>5, <1>7, FS_Injection DEF N

\* What a replay leaves out is older than all of it, and it is full.
LEMMA ReplayFull ==
    ASSUME NEW S \in SUBSET Events, NEW e \in S, e \notin Newest(S, Replay)
    PROVE  Cardinality({f \in Newest(S, Replay) : f > e}) = Replay
<1> DEFINE U == {f \in S : f > e}
<1>1. U \in SUBSET Events /\ Cardinality(U) \in Nat /\ Cardinality(U) >= Replay
    <2>1. U \in SUBSET Events
        OBVIOUS
    <2>2. Cardinality(U) \in Nat
        BY <2>1, EventSets
    <2>3. QED
        BY <2>1, <2>2 DEF Newest
<1>2. Newest(U, Replay) = {f \in Newest(S, Replay) : f > e}
    <2>1. \A f \in U : {g \in U : g > f} = {g \in S : g > f}
        <3> SUFFICES ASSUME NEW f \in U, NEW g \in S, g > f
                     PROVE  g > e
            OBVIOUS
        <3>1. e \in Nat /\ f \in Nat /\ g \in Nat
            BY EventsAreNumbers
        <3>2. QED
            BY <3>1
    <2>2. QED
        BY <2>1 DEF Newest
<1> HIDE DEF U
<1>3. QED
    BY <1>1, <1>2, NewestSize

LEMMA NewestWithin == \A S, n : Newest(S, n) \subseteq S
BY DEF Newest

LEMMA TrimmedWithin == \A E : \A T \in TrimmedFrom(E) : T \subseteq E
BY DEF TrimmedFrom

-----------------------------------------------------------------------------
(* Types and rows *)

LEMMA NotifInit_Type == NotifInit => NotifTypeOK /\ RowsByStage
BY DEF NotifInit, NotifTypeOK, RowsByStage, Events, Stages, Fetched, Handled

\* What a step of an event's request or worker does to the stages.
LEMMA StageMoves ==
    ASSUME NotifTypeOK, NEW e \in Events, NEW from \in Stages \ {"none"},
           NEW to \in Stages \ {"none"},
           stage[e] = from, stage' = [stage EXCEPT ![e] = to], last' = last
    PROVE  /\ e \in 1..last
           /\ stage' \in [Events -> Stages]
           /\ \A f \in Events : stage'[f] = "none" <=> f > last'
           /\ stage'[e] = to /\ \A f \in Events \ {e} : stage'[f] = stage[f]
<1>1. last \in Nat /\ e \in Nat /\ e > 0
    BY EventsAreNumbers DEF NotifTypeOK
<1>2. e \in 1..last
    BY <1>1 DEF NotifTypeOK
<1>3. QED
    BY <1>2 DEF NotifTypeOK

\* A worker that is down has nothing in its hands.
Down == ~alive => Fetched = {}

\* A job changes hands only with a worker that runs.
LEMMA DownKept ==
    ASSUME Down, alive' = alive, cut \subseteq cut',
           \/ alive
           \/ \A e \in Events : stage'[e] \in {"fetched", "commit", "credit", "ack"}
                                => stage[e] = stage'[e]
    PROVE  Down'
BY DEF Down, Fetched, Handled

LEMMA EventStep_Type ==
    ASSUME NotifTypeOK, RowsByStage, NEW e \in Events, EventStep(e)
    PROVE  NotifTypeOK' /\ RowsByStage'
<1>0. Down
    BY DEF NotifTypeOK, Down
<1>1. CASE PublishEvent(e)
    <2>1. /\ e \in 1..last
          /\ stage' \in [Events -> Stages]
          /\ \A f \in Events : stage'[f] = "none" <=> f > last'
          /\ stage'[e] = "enqueue" /\ \A f \in Events \ {e} : stage'[f] = stage[f]
        BY <1>1, StageMoves DEF PublishEvent, Advance, Stages, events
    <2>2. stage[e] = "publish"
        BY <1>1 DEF PublishEvent, Advance
    <2>3. inbox' \in [Sockets -> SUBSET published']
            /\ forwarded' \in [Sockets -> SUBSET published']
            /\ owedNot' \in [Sockets -> SUBSET (1..last')]
        BY <1>1, <2>1 DEF PublishEvent, NotifTypeOK, events
    <2>4. \A s \in Sockets : /\ sock'[s] = "closed" => replayed'[s] = {}
                             /\ sock'[s] # "live" => forwarded'[s] \union inbox'[s] = {}
        BY <1>1 DEF PublishEvent, NotifTypeOK
    <2>5. Down'
        BY <1>0, <1>1, <2>1, DownKept DEF PublishEvent, jobs
    <2>6. NotifTypeOK'
        BY <1>1, <2>1, <2>3, <2>4, <2>5 DEF PublishEvent, NotifTypeOK, Down, events, archive, jobs
    <2>7. RowsByStage'
        BY <1>1, <2>1, <2>2 DEF PublishEvent, RowsByStage, archive
    <2>8. QED
        BY <2>6, <2>7
<1>2. CASE PublishJob(e)
    <2>1. /\ e \in 1..last
          /\ stage' \in [Events -> Stages]
          /\ \A f \in Events : stage'[f] = "none" <=> f > last'
          /\ stage'[e] = "waiting" /\ \A f \in Events \ {e} : stage'[f] = stage[f]
          /\ stage[e] = "enqueue"
        BY <1>2, StageMoves DEF PublishJob, Advance, Stages, events
    <2>2. cut \subseteq cut' /\ cut' \subseteq 1..last
        BY <1>2, <2>1 DEF PublishJob, NotifTypeOK
    <2>3. Down'
        BY <1>0, <1>2, <2>1, <2>2, DownKept DEF PublishJob, jobs
    <2>4. QED
        BY <1>2, <2>1, <2>2, <2>3
        DEF PublishJob, NotifTypeOK, RowsByStage, Down, events, archive, jobs, socket
<1>3. CASE Take(e)
    <2>1. /\ stage' \in [Events -> Stages]
          /\ \A f \in Events : stage'[f] = "none" <=> f > last'
          /\ stage'[e] = "commit" /\ \A f \in Events \ {e} : stage'[f] = stage[f]
          /\ stage[e] = "fetched" /\ alive /\ alive'
        BY <1>3, StageMoves DEF Take, Advance, Stages, events, jobs
    <2>2. QED
        BY <1>3, <2>1 DEF Take, NotifTypeOK, RowsByStage, events, archive, jobs, socket
<1>4. CASE CommitRow(e)
    <2>1. /\ stage' \in [Events -> Stages]
          /\ \A f \in Events : stage'[f] = "none" <=> f > last'
          /\ stage'[e] = "credit" /\ \A f \in Events \ {e} : stage'[f] = stage[f]
          /\ stage[e] = "commit" /\ alive /\ alive'
        BY <1>4, StageMoves DEF CommitRow, Advance, Stages, events, jobs
    <2>2. rows' \in [Events -> Nat] /\ rows'[e] = rows[e] + 1
            /\ \A f \in Events \ {e} : rows'[f] = rows[f]
        BY <1>4 DEF CommitRow, NotifTypeOK
    <2>3. NotifTypeOK'
        BY <1>4, <2>1, <2>2 DEF CommitRow, NotifTypeOK, events, jobs, socket
    <2>4. RowsByStage'
        BY <2>1, <2>2 DEF RowsByStage
    <2>5. QED
        BY <2>3, <2>4
<1>5. CASE CreditKarma(e)
    <2>1. /\ stage' \in [Events -> Stages]
          /\ \A f \in Events : stage'[f] = "none" <=> f > last'
          /\ stage'[e] = "ack" /\ \A f \in Events \ {e} : stage'[f] = stage[f]
          /\ stage[e] = "credit" /\ alive /\ alive'
        BY <1>5, StageMoves DEF CreditKarma, Advance, Stages, events, jobs
    <2>2. KindOf[e] \in {"like", "comment", "follow"}
        BY DEF NotifAssumption, Events
    <2>3. karma' \in Nat
        BY <1>5, <2>2 DEF CreditKarma, Karma, NotifTypeOK
    <2>4. QED
        BY <1>5, <2>1, <2>3 DEF CreditKarma, NotifTypeOK, RowsByStage, events, jobs, socket
<1>6. CASE AckJob(e)
    <2>1. /\ stage' \in [Events -> Stages]
          /\ \A f \in Events : stage'[f] = "none" <=> f > last'
          /\ stage'[e] = "done" /\ \A f \in Events \ {e} : stage'[f] = stage[f]
          /\ stage[e] = "ack" /\ alive /\ alive'
        BY <1>6, StageMoves DEF AckJob, Advance, Stages, events, jobs
    <2>2. QED
        BY <1>6, <2>1 DEF AckJob, NotifTypeOK, RowsByStage, events, archive, jobs, socket
<1>7. CASE CutShort(e)
    <2>1. last \in Nat /\ e \in Nat /\ e > 0 /\ ~(e > last)
        BY <1>7, EventsAreNumbers DEF CutShort, NotifTypeOK
    <2>2. faults' \in 0..MaxFaults
        BY <1>7 DEF CutShort, Fault, NotifTypeOK, NotifAssumption
    <2>3. Down'
        BY <1>0, <1>7, DownKept DEF CutShort, jobs
    <2>4. QED
        BY <1>7, <2>1, <2>2, <2>3
        DEF CutShort, NotifTypeOK, RowsByStage, Down, events, archive, jobs, socket
<1>8. QED
    BY <1>1, <1>2, <1>3, <1>4, <1>5, <1>6, <1>7 DEF EventStep, HandleJob

\* The worker's batch, its death and its start, and what the stream loses.
LEMMA JobsStep_Type ==
    ASSUME NotifTypeOK, RowsByStage, JobsStep
    PROVE  NotifTypeOK' /\ RowsByStage'
<1>0. Down /\ Fetched \subseteq 1..last /\ Waiting \subseteq 1..last
    <2>1. \A e \in Events : stage[e] # "none" => e \in 1..last
        BY EventsAreNumbers DEF NotifTypeOK
    <2>2. QED
        BY <2>1 DEF NotifTypeOK, Down, Fetched, Handled, Waiting
<1>1. CASE Fetch
    <2>1. PICK batch \in SUBSET Waiting \ {{}} :
                 stage' = [e \in Events |-> IF e \in batch THEN "fetched" ELSE stage[e]]
        BY <1>1 DEF Fetch
    <2>2. \A e \in batch : stage[e] = "waiting"
        BY <2>1 DEF Waiting
    <2>3. /\ stage' \in [Events -> Stages] /\ alive'
          /\ \A e \in Events : stage'[e] = "none" <=> e > last'
        BY <1>1, <2>1, <2>2 DEF Fetch, NotifTypeOK, Stages, events, jobs
    <2>4. NotifTypeOK'
        BY <1>1, <2>3 DEF Fetch, NotifTypeOK, events, archive, jobs, socket
    <2>5. RowsByStage'
        BY <1>1, <2>1, <2>2 DEF Fetch, RowsByStage, archive
    <2>6. QED
        BY <2>4, <2>5
<1>2. CASE NoGroup
    BY <1>2 DEF NoGroup, NotifTypeOK, RowsByStage, Fetched, Handled, events, archive, socket
<1>3. CASE WorkerDies
    <2>1. faults' \in 0..MaxFaults /\ cut' \subseteq 1..last
        BY <1>0, <1>3 DEF WorkerDies, Fault, NotifTypeOK, NotifAssumption
    <2>2. Fetched' = {}
        BY <1>3 DEF WorkerDies, Fetched, Handled
    <2>3. QED
        BY <1>3, <2>1, <2>2 DEF WorkerDies, NotifTypeOK, RowsByStage, events, archive, socket
<1>4. CASE WorkerStarts
    BY <1>4 DEF WorkerStarts, NotifTypeOK, RowsByStage, events, archive, socket
<1>5. CASE ApiStarts
    BY <1>5 DEF ApiStarts, NotifTypeOK, RowsByStage, Fetched, Handled, events, archive, socket
<1>6. CASE EvictJobs
    <2>1. faults' \in 0..MaxFaults /\ cut' \subseteq 1..last
        BY <1>0, <1>6 DEF EvictJobs, Fault, NotifTypeOK, NotifAssumption
    <2>2. Down'
        BY <1>0, <1>6, DownKept DEF EvictJobs
    <2>3. QED
        BY <1>6, <2>1, <2>2
        DEF EvictJobs, NotifTypeOK, RowsByStage, Down, events, archive, socket
<1>7. CASE EvictKarma
    <2>1. faults' \in 0..MaxFaults /\ forgotten' \in Nat
        BY <1>7 DEF EvictKarma, Fault, NotifTypeOK, NotifAssumption
    <2>2. QED
        BY <1>7, <2>1
        DEF EvictKarma, NotifTypeOK, RowsByStage, Fetched, Handled, events, jobs, socket
<1>8. QED
    BY <1>1, <1>2, <1>3, <1>4, <1>5, <1>6, <1>7 DEF JobsStep

LEMMA SocketStep_Type ==
    ASSUME NotifTypeOK, RowsByStage, NEW s \in Sockets, SocketStep(s)
    PROVE  NotifTypeOK' /\ RowsByStage'
<1>1. CASE Connect(s)
    <2>1. Newest(retained, Replay) \in SUBSET (1..last)
        BY NewestWithin DEF NotifTypeOK
    <2>2. replayed' \in [Sockets -> SUBSET (1..last)]
            /\ owedNot' \in [Sockets -> SUBSET (1..last)]
        BY <1>1, <2>1 DEF Connect, NotifTypeOK
    <2>3. \A t \in Sockets : /\ sock'[t] = "closed" => replayed'[t] = {}
                             /\ sock'[t] # "live" => forwarded'[t] \union inbox'[t] = {}
        BY <1>1 DEF Connect, NotifTypeOK
    <2>4. NotifTypeOK'
        BY <1>1, <2>2, <2>3 DEF Connect, NotifTypeOK, events, archive, jobs, Fetched, Handled
    <2>5. RowsByStage'
        BY <1>1 DEF Connect, RowsByStage, archive
    <2>6. QED
        BY <2>4, <2>5
<1>2. CASE Subscribe(s)
    BY <1>2 DEF Subscribe, NotifTypeOK, RowsByStage, events, archive, jobs, Fetched, Handled
<1>3. CASE Close(s)
    BY <1>3 DEF Close, NotifTypeOK, RowsByStage, events, archive, jobs, Fetched, Handled
<1>4. ASSUME NEW e \in Events, Forward(s, e)
      PROVE  NotifTypeOK' /\ RowsByStage'
    <2>1. inbox[s] \in SUBSET published /\ forwarded[s] \in SUBSET published
        BY DEF NotifTypeOK
    <2>2. inbox' \in [Sockets -> SUBSET published]
            /\ forwarded' \in [Sockets -> SUBSET published]
        BY <1>4, <2>1 DEF Forward, NotifTypeOK
    <2>3. \A t \in Sockets \ {s} : inbox'[t] = inbox[t] /\ forwarded'[t] = forwarded[t]
        BY <1>4 DEF Forward, NotifTypeOK
    <2>4. \A t \in Sockets : /\ sock'[t] = "closed" => replayed'[t] = {}
                             /\ sock'[t] # "live" => forwarded'[t] \union inbox'[t] = {}
        BY <1>4, <2>3 DEF Forward, NotifTypeOK
    <2>5. QED
        BY <1>4, <2>2, <2>4 DEF Forward, NotifTypeOK, RowsByStage, events, archive, jobs, Fetched, Handled
<1>5. QED
    BY <1>1, <1>2, <1>3, <1>4 DEF SocketStep

LEMMA Emit_Type ==
    ASSUME NotifTypeOK, RowsByStage, Emit
    PROVE  NotifTypeOK' /\ RowsByStage'
<1>1. /\ last \in Nat /\ last' = last + 1 /\ last' \in Events /\ last' \in 0..MaxEvents
      /\ 1..last \subseteq 1..last' /\ MaxEvents \in Nat
    BY DEF Emit, NotifTypeOK, Events, NotifAssumption
<1>2. retained' \subseteq 1..last'
    <2>1. retained' \subseteq retained \union {last'}
        BY TrimmedWithin DEF Emit
    <2>2. last' \in 1..last'
        BY <1>1
    <2>3. QED
        BY <1>1, <2>1, <2>2 DEF NotifTypeOK
<1>3. /\ stage' \in [Events -> Stages] /\ stage'[last'] = "publish"
      /\ \A e \in Events \ {last'} : stage'[e] = stage[e]
      /\ stage[last'] = "none"
    BY <1>1 DEF Emit, NotifTypeOK, Stages
<1>4. \A e \in Events : stage'[e] = "none" <=> e > last'
    <2> SUFFICES ASSUME NEW e \in Events PROVE stage'[e] = "none" <=> e > last'
        OBVIOUS
    <2>1. CASE e = last'
        BY <1>1, <1>3, <2>1
    <2>2. CASE e # last'
        <3>1. stage'[e] = "none" <=> e > last
            BY <1>3, <2>2 DEF NotifTypeOK
        <3>2. QED
            BY <1>1, <2>2, <3>1, EventsAreNumbers
    <2>3. QED
        BY <2>1, <2>2
<1>5. unread' \in 0..last'
    BY <1>1 DEF Emit, NotifTypeOK
<1>6. replayed' \in [Sockets -> SUBSET (1..last')]
        /\ owedNot' \in [Sockets -> SUBSET (1..last')]
        /\ cut' \subseteq 1..last' /\ published' \subseteq 1..last'
    BY <1>1 DEF Emit, NotifTypeOK, socket
<1>7. NotifTypeOK'
    <2>1. ~alive' => Fetched' = {}
        BY <1>3 DEF Emit, NotifTypeOK, jobs, Fetched, Handled
    <2>2. QED
        BY <1>1, <1>2, <1>3, <1>4, <1>5, <1>6, <2>1
        DEF Emit, NotifTypeOK, archive, jobs, socket
<1>8. RowsByStage'
    BY <1>3 DEF Emit, RowsByStage, archive
<1>9. QED
    BY <1>7, <1>8

LEMMA NotifNext_Type ==
    ASSUME NotifTypeOK, RowsByStage, [NotifNext]_notifVars
    PROVE  NotifTypeOK' /\ RowsByStage'
<1>1. CASE MarkAllRead
    BY <1>1 DEF MarkAllRead, NotifTypeOK, RowsByStage, archive, jobs, socket, Fetched, Handled
<1>2. CASE EvictStream
    <2>1. faults' \in 0..MaxFaults
        BY <1>2 DEF EvictStream, Fault, NotifTypeOK, NotifAssumption
    <2>2. QED
        BY <1>2, <2>1 DEF EvictStream, NotifTypeOK, RowsByStage, archive, jobs, socket, Fetched, Handled
<1>3. CASE UNCHANGED notifVars
    BY <1>3 DEF NotifTypeOK, RowsByStage, notifVars, events, archive, jobs, socket, Fetched, Handled
<1>4. QED
    BY <1>1, <1>2, <1>3, Emit_Type, EventStep_Type, JobsStep_Type, SocketStep_Type
    DEF NotifNext

-----------------------------------------------------------------------------
(* What a socket is owed *)

\* An event and a socket keep their entry when nothing about them is taken
\* away: what a socket has, and what it is not owed, only grow.
LEMMA AccountedKept ==
    ASSUME Accounted, NEW s \in Sockets,
           sock[s] # "closed", replayed'[s] = replayed[s],
           owedNot[s] \subseteq owedNot'[s],
           forwarded[s] \union inbox[s] \subseteq forwarded'[s] \union inbox'[s],
           NEW e \in published,
           e \notin replayed'[s] \union forwarded'[s] \union inbox'[s]
    PROVE  NoGap(s, e)'
<1>1. NoGap(s, e)
    BY DEF Accounted
<1>2. QED
    BY <1>1 DEF NoGap

LEMMA Connect_Accounted ==
    ASSUME NotifTypeOK, Accounted, NEW s \in Sockets, Connect(s)
    PROVE  Accounted'
<1> SUFFICES ASSUME NEW t \in Sockets, sock'[t] # "closed", NEW e \in published',
                    e \notin replayed'[t] \union forwarded'[t] \union inbox'[t]
             PROVE  NoGap(t, e)'
    BY DEF Accounted
<1>1. published' = published /\ e \in 1..last
    BY DEF Connect, NotifTypeOK
<1>2. CASE t = s
    <2>1. replayed'[s] = Newest(retained, Replay) /\ owedNot'[s] = (1..last) \ retained
        BY DEF Connect, NotifTypeOK
    <2>2. CASE e \notin retained
        BY <1>1, <1>2, <2>1, <2>2 DEF NoGap
    <2>3. CASE e \in retained
        <3>1. retained \in SUBSET Events
            BY DEF NotifTypeOK, NotifAssumption, Events
        <3>2. e \notin Newest(retained, Replay)
            BY <1>2, <2>1
        <3>3. Cardinality({f \in replayed'[s] : f > e}) = Replay
            BY <2>1, <2>3, <3>1, <3>2, ReplayFull
        <3>4. QED
            BY <1>2, <3>3 DEF NoGap
    <2>4. QED
        BY <2>2, <2>3
<1>3. CASE t # s
    <2>1. sock[t] # "closed" /\ replayed'[t] = replayed[t] /\ owedNot'[t] = owedNot[t]
            /\ forwarded'[t] = forwarded[t] /\ inbox'[t] = inbox[t]
        BY <1>3 DEF Connect, NotifTypeOK
    <2>2. QED
        BY <1>1, <2>1, AccountedKept
<1>4. QED
    BY <1>2, <1>3

LEMMA PublishEvent_Accounted ==
    ASSUME NotifTypeOK, Accounted, NEW e \in Events, PublishEvent(e)
    PROVE  Accounted'
<1> SUFFICES ASSUME NEW s \in Sockets, sock'[s] # "closed", NEW f \in published',
                    f \notin replayed'[s] \union forwarded'[s] \union inbox'[s]
             PROVE  NoGap(s, f)'
    BY DEF Accounted
<1>1. /\ sock' = sock /\ replayed' = replayed /\ forwarded' = forwarded
      /\ f \in published \union {e}
      /\ inbox'[s] = IF sock[s] = "live" THEN inbox[s] \union {e} ELSE inbox[s]
      /\ owedNot'[s] = IF sock[s] = "replayed" THEN owedNot[s] \union {e} ELSE owedNot[s]
    BY DEF PublishEvent
<1>2. CASE f = e
    <2>1. sock[s] = "replayed"
        BY <1>1, <1>2 DEF NotifTypeOK
    <2>2. QED
        BY <1>1, <1>2, <2>1 DEF NoGap
<1>3. CASE f # e
    <2>1. owedNot[s] \subseteq owedNot'[s]
            /\ forwarded[s] \union inbox[s] \subseteq forwarded'[s] \union inbox'[s]
        BY <1>1
    <2>2. QED
        BY <1>1, <1>3, <2>1, AccountedKept
<1>4. QED
    BY <1>2, <1>3

LEMMA Forward_Accounted ==
    ASSUME NotifTypeOK, Accounted, NEW s \in Sockets, NEW e \in Events, Forward(s, e)
    PROVE  Accounted'
<1> SUFFICES ASSUME NEW t \in Sockets, sock'[t] # "closed", NEW f \in published',
                    f \notin replayed'[t] \union forwarded'[t] \union inbox'[t]
             PROVE  NoGap(t, f)'
    BY DEF Accounted
<1>1. sock' = sock /\ published' = published /\ replayed' = replayed /\ owedNot' = owedNot
    BY DEF Forward
<1>2. forwarded[t] \union inbox[t] \subseteq forwarded'[t] \union inbox'[t]
    BY DEF Forward, NotifTypeOK
<1>3. QED
    BY <1>1, <1>2, AccountedKept

LEMMA NotifNext_Accounted ==
    ASSUME NotifTypeOK, Accounted, [NotifNext]_notifVars
    PROVE  Accounted'
<1>1. CASE UNCHANGED <<socket, published>>
    BY <1>1 DEF Accounted, NoGap, socket
<1>2. ASSUME NEW e \in Events, EventStep(e) PROVE Accounted'
    <2>1. CASE PublishEvent(e)
        BY <2>1, PublishEvent_Accounted
    <2>2. CASE ~PublishEvent(e)
        BY <1>1, <1>2, <2>2
        DEF EventStep, HandleJob, PublishJob, Take, CommitRow, CreditKarma, AckJob, CutShort
    <2>3. QED
        BY <2>1, <2>2
<1>3. ASSUME NEW s \in Sockets, SocketStep(s) PROVE Accounted'
    <2>1. CASE Subscribe(s)
        BY <2>1 DEF Subscribe, Accounted, NoGap, NotifTypeOK
    <2>2. CASE Close(s)
        <3> SUFFICES ASSUME NEW t \in Sockets, sock'[t] # "closed", NEW f \in published',
                            f \notin replayed'[t] \union forwarded'[t] \union inbox'[t]
                     PROVE  NoGap(t, f)'
            BY DEF Accounted
        <3>1. t # s
            BY <2>2 DEF Close, NotifTypeOK
        <3>2. published' = published /\ sock'[t] = sock[t]
                /\ replayed'[t] = replayed[t] /\ owedNot'[t] = owedNot[t]
                /\ forwarded'[t] = forwarded[t] /\ inbox'[t] = inbox[t]
            BY <2>2, <3>1 DEF Close, NotifTypeOK
        <3>3. QED
            BY <3>2, AccountedKept
    <2>3. QED
        BY <1>3, <2>1, <2>2, Connect_Accounted, Forward_Accounted DEF SocketStep
<1>4. Emit \/ JobsStep \/ MarkAllRead \/ EvictStream \/ UNCHANGED notifVars
        => UNCHANGED <<socket, published>>
    BY DEF Emit, MarkAllRead, EvictStream, notifVars, JobsStep, Fetch, NoGroup, WorkerDies,
           WorkerStarts, ApiStarts, EvictJobs, EvictKarma
<1>5. QED
    BY <1>1, <1>2, <1>3, <1>4 DEF NotifNext

-----------------------------------------------------------------------------
(* Karma *)

LEMMA CreditedFinite ==
    \A kind : IsFiniteSet(Credited(kind)) /\ Cardinality(Credited(kind)) \in Nat
BY EventSets DEF Credited

\* Nothing changes about an event that is not in the "credit" stage, before or
\* after, and whose row stays as it is.
LEMMA KarmaKept ==
    ASSUME KarmaFromRows, rows' = rows, karma' + forgotten' = karma + forgotten,
           \A e \in Events : stage[e] = "credit" <=> stage'[e] = "credit"
    PROVE  KarmaFromRows'
<1>1. \A kind : Credited(kind)' = Credited(kind)
    BY DEF Credited
<1>2. QED
    BY <1>1 DEF KarmaFromRows

LEMMA CommitRow_Karma ==
    ASSUME NotifTypeOK, RowsByStage, KarmaFromRows, NEW e \in Events, CommitRow(e)
    PROVE  KarmaFromRows'
<1>1. rows[e] = 0 /\ stage[e] = "commit"
    BY DEF CommitRow, Advance, RowsByStage
<1>2. rows'[e] = 1 /\ stage'[e] = "credit" /\ karma' = karma /\ forgotten' = forgotten
    BY <1>1 DEF CommitRow, Advance, NotifTypeOK
<1>3. \A f \in Events \ {e} : rows'[f] = rows[f] /\ stage'[f] = stage[f]
    BY DEF CommitRow, Advance, NotifTypeOK
<1>4. \A kind : Credited(kind)' = Credited(kind)
    BY <1>1, <1>2, <1>3 DEF Credited
<1>5. \A f \in Events : rows'[f] <= 1
    BY <1>2, <1>3 DEF KarmaFromRows
<1>6. QED
    BY <1>2, <1>4, <1>5 DEF KarmaFromRows

LEMMA CreditKarma_Karma ==
    ASSUME NotifTypeOK, RowsByStage, KarmaFromRows, NEW e \in Events, CreditKarma(e)
    PROVE  KarmaFromRows'
<1> DEFINE count(kind) == Cardinality(Credited(kind))
           like == count("like")
           comment == count("comment")
           follow == count("follow")
<1>1. rows[e] = 1 /\ stage[e] = "credit"
    BY DEF CreditKarma, Advance, RowsByStage
<1>2. rows' = rows /\ stage'[e] = "ack" /\ karma' = karma + Karma[KindOf[e]]
        /\ forgotten' = forgotten
    BY DEF CreditKarma, Advance, NotifTypeOK
<1>3. \A f \in Events \ {e} : stage'[f] = stage[f]
    BY DEF CreditKarma, Advance, NotifTypeOK
<1>4. KindOf[e] \in {"like", "comment", "follow"}
    BY DEF NotifAssumption, Events
<1>5. Credited(KindOf[e])' = Credited(KindOf[e]) \union {e}
    BY <1>1, <1>2, <1>3 DEF Credited
<1>6. \A kind : kind # KindOf[e] => Credited(kind)' = Credited(kind)
    BY <1>1, <1>2, <1>3 DEF Credited
<1>7. e \notin Credited(KindOf[e])
    BY <1>1 DEF Credited
<1>8. count(KindOf[e])' = count(KindOf[e]) + 1
    BY <1>5, <1>7, CreditedFinite, FS_AddElement
<1>9. \A kind : kind # KindOf[e] => count(kind)' = count(kind)
    BY <1>6
<1>10. like \in Nat /\ comment \in Nat /\ follow \in Nat /\ karma \in Nat /\ forgotten \in Nat
    BY CreditedFinite DEF NotifTypeOK
<1>11. karma + forgotten = Karma.like * like + Karma.comment * comment + Karma.follow * follow
    BY DEF KarmaFromRows
<1> HIDE DEF count
<1>12. karma + forgotten = like + 2 * comment + 3 * follow
    BY <1>10, <1>11 DEF Karma
<1>13. karma' + forgotten' = like' + 2 * comment' + 3 * follow'
    <2>1. CASE KindOf[e] = "like"
        <3>1. karma' = karma + 1 /\ like' = like + 1 /\ comment' = comment /\ follow' = follow
            BY <1>2, <1>8, <1>9, <2>1 DEF Karma
        <3>2. QED
            BY <1>2, <1>10, <1>12, <3>1
    <2>2. CASE KindOf[e] = "comment"
        <3>1. karma' = karma + 2 /\ comment' = comment + 1 /\ like' = like /\ follow' = follow
            BY <1>2, <1>8, <1>9, <2>2 DEF Karma
        <3>2. QED
            BY <1>2, <1>10, <1>12, <3>1
    <2>3. CASE KindOf[e] = "follow"
        <3>1. karma' = karma + 3 /\ follow' = follow + 1 /\ like' = like /\ comment' = comment
            BY <1>2, <1>8, <1>9, <2>3 DEF Karma
        <3>2. QED
            BY <1>2, <1>10, <1>12, <3>1
    <2>4. QED
        BY <1>4, <2>1, <2>2, <2>3
<1>14. like' \in Nat /\ comment' \in Nat /\ follow' \in Nat
    BY <1>4, <1>8, <1>9, <1>10
<1>15. karma' + forgotten'
          = Karma.like * like' + Karma.comment * comment' + Karma.follow * follow'
    BY <1>13, <1>14 DEF Karma
<1>16. \A f \in Events : rows'[f] <= 1
    BY <1>2 DEF KarmaFromRows
<1>17. QED
    BY <1>15, <1>16 DEF KarmaFromRows, count

LEMMA NotifNext_Karma ==
    ASSUME NotifTypeOK, RowsByStage, KarmaFromRows, [NotifNext]_notifVars
    PROVE  KarmaFromRows'
<1>1. ASSUME NEW e \in Events, EventStep(e) PROVE KarmaFromRows'
    <2>1. CASE PublishEvent(e)
        BY <2>1, KarmaKept DEF PublishEvent, Advance, NotifTypeOK, archive
    <2>2. CASE PublishJob(e)
        BY <2>2, KarmaKept DEF PublishJob, Advance, NotifTypeOK, archive
    <2>3. CASE Take(e)
        BY <2>3, KarmaKept DEF Take, Advance, NotifTypeOK, archive
    <2>4. CASE AckJob(e)
        BY <2>4, KarmaKept DEF AckJob, Advance, NotifTypeOK, archive
    <2>5. CASE CutShort(e)
        BY <2>5, KarmaKept DEF CutShort, archive
    <2>6. QED
        BY <1>1, <2>1, <2>2, <2>3, <2>4, <2>5, CommitRow_Karma, CreditKarma_Karma
        DEF EventStep, HandleJob
<1>2. CASE Emit
    <2>1. last + 1 \in Events /\ stage[last + 1] = "none"
        BY <1>2 DEF Emit, NotifTypeOK, Events, NotifAssumption
    <2>2. \A e \in Events : stage[e] = "credit" <=> stage'[e] = "credit"
        BY <1>2, <2>1 DEF Emit, NotifTypeOK
    <2>3. QED
        BY <1>2, <2>2, KarmaKept DEF Emit, archive
<1>3. CASE UNCHANGED <<archive, stage>>
    BY <1>3, KarmaKept DEF archive
<1>6. CASE JobsStep
    <2>1. CASE Fetch
        <3>1. \A e \in Waiting : stage[e] = "waiting"
            BY DEF Waiting
        <3>2. \A e \in Events : stage[e] = "credit" <=> stage'[e] = "credit"
            BY <2>1, <3>1 DEF Fetch
        <3>3. QED
            BY <2>1, <3>2, KarmaKept DEF Fetch, archive
    <2>2. CASE EvictKarma
        <3>1. karma' + forgotten' = karma + forgotten
            BY <2>2 DEF EvictKarma, NotifTypeOK
        <3>2. QED
            BY <2>2, <3>1, KarmaKept DEF EvictKarma
    <2>3. QED
        BY <1>3, <1>6, <2>1, <2>2
        DEF JobsStep, NoGroup, WorkerDies, WorkerStarts, ApiStarts, EvictJobs
<1>4. (\E s \in Sockets : SocketStep(s)) \/ MarkAllRead \/ EvictStream \/ UNCHANGED notifVars
        => UNCHANGED <<archive, stage>>
    BY DEF SocketStep, Connect, Subscribe, Close, Forward, MarkAllRead, EvictStream, notifVars
<1>5. QED
    BY <1>1, <1>2, <1>3, <1>4, <1>6 DEF NotifNext

-----------------------------------------------------------------------------
LEMMA NotifInit_Inv == NotifInit => NotifInv
<1> SUFFICES ASSUME NotifInit PROVE NotifInv
    OBVIOUS
<1>1. NotifTypeOK /\ RowsByStage
    BY NotifInit_Type
<1>2. Accounted
    BY DEF NotifInit, Accounted
<1>3. KarmaFromRows
    <2>1. \A kind : Credited(kind) = {}
        BY DEF NotifInit, Credited
    <2>2. \A kind : Cardinality(Credited(kind)) = 0
        BY <2>1, FS_EmptySet
    <2>3. Karma.like * 0 + Karma.comment * 0 + Karma.follow * 0 = 0
        BY DEF Karma
    <2>4. (\A e \in Events : rows[e] <= 1) /\ karma + forgotten = 0
        BY DEF NotifInit
    <2>5. QED
        BY <2>2, <2>3, <2>4 DEF KarmaFromRows
<1>4. QED
    BY <1>1, <1>2, <1>3 DEF NotifInv

LEMMA NotifInvariant == NotifSpec => []NotifInv
<1>1. NotifInv /\ [NotifNext]_notifVars => NotifInv'
    BY NotifNext_Type, NotifNext_Accounted, NotifNext_Karma DEF NotifInv
<1>2. QED
    BY <1>1, NotifInit_Inv, PTL DEF NotifSpec

\* The state of the recipient keeps its shape, and the sets of events are of
\* events already added: ids are not seen before their XADD.
THEOREM NotifTypeCorrect == NotifSpec => []NotifTypeOK
<1>1. NotifInv => NotifTypeOK
    BY DEF NotifInv
<1>2. QED
    BY <1>1, NotifInvariant, PTL

\* However many sockets connect, close and reconnect, and wherever the requests
\* that emit are between their XADD and their PUBLISH: a live socket is missing
\* no event but the three kinds NoneMissed names.
THEOREM NoEventIsMissed == NotifSpec => []NoneMissed
<1>1. NotifInv => NoneMissed
    BY DEF NotifInv, Accounted, NoGap, NoneMissed
<1>2. QED
    BY <1>1, NotifInvariant, PTL

\* Wherever the handling of jobs is cut short, and however often the worker dies and
\* is started again: every event has one row at most, and the recipient's karma, with
\* what went with the leaderboard, is that of the rows whose handler got past ZINCRBY.
THEOREM KarmaMatchesRows == NotifSpec => []KarmaFromRows
<1>1. NotifInv => KarmaFromRows
    BY DEF NotifInv
<1>2. QED
    BY <1>1, NotifInvariant, PTL

=============================================================================
