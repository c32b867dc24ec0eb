-------------------- MODULE ZmqPulseSyncReceiver_proofs --------------------
(***************************************************************************)
(* The synchronisation of jf_assembler for any number of modules, pulses,  *)
(* sizes of queues and limits: its types, that what it returns are common  *)
(* pulses in order, that it passes over none of them, that every round     *)
(* before it gives up was the fault of a module, and what it counts.       *)
(***************************************************************************)
EXTENDS ZmqPulseSyncReceiver, FiniteSetTheorems, SequenceTheorems, WellFoundedInduction, TLAPS

\* The types, with the rounds left and the sockets read since the last result.
Types ==
    /\ TypeOK
    /\ pc = "round" => i_sync < SYNC_RETRY_LIMIT
    /\ \A m \in Module : m < n_read \/ pc # "first" => pulses[m] \in Pulses

\* The sockets: what waits is in order, behind what was read, and it is all that was
\* accepted since.
Queue(m) ==
    /\ \A i, j \in 1 .. Len(queue[m]) : i < j => queue[m][i] < queue[m][j]
    /\ \A i \in 1 .. Len(queue[m]) : pulses[m] < queue[m][i] /\ queue[m][i] \in accepted[m]
    /\ pulses[m] # 0 => pulses[m] \in accepted[m]
    /\ pulses[m] <= announced[m]
    /\ \A p \in accepted[m] :
          /\ p <= announced[m]
          /\ p <= pulses[m] \/ \E i \in 1 .. Len(queue[m]) : queue[m][i] = p
Queues == \A m \in Module : Queue(m)

\* The loop: which sockets were read since the last result; a round has a target that
\* some module has reached.
Loop ==
    /\ pc = "first" => /\ \A m \in 0 .. n_read - 1 : LastResult < pulses[m]
                       /\ \A m \in n_read .. NModules - 1 : pulses[m] = LastResult
    /\ pc # "first" => \A m \in Module : LastResult < pulses[m]
    /\ pc = "drain" => \E m \in Module : max_pulse_id <= pulses[m]

\* A pulse that was passed over is one that some module has skipped for good.
PassedOver(last) ==
    \A p \in Pulses, m \in Module :
        last < p /\ p < pulses[m] => \E n \in Module : p < pulses[n] /\ p \notin accepted[n]

\* The common pulses up to the last result were returned.
Returned == \A p \in Common : p <= LastResult => Result(p)

Results == PassedOver(LastResult) /\ Returned /\ ResultsCommonAndIncreasing

Below(S, n) == {p \in S : p < n}

\* Pulses that one module announced and another skipped for good: there is one for every
\* round that ended without a result, and the target of a round may become the next.
Skipped(last) ==
    {p \in Pulses : /\ last < p
                    /\ \E m \in Module : p \in accepted[m]
                    /\ \E m \in Module : p < pulses[m] /\ p \notin accepted[m]}
Rounds ==
    /\ pc \in {"round", "retries"} => i_sync <= Cardinality(Skipped(LastResult))
    /\ pc = "retries" => i_sync = SYNC_RETRY_LIMIT
    /\ pc = "drain" => /\ LastResult < max_pulse_id
                       /\ \E m \in Module : max_pulse_id \in accepted[m]
                       /\ i_sync - 1 <= Cardinality(Below(Skipped(LastResult), max_pulse_id))

\* What was discarded since the last result: none of it in the first pass, in a round
\* what is below its target.  The count is no less than what any module discarded and,
\* with what a module has discarded in this round, no more than what is below it.
Dropped(m, last)   == {p \in accepted[m] : last < p /\ p < pulses[m]}
DroppedByAny(last) == UNION {Dropped(m, last) : m \in Module}
Counted(last, n) ==
    /\ \A m \in Module : Cardinality(Dropped(m, last)) <= n
    /\ n <= Cardinality(DroppedByAny(last))
Losses ==
    /\ pc = "first" => \A m \in Module : Dropped(m, LastResult) = {}
    /\ pc = "round" =>
          /\ Counted(LastResult, n_lost_pulses)
          /\ \A m \in Module : \A p \in DroppedByAny(LastResult) : p < pulses[m]
    /\ pc = "drain" => \A m \in Module :
          /\ Cardinality(Dropped(m, LastResult)) <= n_lost_pulses + lost[m]
          /\ n_lost_pulses + lost[m] <= Cardinality(Below(DroppedByAny(LastResult), pulses[m]))
          /\ \A p \in DroppedByAny(LastResult) : p < max_pulse_id
    /\ \A k \in 1 .. Len(synced) : synced[k].pulse_id <= LastResult
    /\ LostCounted

-----------------------------------------------------------------------------
(* Greatest and least elements. *)

\* A set of naturals has a least element.
LEMMA MinOfNat ==
    ASSUME NEW S \in SUBSET Nat, S # {}
    PROVE  Min(S) \in S /\ \A y \in S : Min(S) <= y
<1> DEFINE R == OpToRel(<, Nat)
<1>1. IsWellFoundedOn(R, Nat)
  BY NatLessThanWellFounded, Zenon
<1>2. \A x, y \in Nat : x < y => <<x, y>> \in R
  BY DEF OpToRel
<1> HIDE DEF R
<1>3. PICK x \in S : \A y \in S : <<y, x>> \notin R
  BY <1>1, WFMin
<1>4. ASSUME NEW y \in S PROVE x <= y
  <2>1. ~(y < x)
    BY <1>2, <1>3
  <2> QED
    BY <2>1
<1> QED
  BY <1>4 DEF Min

\* The largest element of a finite set of numbers.
LEMMA MaxOfFinite ==
    ASSUME NEW S \in SUBSET Nat, IsFiniteSet(S), S # {}
    PROVE  Max(S) \in S /\ \A y \in S : y <= Max(S)
<1> DEFINE Above(x) == {y \in S : x < y}
           T == {Above(x) : x \in S}
<1>1. IsWellFoundedOn(StrictSubsetOrdering(S), FiniteSubsetsOf(S))
  BY FS_StrictSubsetOrderingWellFounded
<1>2. T \subseteq FiniteSubsetsOf(S) /\ T # {}
  <2>1. \A x \in S : Above(x) \in FiniteSubsetsOf(S)
    BY FS_Subset DEF FiniteSubsetsOf
  <2> QED
    BY <2>1
<1>3. \E U \in T : \A V \in T : <<V, U>> \notin StrictSubsetOrdering(S)
  <2> HIDE DEF T
  <2> QED
    BY <1>1, <1>2, WFMin
<1>4. PICK x \in S : \A V \in T : <<V, Above(x)>> \notin StrictSubsetOrdering(S)
  BY <1>3
<1>5. ASSUME NEW y \in Above(x)
      PROVE  FALSE
  <2>1. y \in S /\ x < y
    BY <1>5
  <2>2. Above(y) \in T
    BY <2>1
  <2>3. Above(y) \subseteq Above(x) /\ y \notin Above(y)
    <3>1. \A z \in S : y < z => x < z /\ z # y
      BY <2>1
    <3> QED
      BY <3>1
  <2>4. <<Above(y), Above(x)>> \in StrictSubsetOrdering(S)
    BY <1>5, <2>3 DEF StrictSubsetOrdering
  <2> QED
    BY <1>4, <2>2, <2>4
<1>6. \A y \in S : x >= y
  BY <1>5
<1> QED
  BY <1>6 DEF Max

-----------------------------------------------------------------------------
(* The modules. *)

\* The modules are finitely many and not none.
LEMMA ModulesFinite == IsFiniteSet(Module) /\ 0 \in Module /\ Module \subseteq Nat
  BY SyncAssumption, FS_Interval DEF Module

LEMMA MaxOfFunction ==
    ASSUME NEW f \in [Module -> Nat]
    PROVE  /\ Max(Range(f)) \in Range(f)
           /\ \A m \in Module : f[m] <= Max(Range(f))
<1>1. Range(f) \in SUBSET Nat /\ Range(f) # {} /\ \A m \in Module : f[m] \in Range(f)
  BY ModulesFinite DEF Range
<1>2. f \in Surjection(Module, Range(f))
  BY DEF Surjection, Range
<1>3. IsFiniteSet(Range(f))
  BY <1>2, ModulesFinite, FS_Surjection
<1> QED
  BY <1>1, <1>3, MaxOfFinite

LEMMA FirstBehind ==
    ASSUME Behind # {}
    PROVE  Min(Behind) \in Module /\ pulses[Min(Behind)] < max_pulse_id
<1>1. Behind \in SUBSET Module
  BY DEF Behind
<1>2. IsFiniteSet(Behind) /\ Behind \in SUBSET Nat
  BY <1>1, ModulesFinite, FS_Subset
<1>3. Min(Behind) \in Behind
  BY <1>2, MinOfNat
<1> QED
  BY <1>3 DEF Behind
-----------------------------------------------------------------------------
(* Types. *)

LEMMA TypeInit == Init => Types
  BY SyncAssumption, ModulesFinite DEF Init, Types, TypeOK

\* What a socket gives next.
LEMMA Received ==
    ASSUME TypeOK, NEW m \in Module, zmq_recv(m)
    PROVE  /\ Len(queue[m]) \in Nat /\ Len(queue[m]) > 0
           /\ pulses' = [pulses EXCEPT ![m] = queue[m][1]] /\ queue[m][1] \in Pulses
           /\ queue' = [queue EXCEPT ![m] = Tail(@)]
           /\ Tail(queue[m]) \in Seq(Pulses) /\ Len(Tail(queue[m])) = Len(queue[m]) - 1
           /\ \A i \in 1 .. Len(queue[m]) - 1 : Tail(queue[m])[i] = queue[m][i + 1]
           /\ UNCHANGED <<announced, accepted>>
<1>1. queue[m] \in Seq(Pulses) /\ queue[m] # <<>>
  BY DEF TypeOK, zmq_recv
<1> QED
  BY <1>1 DEF zmq_recv

LEMMA ReceivedType ==
    ASSUME TypeOK, NEW m \in Module, zmq_recv(m)
    PROVE  /\ announced' \in [Module -> Pulses \union {0}]
           /\ queue' \in [Module -> Seq(Pulses)] /\ \A n \in Module : Len(queue'[n]) <= HWM
           /\ accepted' \in [Module -> SUBSET Pulses]
           /\ pulses' \in [Module -> Pulses \union {0}]
           /\ pulses'[m] \in Pulses
<1>1. HWM \in Nat /\ Len(queue[m]) \in Nat /\ Len(queue[m]) <= HWM
  BY SyncAssumption, Received DEF TypeOK
<1>2. queue' \in [Module -> Seq(Pulses)] /\ \A n \in Module : Len(queue'[n]) <= HWM
  <2>1. queue \in [Module -> Seq(Pulses)] /\ \A n \in Module : Len(queue[n]) <= HWM
    BY DEF TypeOK
  <2>2. Len(Tail(queue[m])) <= HWM
    BY <1>1, Received
  <2>3. queue' = [queue EXCEPT ![m] = Tail(@)] /\ Tail(queue[m]) \in Seq(Pulses)
    BY Received
  <2> QED
    BY <2>1, <2>2, <2>3
<1>3. pulses' \in [Module -> Pulses \union {0}] /\ pulses'[m] \in Pulses
  BY Received DEF TypeOK
<1> QED
  BY <1>2, <1>3, Received DEF TypeOK

LEMMA ReturnType ==
    ASSUME TypeOK, NEW p \in Pulses, NEW n \in Nat, Return(p, n)
    PROVE  /\ pc' = "first" /\ n_read' = 0 /\ n_read' \in Module
           /\ \A m \in Module : ~(m < n_read')
           /\ synced' \in Seq([pulse_id : Pulses, n_lost_pulses : Nat])
<1>1. [pulse_id |-> p, n_lost_pulses |-> n] \in [pulse_id : Pulses, n_lost_pulses : Nat]
  OBVIOUS
<1>2. synced' \in Seq([pulse_id : Pulses, n_lost_pulses : Nat])
  BY <1>1 DEF Return, TypeOK
<1> QED
  BY <1>2, ModulesFinite DEF Return, Module

LEMMA TypeStep == Types /\ [Next]_vars => Types'
<1> SUFFICES ASSUME Types, [Next]_vars
             PROVE  Types'
  OBVIOUS
<1> USE DEF Types, sendVars, recvVars
<1>0. Pulses \subseteq Nat /\ 0 \notin Pulses /\ SYNC_RETRY_LIMIT \in Nat \ {0}
  BY SyncAssumption
<1>1. CASE UNCHANGED vars
  BY <1>1 DEF TypeOK, vars
<1>2. ASSUME NEW m \in Module, Announce(m)
      PROVE  Types'
  <2>1. PICK p \in Pulses : AnnouncePulse(m, p)
    BY <1>2 DEF Announce
  <2>2. CASE Len(queue[m]) < HWM
    <3>1. Append(queue[m], p) \in Seq(Pulses) /\ Len(Append(queue[m], p)) <= HWM
      BY <2>2, SyncAssumption DEF TypeOK
    <3>2. /\ announced' \in [Module -> Pulses \union {0}]
          /\ queue' \in [Module -> Seq(Pulses)] /\ \A n \in Module : Len(queue'[n]) <= HWM
          /\ accepted' \in [Module -> SUBSET Pulses]
      <4>1. /\ queue' = [queue EXCEPT ![m] = Append(@, p)]
            /\ accepted' = [accepted EXCEPT ![m] = @ \union {p}]
            /\ announced' = [announced EXCEPT ![m] = p]
        BY <2>1, <2>2 DEF AnnouncePulse
      <4>2. queue \in [Module -> Seq(Pulses)] /\ \A n \in Module : Len(queue[n]) <= HWM
        BY DEF TypeOK
      <4>3. queue' \in [Module -> Seq(Pulses)] /\ \A n \in Module : Len(queue'[n]) <= HWM
        BY <3>1, <4>1, <4>2
      <4> QED
        BY <4>1, <4>3 DEF TypeOK
    <3> QED
      BY <2>1, <3>2 DEF TypeOK, AnnouncePulse
  <2>3. CASE ~(Len(queue[m]) < HWM)
    BY <2>1, <2>3 DEF TypeOK, AnnouncePulse
  <2> QED
    BY <2>2, <2>3
<1>3. CASE ReadFirst
  <2>1. n_read \in Module /\ zmq_recv(n_read)
    BY <1>3 DEF ReadFirst, TypeOK
  <2>2. /\ announced' \in [Module -> Pulses \union {0}]
        /\ queue' \in [Module -> Seq(Pulses)] /\ \A m \in Module : Len(queue'[m]) <= HWM
        /\ accepted' \in [Module -> SUBSET Pulses]
        /\ pulses' \in [Module -> Pulses \union {0}]
    BY <2>1, ReceivedType
  <2>3. \A m \in Module : m <= n_read => pulses'[m] \in Pulses
    <3>1. \A m \in Module \ {n_read} : pulses'[m] = pulses[m]
      BY <2>1, Received DEF TypeOK
    <3>2. \A m \in Module : m <= n_read => m < n_read \/ m = n_read
      BY <2>1 DEF Module
    <3> QED
      BY <2>1, <3>1, <3>2, ReceivedType
  <2>4. UNCHANGED <<max_pulse_id, lost>>
    BY <1>3 DEF ReadFirst
  <2>5. CASE n_read < NModules - 1
    <3>1. n_read' = n_read + 1 /\ UNCHANGED <<pc, synced, i_sync, n_lost_pulses>>
      BY <1>3, <2>5 DEF ReadFirst
    <3>2. n_read' \in Module /\ \A m \in Module : m < n_read' => m <= n_read
      BY <2>1, <2>5, <3>1, SyncAssumption DEF Module
    <3>3. pc = "first"
      BY <1>3 DEF ReadFirst
    <3> QED
      BY <2>2, <2>3, <2>4, <3>1, <3>2, <3>3 DEF TypeOK
  <2>6. CASE ~(n_read < NModules - 1) /\ InSync(pulses')
    <3>1. Return(pulses'[0], 0) /\ UNCHANGED <<i_sync, n_lost_pulses>>
      BY <1>3, <2>6 DEF ReadFirst
    <3>2. pulses'[0] \in Pulses
      BY <2>1, <2>3, ModulesFinite DEF Module
    <3> QED
      BY <2>2, <2>4, <3>1, <3>2, ReturnType DEF TypeOK
  <2>7. CASE ~(n_read < NModules - 1) /\ ~InSync(pulses')
    <3>1. /\ pc' = "round" /\ i_sync' = 0 /\ n_lost_pulses' = 0
          /\ UNCHANGED <<n_read, synced>>
      BY <1>3, <2>7 DEF ReadFirst
    <3>2. \A m \in Module : m <= n_read
      BY <2>1, <2>7, SyncAssumption DEF Module
    <3> QED
      BY <1>0, <2>2, <2>3, <2>4, <3>1, <3>2 DEF TypeOK
  <2> QED
    BY <2>5, <2>6, <2>7
<1>4. CASE BeginRound
  <2>1. pulses \in [Module -> Nat]
    <3>1. Pulses \union {0} \subseteq Nat /\ pulses \in [Module -> Pulses \union {0}]
      BY <1>0 DEF TypeOK
    <3> QED
      BY <3>1
  <2>2. Max(Range(pulses)) \in Pulses \union {0}
    <3>1. Max(Range(pulses)) \in Range(pulses)
      BY <2>1, MaxOfFunction
    <3> QED
      BY <3>1 DEF TypeOK, Range
  <2>3. [m \in Module |-> 0] \in [Module -> Nat]
    OBVIOUS
  <2> QED
    BY <1>0, <1>4, <2>2, <2>3 DEF BeginRound, TypeOK
<1>5. CASE Drain
  <2>1. PICK m \in Module : zmq_recv(m) /\ lost' = [lost EXCEPT ![m] = @ + 1]
    BY <1>5, FirstBehind DEF Drain
  <2>2. /\ announced' \in [Module -> Pulses \union {0}]
        /\ queue' \in [Module -> Seq(Pulses)] /\ \A n \in Module : Len(queue'[n]) <= HWM
        /\ accepted' \in [Module -> SUBSET Pulses]
        /\ pulses' \in [Module -> Pulses \union {0}]
        /\ pulses'[m] \in Pulses
    BY <2>1, ReceivedType
  <2>3. \A n \in Module \ {m} : pulses'[n] = pulses[n]
    BY <2>1, Received DEF TypeOK
  <2>4. pc = "drain" /\ UNCHANGED <<pc, n_read, i_sync, max_pulse_id, n_lost_pulses, synced>>
    BY <1>5 DEF Drain
  <2>5. lost' \in [Module -> Nat]
    BY <2>1 DEF TypeOK
  <2> QED
    BY <2>2, <2>3, <2>4, <2>5 DEF TypeOK
<1>6. CASE EndRound
  <2>1. Max(Range(lost)) \in Nat
    <3>1. lost \in [Module -> Nat]
      BY DEF TypeOK
    <3>2. Max(Range(lost)) \in Range(lost)
      BY <3>1, MaxOfFunction
    <3> QED
      BY <3>1, <3>2 DEF Range
  <2>2. n_lost_pulses' \in Nat /\ pc = "drain" /\ UNCHANGED <<sendVars, pulses, i_sync, max_pulse_id, lost>>
    BY <1>6, <2>1 DEF EndRound, TypeOK
  <2>3. CASE InSync(pulses)
    <3>1. Return(pulses[0], n_lost_pulses')
      BY <1>6, <2>3 DEF EndRound
    <3>2. pulses[0] \in Pulses
      BY <2>2, ModulesFinite
    <3> QED
      BY <2>2, <3>1, <3>2, ReturnType DEF TypeOK
  <2>4. CASE ~InSync(pulses)
    <3>1. pc' = (IF i_sync = SYNC_RETRY_LIMIT THEN "retries" ELSE "round") /\ UNCHANGED <<n_read, synced>>
      BY <1>6, <2>4 DEF EndRound
    <3>2. i_sync # SYNC_RETRY_LIMIT => i_sync < SYNC_RETRY_LIMIT
      BY <1>0 DEF TypeOK
    <3> QED
      BY <2>2, <3>1, <3>2 DEF TypeOK
  <2> QED
    BY <2>3, <2>4
<1> QED
  BY <1>1, <1>2, <1>3, <1>4, <1>5, <1>6 DEF Next, Receiver

\* The variables keep their types.
THEOREM TypesKept == Spec => []Types
  BY TypeInit, TypeStep, PTL DEF Spec

-----------------------------------------------------------------------------
(* The sockets. *)

LEMMA Numbers ==
    ASSUME TypeOK
    PROVE  \A m \in Module :
              /\ pulses[m] \in Nat /\ announced[m] \in Nat
              /\ queue[m] \in Seq(Pulses) /\ Len(queue[m]) \in Nat
              /\ accepted[m] \subseteq Nat /\ accepted[m] \subseteq Pulses
              /\ \A i \in 1 .. Len(queue[m]) : queue[m][i] \in Nat /\ queue[m][i] \in Pulses
<1> SUFFICES ASSUME NEW m \in Module
             PROVE  /\ pulses[m] \in Nat /\ announced[m] \in Nat
                    /\ queue[m] \in Seq(Pulses) /\ Len(queue[m]) \in Nat
                    /\ accepted[m] \subseteq Nat /\ accepted[m] \subseteq Pulses
                    /\ \A i \in 1 .. Len(queue[m]) : queue[m][i] \in Nat /\ queue[m][i] \in Pulses
  OBVIOUS
<1>1. Pulses \subseteq Nat
  BY SyncAssumption
<1>2. /\ pulses[m] \in Pulses \union {0} /\ announced[m] \in Pulses \union {0}
      /\ queue[m] \in Seq(Pulses) /\ accepted[m] \subseteq Pulses
  BY DEF TypeOK
<1>3. pulses[m] \in Nat /\ announced[m] \in Nat /\ accepted[m] \subseteq Nat
  <2>1. \A p \in Pulses : p \in Nat
    BY <1>1
  <2> QED
    BY <1>2, <2>1
<1>4. Len(queue[m]) \in Nat /\ \A i \in 1 .. Len(queue[m]) : queue[m][i] \in Pulses
  BY <1>2
<1> QED
  BY <1>1, <1>2, <1>3, <1>4

LEMMA QueuesInit == Init => Queues
  BY DEF Init, Queues, Queue

\* A socket gives what its module announced next.
LEMMA NextOfSocket ==
    ASSUME TypeOK, Queues, NEW m \in Module, zmq_recv(m)
    PROVE  /\ pulses[m] < pulses'[m] /\ pulses'[m] \in accepted[m]
           /\ \A p \in accepted[m] : pulses[m] < p => pulses'[m] <= p
           /\ \A n \in Module \ {m} : pulses'[n] = pulses[n]
           /\ \A n \in Module : pulses'[n] \in Nat
           /\ accepted' = accepted
<1>1. /\ pulses'[m] = queue[m][1] /\ 1 \in 1 .. Len(queue[m])
      /\ \A n \in Module \ {m} : pulses'[n] = pulses[n]
      /\ accepted' = accepted
  BY Received DEF TypeOK
<1>2. \A i \in 1 .. Len(queue[m]) : queue[m][1] <= queue[m][i]
  <2>1. \A i, j \in 1 .. Len(queue[m]) : i < j => queue[m][i] < queue[m][j]
    BY DEF Queues, Queue
  <2>2. Len(queue[m]) \in Nat /\ \A i \in 1 .. Len(queue[m]) : queue[m][i] \in Nat
    BY Numbers
  <2> QED
    BY <1>1, <2>1, <2>2
<1>3. \A p \in accepted[m] : pulses[m] < p => pulses'[m] <= p
  BY <1>1, <1>2, Numbers DEF Queues, Queue
<1> QED
  BY <1>1, <1>3, Numbers DEF Queues, Queue

LEMMA ReceivedQueues ==
    ASSUME TypeOK, Queues, NEW m \in Module, zmq_recv(m)
    PROVE  Queues'
<1>1. ASSUME NEW n \in Module, n # m
      PROVE  Queue(n)'
  BY SMTT(30), <1>1, Received DEF Queues, Queue, TypeOK
<1>2. Queue(m)'
  <2> DEFINE q == queue[m]
  <2>1. /\ Len(q) \in Nat /\ Len(q) > 0
        /\ pulses'[m] = q[1] /\ announced' = announced /\ accepted' = accepted
        /\ Len(queue'[m]) = Len(q) - 1
        /\ \A i \in 1 .. Len(q) - 1 : queue'[m][i] = q[i + 1]
    BY Received DEF TypeOK
  <2>2. /\ \A i, j \in 1 .. Len(q) : i < j => q[i] < q[j]
        /\ \A i \in 1 .. Len(q) : q[i] \in accepted[m] /\ q[i] \in Nat
        /\ \A p \in accepted[m] :
              /\ p \in Nat /\ p <= announced[m]
              /\ p <= pulses[m] \/ \E i \in 1 .. Len(q) : q[i] = p
        /\ pulses[m] \in Nat /\ announced[m] \in Nat /\ pulses[m] < q[1]
    BY <2>1, Numbers DEF Queues, Queue
  <2> HIDE DEF q
  <2>3. \A i \in 1 .. Len(q) - 1 : i + 1 \in 1 .. Len(q) /\ 1 < i + 1 /\ 1 \in 1 .. Len(q)
    BY <2>1
  <2>4. \A i, j \in 1 .. Len(queue'[m]) : i < j => queue'[m][i] < queue'[m][j]
    BY <2>1, <2>2, <2>3
  <2>5. \A i \in 1 .. Len(queue'[m]) : pulses'[m] < queue'[m][i] /\ queue'[m][i] \in accepted'[m]
    BY <2>1, <2>2, <2>3
  <2>6. pulses'[m] \in accepted'[m] /\ pulses'[m] <= announced'[m]
    BY <2>1, <2>2
  <2>7. ASSUME NEW p \in accepted'[m]
        PROVE  /\ p <= announced'[m]
               /\ p <= pulses'[m] \/ \E i \in 1 .. Len(queue'[m]) : queue'[m][i] = p
    <3>1. CASE p <= pulses[m]
      BY <2>1, <2>2, <2>7, <3>1
    <3>2. ASSUME NEW i \in 1 .. Len(q), q[i] = p
          PROVE  p <= pulses'[m] \/ \E k \in 1 .. Len(queue'[m]) : queue'[m][k] = p
      <4>1. CASE i = 1
        BY <2>1, <2>2, <3>2, <4>1
      <4>2. CASE i # 1
        <5>1. i - 1 \in 1 .. Len(q) - 1 /\ (i - 1) + 1 = i
          BY <2>1, <4>2
        <5> QED
          BY <2>1, <3>2, <5>1
      <4> QED
        BY <4>1, <4>2
    <3> QED
      BY <2>1, <2>2, <2>7, <3>1, <3>2
  <2> QED
    BY <2>4, <2>5, <2>6, <2>7 DEF Queue
<1> QED
  BY <1>1, <1>2 DEF Queues

LEMMA AnnouncedQueues ==
    ASSUME TypeOK, Queues, NEW m \in Module, Announce(m)
    PROVE  Queues'
<1>1. PICK p \in Pulses : p > announced[m] /\ AnnouncePulse(m, p)
  BY DEF Announce
<1>2. ASSUME NEW n \in Module, n # m
      PROVE  Queue(n)'
  BY <1>1, <1>2 DEF Queues, Queue, AnnouncePulse, TypeOK, recvVars
<1>3. Queue(m)'
  <2> DEFINE q == queue[m]
  <2>1. /\ \A i, j \in 1 .. Len(q) : i < j => q[i] < q[j]
        /\ \A i \in 1 .. Len(q) : pulses[m] < q[i] /\ q[i] \in accepted[m] /\ q[i] \in Nat
        /\ pulses[m] # 0 => pulses[m] \in accepted[m]
        /\ \A k \in accepted[m] :
              /\ k \in Nat /\ k <= announced[m]
              /\ k <= pulses[m] \/ \E i \in 1 .. Len(q) : q[i] = k
        /\ pulses[m] \in Nat /\ announced[m] \in Nat /\ pulses[m] <= announced[m]
        /\ q \in Seq(Pulses) /\ Len(q) \in Nat
        /\ p \in Nat /\ announced[m] < p
    BY <1>1, Numbers, SyncAssumption DEF Queues, Queue
  <2>2. pulses' = pulses /\ announced'[m] = p
    BY <1>1 DEF AnnouncePulse, recvVars, TypeOK
  <2>3. CASE Len(q) < HWM
    <3>1. queue'[m] = Append(q, p) /\ accepted'[m] = accepted[m] \union {p}
      BY <1>1, <2>3 DEF AnnouncePulse, TypeOK
    <3> HIDE DEF q
    <3>2. /\ Len(queue'[m]) = Len(q) + 1 /\ queue'[m][Len(q) + 1] = p
          /\ \A i \in 1 .. Len(q) : queue'[m][i] = q[i]
      BY <2>1, <3>1
    <3>3. \A i \in 1 .. Len(q) + 1 : i \in 1 .. Len(q) \/ i = Len(q) + 1
      BY <2>1
    <3>4. \A i, j \in 1 .. Len(queue'[m]) : i < j => queue'[m][i] < queue'[m][j]
      <4>1. \A i \in 1 .. Len(q) : q[i] < p
        BY <2>1
      <4>2. \A i, j \in 1 .. Len(q) + 1 : i < j => i \in 1 .. Len(q)
        BY <2>1
      <4> QED
        BY <2>1, <3>2, <3>3, <4>1, <4>2
    <3>5. \A i \in 1 .. Len(queue'[m]) : pulses'[m] < queue'[m][i] /\ queue'[m][i] \in accepted'[m]
      BY <2>1, <2>2, <3>1, <3>2, <3>3
    <3>6. \A k \in accepted'[m] :
              /\ k <= announced'[m]
              /\ k <= pulses'[m] \/ \E i \in 1 .. Len(queue'[m]) : queue'[m][i] = k
      <4>1. Len(q) + 1 \in 1 .. Len(queue'[m]) /\ \A i \in 1 .. Len(q) : i \in 1 .. Len(queue'[m])
        BY <2>1, <3>2
      <4> QED
        BY <2>1, <2>2, <3>1, <3>2, <4>1
    <3> QED
      BY <2>1, <2>2, <3>1, <3>4, <3>5, <3>6 DEF Queue
  <2>4. CASE ~(Len(q) < HWM)
    <3>1. queue' = queue /\ accepted' = accepted
      BY <1>1, <2>4 DEF AnnouncePulse
    <3> QED
      BY <2>1, <2>2, <3>1 DEF Queue
  <2> QED
    BY <2>3, <2>4
<1> QED
  BY <1>2, <1>3 DEF Queues

LEMMA QueuesStep == Types /\ Queues /\ [Next]_vars => Queues'
<1> SUFFICES ASSUME Types, Queues, [Next]_vars
             PROVE  Queues'
  OBVIOUS
<1>1. CASE UNCHANGED <<sendVars, pulses>>
  BY <1>1 DEF Queues, Queue, sendVars
<1>2. CASE UNCHANGED vars
  BY <1>1, <1>2 DEF vars, recvVars
<1>3. CASE ReadFirst
  BY <1>3, ReceivedQueues DEF ReadFirst, Types, TypeOK
<1>4. CASE BeginRound
  BY <1>1, <1>4 DEF BeginRound
<1>5. CASE Drain
  BY <1>5, FirstBehind, ReceivedQueues DEF Drain, Types
<1>6. CASE EndRound
  BY <1>1, <1>6 DEF EndRound
<1> QED
  BY <1>2, <1>3, <1>4, <1>5, <1>6, AnnouncedQueues DEF Next, Receiver, Types

-----------------------------------------------------------------------------
(* The loop. *)

LEMMA LoopInit == Init => Loop
  BY SyncAssumption DEF Init, Loop, LastResult, Module

\* Where a result comes from: all modules are at the pulse that is returned.
LEMMA Synchronised ==
    ASSUME TypeOK, NEW p \in Pulses, NEW k \in Nat, Return(p, k)
    PROVE  /\ LastResult' = p /\ pc' = "first" /\ n_read' = 0
           /\ synced' = Append(synced, [pulse_id |-> p, n_lost_pulses |-> k])
           /\ Len(synced) \in Nat /\ Len(synced') = Len(synced) + 1
           /\ \A i \in 1 .. Len(synced) : synced'[i] = synced[i]
           /\ synced'[Len(synced) + 1].pulse_id = p
<1>1. /\ pc' = "first" /\ n_read' = 0
      /\ synced' = Append(synced, [pulse_id |-> p, n_lost_pulses |-> k])
  BY DEF Return
<1>2. /\ Len(synced) \in Nat /\ Len(synced') = Len(synced) + 1
      /\ \A i \in 1 .. Len(synced) : synced'[i] = synced[i]
      /\ synced'[Len(synced) + 1] = [pulse_id |-> p, n_lost_pulses |-> k]
  BY <1>1 DEF TypeOK
<1>3. synced' # <<>>
  BY <1>2
<1> QED
  BY <1>1, <1>2, <1>3 DEF LastResult

LEMMA LastResultType == TypeOK => LastResult \in Nat /\ LastResult \in Pulses \union {0}
<1> SUFFICES ASSUME TypeOK, synced # <<>>
             PROVE  synced[Len(synced)].pulse_id \in Pulses
  BY SyncAssumption DEF LastResult
<1>1. synced \in Seq([pulse_id : Pulses, n_lost_pulses : Nat])
  BY DEF TypeOK
<1>2. synced[Len(synced)] \in [pulse_id : Pulses, n_lost_pulses : Nat]
  <2> DEFINE S == [pulse_id : Pulses, n_lost_pulses : Nat]
  <2> HIDE DEF S
  <2>1. synced \in Seq(S) /\ synced # <<>>
    BY <1>1 DEF S
  <2>2. synced[Len(synced)] \in S
    BY <2>1
  <2> QED
    BY <2>2 DEF S
<1> QED
  BY <1>2

\* What the first pass has read is later than the last result.
LEMMA FirstPass ==
    ASSUME Types, Queues, Loop, ReadFirst
    PROVE  /\ \A m \in 0 .. n_read : m \in Module /\ LastResult < pulses'[m]
           /\ \A m \in n_read + 1 .. NModules - 1 : pulses'[m] = LastResult
           /\ n_read \in Module /\ zmq_recv(n_read) /\ pulses[n_read] = LastResult
<1>1. n_read \in Module /\ zmq_recv(n_read) /\ pc = "first" /\ NModules \in Nat
  BY SyncAssumption DEF ReadFirst, Types, TypeOK
<1>2. /\ \A m \in Module \ {n_read} : pulses'[m] = pulses[m]
      /\ pulses[n_read] < pulses'[n_read]
  BY <1>1, NextOfSocket DEF Types
<1>3. /\ \A m \in 0 .. n_read - 1 : LastResult < pulses[m]
      /\ \A m \in n_read .. NModules - 1 : pulses[m] = LastResult
  BY <1>1 DEF Loop
<1>4. n_read \in n_read .. NModules - 1
  BY <1>1 DEF Module
<1>5. \A m \in 0 .. n_read : m \in Module /\ (m \in 0 .. n_read - 1 \/ m = n_read)
  BY <1>1 DEF Module
<1>6. \A m \in n_read + 1 .. NModules - 1 : m \in Module \ {n_read} /\ m \in n_read .. NModules - 1
  BY <1>1 DEF Module
<1>7. \A m \in 0 .. n_read - 1 : m \in Module \ {n_read}
  BY <1>1 DEF Module
<1> QED
  BY <1>1, <1>2, <1>3, <1>4, <1>5, <1>6, <1>7

\* A pulse that becomes the result: every module has announced it and nobody was there
\* before.
Agreed(p) == \A m \in Module : pulses'[m] = p /\ p \in accepted'[m] /\ LastResult < p

LEMMA FirstAgreed ==
    ASSUME Types, Queues, Loop, ReadFirst, ~(n_read < NModules - 1), InSync(pulses')
    PROVE  /\ Return(pulses'[0], 0) /\ pulses'[0] \in Pulses
           /\ Agreed(pulses'[0])
<1>1. n_read \in Module /\ n_read = NModules - 1 /\ 0 .. n_read = Module
  BY FirstPass, SyncAssumption DEF Module
<1>2. \A m \in Module : pulses'[m] = pulses'[0]
  BY ModulesFinite DEF InSync
<1>3. Return(pulses'[0], 0) /\ zmq_recv(n_read)
  BY DEF ReadFirst
<1>4. \A m \in Module : LastResult < pulses'[m]
  BY <1>1, FirstPass
<1>5. TypeOK' /\ Queues'
  BY <1>1, <1>3, ReceivedQueues, TypeStep DEF Next, Receiver, Types
<1>6. \A m \in Module : pulses'[m] # 0
  BY <1>2, <1>4, LastResultType, <1>1, NextOfSocket, <1>3 DEF Types
<1>7. \A m \in Module : pulses'[m] \in accepted'[m]
  BY <1>5, <1>6 DEF Queues, Queue
<1>8. pulses'[0] \in Pulses
  BY <1>5, <1>6, ModulesFinite DEF TypeOK
<1> QED
  BY <1>2, <1>3, <1>4, <1>7, <1>8, ModulesFinite DEF Agreed

LEMMA RoundAgreed ==
    ASSUME Types, Queues, Loop, EndRound, InSync(pulses)
    PROVE  /\ Return(pulses[0], n_lost_pulses') /\ pulses[0] \in Pulses
           /\ Agreed(pulses[0]) /\ n_lost_pulses' \in Nat
<1>1. pc = "drain" /\ UNCHANGED <<pulses, accepted>> /\ Return(pulses[0], n_lost_pulses')
  BY DEF EndRound, sendVars
<1>2. \A m \in Module : pulses[m] = pulses[0] /\ pulses[m] \in Pulses /\ LastResult < pulses[m]
  BY <1>1, ModulesFinite DEF InSync, Types, Loop
<1>3. \A m \in Module : pulses[m] \in accepted[m]
  BY <1>2, SyncAssumption DEF Queues, Queue
<1>4. n_lost_pulses' \in Nat
  BY TypeStep DEF Next, Receiver, Types, TypeOK
<1> QED
  BY <1>1, <1>2, <1>3, <1>4, ModulesFinite DEF Agreed

LEMMA LoopStep == Types /\ Queues /\ Loop /\ [Next]_vars => Loop'
<1> SUFFICES ASSUME Types, Queues, Loop, [Next]_vars
             PROVE  Loop'
  OBVIOUS
<1>0. TypeOK /\ LastResult \in Nat /\ NModules \in Nat
  BY LastResultType, SyncAssumption DEF Types
<1>1. CASE UNCHANGED vars
  BY <1>1 DEF Loop, LastResult, vars, recvVars
<1>2. ASSUME NEW m \in Module, Announce(m)
      PROVE  Loop'
  BY <1>2 DEF Loop, LastResult, Announce, AnnouncePulse, recvVars
<1>3. ASSUME NEW p \in Pulses, NEW k \in Nat, Return(p, k), Agreed(p)
      PROVE  Loop'
  <2>1. pc' = "first" /\ n_read' = 0 /\ LastResult' = p
    BY <1>0, <1>3, Synchronised
  <2>2. \A m \in Module : pulses'[m] = p
    BY <1>3 DEF Agreed
  <2> QED
    BY <1>0, <2>1, <2>2 DEF Loop, Module
<1>4. CASE ReadFirst
  <2>1. /\ \A m \in 0 .. n_read : m \in Module /\ LastResult < pulses'[m]
        /\ \A m \in n_read + 1 .. NModules - 1 : pulses'[m] = LastResult
        /\ n_read \in Module
    BY <1>4, FirstPass
  <2>2. CASE n_read < NModules - 1
    <3>1. n_read' = n_read + 1 /\ pc' = "first" /\ UNCHANGED synced
      BY <1>4, <2>2 DEF ReadFirst
    <3>2. LastResult' = LastResult /\ n_read' - 1 = n_read
      BY <2>1, <3>1 DEF LastResult, Module
    <3> QED
      BY <2>1, <3>1, <3>2 DEF Loop
  <2>3. CASE ~(n_read < NModules - 1) /\ InSync(pulses')
    BY <1>3, <1>4, <2>3, FirstAgreed
  <2>4. CASE ~(n_read < NModules - 1) /\ ~InSync(pulses')
    <3>1. pc' = "round" /\ UNCHANGED synced
      BY <1>4, <2>4 DEF ReadFirst
    <3>2. \A m \in Module : m \in 0 .. n_read
      BY <1>0, <2>1, <2>4 DEF Module
    <3> QED
      BY <2>1, <3>1, <3>2 DEF Loop, LastResult
  <2> QED
    BY <2>2, <2>3, <2>4
<1>5. CASE BeginRound
  <2>1. pc = "round" /\ UNCHANGED <<pulses, synced>>
    BY <1>5 DEF BeginRound
  <2>2. CASE pc' = "offset"
    BY <2>1, <2>2 DEF Loop, LastResult
  <2>3. CASE pc' = "drain" /\ max_pulse_id' = Max(Range(pulses))
    <3>1. pulses \in [Module -> Nat]
      BY <1>0, Numbers DEF TypeOK
    <3>2. PICK m \in Module : pulses[m] = Max(Range(pulses))
      BY <3>1, MaxOfFunction DEF Range
    <3>3. max_pulse_id' <= pulses'[m]
      BY <2>1, <2>3, <3>1, <3>2
    <3> QED
      BY <2>1, <2>3, <3>3 DEF Loop, LastResult
  <2> QED
    BY <1>5, <2>2, <2>3 DEF BeginRound
<1>6. CASE Drain
  <2>1. PICK m \in Module : zmq_recv(m) /\ pulses[m] < max_pulse_id
    BY <1>6, FirstBehind DEF Drain
  <2>2. /\ pulses[m] < pulses'[m]
        /\ \A n \in Module \ {m} : pulses'[n] = pulses[n]
        /\ \A n \in Module : pulses'[n] \in Nat /\ pulses[n] \in Nat
    BY <1>0, <2>1, NextOfSocket, Numbers
  <2>3. pc = "drain" /\ pc' = "drain" /\ UNCHANGED <<max_pulse_id, synced>>
    BY <1>6 DEF Drain
  <2>4. PICK n \in Module : max_pulse_id <= pulses[n]
    BY <2>3 DEF Loop
  <2>5. max_pulse_id \in Nat
    BY <1>0, SyncAssumption DEF TypeOK
  <2>6. n # m
    BY <2>1, <2>2, <2>4, <2>5
  <2>7. \A k \in Module : LastResult < pulses'[k]
    BY <1>0, <2>2, <2>3 DEF Loop
  <2> QED
    BY <2>2, <2>3, <2>4, <2>6, <2>7 DEF Loop, LastResult
<1>7. CASE EndRound
  <2>1. CASE InSync(pulses)
    BY <1>3, <1>7, <2>1, RoundAgreed
  <2>2. CASE ~InSync(pulses)
    <3>1. pc = "drain" /\ pc' \in {"retries", "round"} /\ UNCHANGED <<pulses, synced>>
      BY <1>7, <2>2 DEF EndRound
    <3> QED
      BY <3>1 DEF Loop, LastResult
  <2> QED
    BY <2>1, <2>2
<1> QED
  BY <1>1, <1>2, <1>4, <1>5, <1>6, <1>7 DEF Next, Receiver

\* The sockets and the loop keep pace with each other.
THEOREM LoopKept == Spec => [](Queues /\ Loop)
<1>1. Types /\ Queues /\ Loop /\ [Next]_vars => (Queues /\ Loop)'
  BY QueuesStep, LoopStep
<1> QED
  BY QueuesInit, LoopInit, <1>1, TypesKept, PTL DEF Spec

-----------------------------------------------------------------------------
(* The results. *)

LEMMA ResultsInit == Init => Results
<1> SUFFICES ASSUME Init
             PROVE  Results
  OBVIOUS
<1>1. synced = <<>> /\ LastResult = 0 /\ \A m \in Module : pulses[m] = 0 /\ accepted[m] = {}
  BY DEF Init, LastResult
<1>2. PassedOver(LastResult)
  BY <1>1, SyncAssumption DEF PassedOver
<1>3. Returned
  BY <1>1, ModulesFinite DEF Returned, Common
<1>4. ResultsCommonAndIncreasing
  BY <1>1 DEF ResultsCommonAndIncreasing
<1> QED
  BY <1>2, <1>3, <1>4 DEF Results

\* Reading a socket does not pass over a pulse that is still to come from all modules,
\* if nothing was read from it since the last result or another module is ahead.
LEMMA ReadPassesOver ==
    ASSUME TypeOK, Queues, NEW last \in Nat, PassedOver(last), NEW m \in Module, zmq_recv(m),
           pulses[m] = last \/ \E n \in Module : pulses[m] < pulses[n]
    PROVE  PassedOver(last)'
<1>1. /\ pulses[m] < pulses'[m]
      /\ \A p \in accepted[m] : pulses[m] < p => pulses'[m] <= p
      /\ \A n \in Module \ {m} : pulses'[n] = pulses[n]
      /\ accepted' = accepted
      /\ \A n \in Module : pulses[n] \in Nat /\ pulses'[n] \in Nat
  BY NextOfSocket, Numbers
<1> SUFFICES ASSUME NEW p \in Pulses, NEW k \in Module, last < p, p < pulses'[k]
             PROVE  \E n \in Module : p < pulses'[n] /\ p \notin accepted'[n]
  BY DEF PassedOver
<1>2. p \in Nat
  BY SyncAssumption
<1>3. ASSUME NEW i \in Module, p < pulses[i]
      PROVE  \E n \in Module : p < pulses'[n] /\ p \notin accepted'[n]
  <2>1. PICK n \in Module : p < pulses[n] /\ p \notin accepted[n]
    BY <1>3 DEF PassedOver
  <2>2. p < pulses'[n]
    BY <1>1, <1>2, <2>1
  <2> QED
    BY <1>1, <2>1, <2>2
<1>4. CASE k # m
  BY <1>1, <1>3, <1>4
<1>5. CASE k = m /\ pulses[m] < p
  <2>1. p \notin accepted[m]
    BY <1>1, <1>2, <1>5
  <2> QED
    BY <1>1, <1>5, <2>1
<1>6. CASE k = m /\ pulses[m] = p
  BY <1>2, <1>3, <1>6
<1> QED
  BY <1>1, <1>2, <1>3, <1>4, <1>5, <1>6

\* A result leaves no common pulse behind.
LEMMA AgreedResults ==
    ASSUME TypeOK, Results, UNCHANGED accepted, NEW last \in Nat, last = LastResult,
           PassedOver(last)',
           NEW p \in Pulses, NEW k \in Nat, Return(p, k), Agreed(p)
    PROVE  Results'
<1>1. /\ LastResult' = p
      /\ Len(synced) \in Nat /\ Len(synced') = Len(synced) + 1
      /\ \A i \in 1 .. Len(synced) : synced'[i] = synced[i]
      /\ synced'[Len(synced) + 1].pulse_id = p
  BY Synchronised
<1>2. Common' = Common /\ p \in Common /\ last < p
  BY ModulesFinite DEF Common, Agreed
<1>3. \A m \in Module : pulses'[m] = p
  BY DEF Agreed
<1>4. \A q \in Pulses : q \in Nat
  BY SyncAssumption
<1>5. PassedOver(LastResult)'
  BY <1>1, <1>3, <1>4 DEF PassedOver
<1>6. Returned'
  <2> SUFFICES ASSUME NEW q \in Common, q <= p
               PROVE  Result(q)'
    BY <1>1, <1>2 DEF Returned
  <2>1. q \in Pulses /\ q \in Nat /\ \A n \in Module : q \in accepted[n]
    BY <1>4 DEF Common
  <2>2. CASE q <= last
    <3>1. PICK i \in 1 .. Len(synced) : synced[i].pulse_id = q
      BY <2>2 DEF Results, Returned, Result
    <3>2. i \in 1 .. Len(synced') /\ synced'[i].pulse_id = q
      BY <1>1, <3>1
    <3> QED
      BY <3>2 DEF Result
  <2>3. CASE q = p
    <3>1. Len(synced) + 1 \in 1 .. Len(synced')
      BY <1>1
    <3> QED
      BY <1>1, <2>3, <3>1 DEF Result
  <2>4. CASE last < q /\ q < p
    <3>1. \E n \in Module : q \notin accepted'[n]
      BY <1>3, <2>1, <2>4, ModulesFinite DEF PassedOver
    <3> QED
      BY <2>1, <3>1
  <2>5. p \in Nat
    BY <1>4
  <2>6. q <= last \/ q = p \/ (last < q /\ q < p)
    BY <2>1, <2>5
  <2> QED
    BY <2>2, <2>3, <2>4, <2>6
<1>7. ResultsCommonAndIncreasing'
  <2> SUFFICES ASSUME NEW i \in 1 .. Len(synced')
               PROVE  /\ synced'[i].pulse_id \in Common
                      /\ i > 1 => synced'[i - 1].pulse_id < synced'[i].pulse_id
    BY <1>2 DEF ResultsCommonAndIncreasing
  <2>1. CASE i \in 1 .. Len(synced)
    <3>1. i > 1 => i - 1 \in 1 .. Len(synced)
      BY <1>1, <2>1
    <3> QED
      BY <1>1, <2>1, <3>1 DEF Results, ResultsCommonAndIncreasing
  <2>2. CASE i = Len(synced) + 1
    <3>1. i > 1 => i - 1 = Len(synced) /\ i - 1 \in 1 .. Len(synced)
      BY <1>1, <2>2
    <3>2. i > 1 => synced'[i - 1].pulse_id = last
      <4>1. Len(synced) \in 1 .. Len(synced) => synced # <<>>
        OBVIOUS
      <4> QED
        BY <1>1, <3>1, <4>1 DEF LastResult
    <3> QED
      BY <1>1, <1>2, <2>2, <3>2
  <2> QED
    BY <1>1, <2>1, <2>2
<1> QED
  BY <1>5, <1>6, <1>7 DEF Results

LEMMA ResultsStep == Types /\ Queues /\ Loop /\ Results /\ [Next]_vars => Results'
<1> SUFFICES ASSUME Types, Queues, Loop, Results, [Next]_vars
             PROVE  Results'
  OBVIOUS
<1>l. PICK last \in Nat : last = LastResult
  BY LastResultType DEF Types
<1>0. TypeOK /\ last = LastResult /\ PassedOver(last)
  BY <1>l DEF Types, Results
<1>1. ASSUME UNCHANGED <<accepted, synced>>, PassedOver(last)'
      PROVE  Results'
  BY <1>0, <1>1 DEF Results, Returned, ResultsCommonAndIncreasing, Common, Result, LastResult
<1>2. CASE UNCHANGED vars \/ BeginRound
  <2>1. UNCHANGED <<pulses, accepted, synced>>
    BY <1>2 DEF vars, sendVars, recvVars, BeginRound
  <2> QED
    BY <2>1 DEF Results, PassedOver, Returned, ResultsCommonAndIncreasing, Common, Result, LastResult
<1>3. ASSUME NEW m \in Module, Announce(m)
      PROVE  Results'
  <2>1. PICK p \in Pulses : p > announced[m] /\ AnnouncePulse(m, p)
    BY <1>3 DEF Announce
  <2>2. /\ UNCHANGED <<pulses, synced>>
        /\ \A n \in Module : accepted[n] \subseteq accepted'[n]
        /\ \A n \in Module : \A q \in accepted'[n] \ accepted[n] : n = m /\ q = p
    <3>1. UNCHANGED <<pulses, synced>>
      BY <2>1 DEF AnnouncePulse, recvVars
    <3>2. \/ accepted' = [accepted EXCEPT ![m] = @ \union {p}]
          \/ accepted' = accepted
      BY <2>1 DEF AnnouncePulse
    <3> QED
      BY <1>0, <3>1, <3>2 DEF TypeOK
  <2>3. \A n \in Module : last <= pulses[n] /\ pulses[n] <= announced[n]
    <3>1. \A n \in Module : n \in 0 .. n_read - 1 \/ n \in n_read .. NModules - 1
      BY <1>0, SyncAssumption DEF Module, TypeOK
    <3>2. \A n \in Module : last <= pulses[n]
      BY <1>0, <3>1, Numbers DEF Loop
    <3> QED
      BY <3>2 DEF Queues, Queue
  <2>4. \A n \in Module : pulses[n] \in Nat /\ announced[n] \in Nat
    BY <1>0, Numbers
  <2>5. \A n \in Module : \A q \in accepted'[n] \ accepted[n] : pulses[n] < q /\ last < q
    BY <1>0, <2>1, <2>2, <2>3, <2>4, SyncAssumption
  <2>6. Common \subseteq Common' /\ \A q \in Common' \ Common : last < q
    BY <2>2, <2>5 DEF Common
  <2>7. PassedOver(LastResult)'
    <3>1. \A q \in Pulses, n \in Module : q < pulses[n] /\ q \notin accepted[n] => q \notin accepted'[n]
      BY <2>4, <2>5, SyncAssumption
    <3> QED
      BY <1>0, <2>2, <3>1 DEF PassedOver, LastResult
  <2>8. Returned'
    <3>1. LastResult' = last /\ \A q : Result(q)' <=> Result(q)
      BY <1>0, <2>2 DEF LastResult, Result
    <3>2. \A q \in Common' : q \in Nat
      BY SyncAssumption DEF Common
    <3>3. \A q \in Common' : q <= last => q \in Common
      BY <2>6, <3>2
    <3> QED
      BY <1>0, <3>1, <3>3 DEF Results, Returned
  <2>9. ResultsCommonAndIncreasing'
    BY <2>2, <2>6 DEF Results, ResultsCommonAndIncreasing
  <2> QED
    BY <2>7, <2>8, <2>9 DEF Results
<1>4. CASE ReadFirst
  <2>1. n_read \in Module /\ zmq_recv(n_read) /\ pulses[n_read] = last
    BY <1>0, <1>4, FirstPass
  <2>2. PassedOver(last)' /\ UNCHANGED accepted
    BY <1>0, <2>1, ReadPassesOver, NextOfSocket
  <2>3. CASE ~(n_read < NModules - 1) /\ InSync(pulses')
    BY <1>0, <1>4, <2>2, <2>3, FirstAgreed, AgreedResults
  <2>4. CASE ~(~(n_read < NModules - 1) /\ InSync(pulses'))
    BY <1>1, <1>4, <2>2, <2>4 DEF ReadFirst
  <2> QED
    BY <2>3, <2>4
<1>5. CASE Drain
  <2>1. PICK m \in Module : zmq_recv(m) /\ pulses[m] < max_pulse_id
    BY <1>5, FirstBehind DEF Drain
  <2>2. PICK n \in Module : max_pulse_id <= pulses[n]
    BY <1>5 DEF Drain, Loop
  <2>3. pulses[m] < pulses[n]
    BY SMTT(30), <1>0, <2>1, <2>2, Numbers, SyncAssumption DEF TypeOK
  <2>4. PassedOver(last)' /\ UNCHANGED accepted
    BY <1>0, <2>1, <2>3, ReadPassesOver, NextOfSocket
  <2> QED
    BY <1>1, <1>5, <2>4 DEF Drain
<1>6. CASE EndRound
  <2>1. PassedOver(last)' /\ UNCHANGED accepted
    <3>1. UNCHANGED <<pulses, accepted>>
      BY <1>6 DEF EndRound, sendVars
    <3> QED
      BY <1>0, <3>1 DEF PassedOver
  <2>2. CASE InSync(pulses)
    BY <1>0, <1>6, <2>1, <2>2, RoundAgreed, AgreedResults
  <2>3. CASE ~InSync(pulses)
    BY <1>1, <1>6, <2>1, <2>3 DEF EndRound
  <2> QED
    BY <2>2, <2>3
<1> QED
  BY <1>2, <1>3, <1>4, <1>5, <1>6 DEF Next, Receiver

\* Of the common pulses those up to the last result, and only those, were returned.
THEOREM ResultsKept == Spec => []Results
  BY ResultsInit, ResultsStep, TypesKept, LoopKept, PTL DEF Spec

\* get_next_pulse_id returns pulses that all modules announced, in increasing order
\* (ResultsCommonAndIncreasing), for all modules, pulses, queues and limits.
THEOREM CommonAndIncreasing == Spec => []ResultsCommonAndIncreasing
<1>1. Results => ResultsCommonAndIncreasing
  BY DEF Results
<1> QED
  BY <1>1, ResultsKept, PTL

\* It returns every pulse that all modules announced before any later one, and reads
\* past none of them (NoCommonPulseSkipped).
THEOREM NoneSkipped == Spec => []NoCommonPulseSkipped
<1>1. Types /\ Results => NoCommonPulseSkipped
  <2> SUFFICES ASSUME Types, Results, NEW p \in Common, ~Result(p), NEW m \in Module
               PROVE  p > LastResult /\ (p >= pulses[m] \/ pulses[m] <= LastResult)
    BY DEF NoCommonPulseSkipped
  <2>1. p \in Pulses /\ p \in Nat /\ LastResult \in Nat /\ pulses[m] \in Nat
    BY SyncAssumption, LastResultType, Numbers DEF Common, Types
  <2>2. LastResult < p
    BY <2>1 DEF Results, Returned
  <2>3. \A n \in Module : p \in accepted[n]
    BY DEF Common
  <2>4. ~(p < pulses[m])
    BY <2>1, <2>2, <2>3 DEF Results, PassedOver
  <2> QED
    BY <2>1, <2>2, <2>4
<1> QED
  BY <1>1, TypesKept, ResultsKept, PTL

-----------------------------------------------------------------------------
(* The rounds. *)

\* Sets of pulses are finite.
LEMMA Countable ==
    ASSUME NEW S \in SUBSET Pulses, NEW T \in SUBSET S
    PROVE  /\ IsFiniteSet(S) /\ IsFiniteSet(T)
           /\ Cardinality(S) \in Nat /\ Cardinality(T) \in Nat
           /\ Cardinality(T) <= Cardinality(S)
<1>1. IsFiniteSet(S)
  BY SyncAssumption, FS_Subset
<1>2. IsFiniteSet(T) /\ Cardinality(T) <= Cardinality(S)
  BY <1>1, FS_Subset
<1> QED
  BY <1>1, <1>2, FS_CardinalityType

\* No module is behind the last result.
LEMMA NotBehind ==
    ASSUME Types, Loop
    PROVE  \A m \in Module : LastResult <= pulses[m]
<1>1. \A m \in Module : m \in 0 .. n_read - 1 \/ m \in n_read .. NModules - 1
  BY SyncAssumption DEF Module, Types, TypeOK
<1>2. LastResult \in Nat /\ \A m \in Module : pulses[m] \in Nat
  BY LastResultType, Numbers DEF Types
<1> QED
  BY <1>1, <1>2 DEF Loop

\* Modules only move on, and what they announce is ahead of them.
LEMMA Progress ==
    ASSUME Types, Queues, [Next]_vars
    PROVE  \A m \in Module :
              /\ pulses[m] \in Nat /\ pulses'[m] \in Nat /\ pulses[m] <= pulses'[m]
              /\ accepted[m] \subseteq accepted'[m]
              /\ \A p \in accepted'[m] : p \in accepted[m] \/ pulses[m] < p
<1>0. TypeOK /\ \A m \in Module : pulses[m] \in Nat /\ announced[m] \in Nat /\ pulses[m] <= announced[m]
  BY Numbers DEF Types, Queues, Queue
<1>1. CASE UNCHANGED <<pulses, accepted>>
  BY <1>0, <1>1
<1>2. ASSUME NEW m \in Module, zmq_recv(m)
      PROVE  \A n \in Module :
                /\ pulses[n] \in Nat /\ pulses'[n] \in Nat /\ pulses[n] <= pulses'[n]
                /\ accepted[n] \subseteq accepted'[n]
                /\ \A p \in accepted'[n] : p \in accepted[n] \/ pulses[n] < p
  BY <1>0, <1>2, NextOfSocket DEF Types
<1>3. ASSUME NEW m \in Module, Announce(m)
      PROVE  \A n \in Module :
                /\ pulses[n] \in Nat /\ pulses'[n] \in Nat /\ pulses[n] <= pulses'[n]
                /\ accepted[n] \subseteq accepted'[n]
                /\ \A p \in accepted'[n] : p \in accepted[n] \/ pulses[n] < p
  <2>1. PICK p \in Pulses : p > announced[m] /\ AnnouncePulse(m, p)
    BY <1>3 DEF Announce
  <2>2. UNCHANGED pulses
    BY <2>1 DEF AnnouncePulse, recvVars
  <2>3. accepted' \in {accepted, [accepted EXCEPT ![m] = @ \union {p}]}
    BY <2>1 DEF AnnouncePulse
  <2>4. \A n \in Module : /\ accepted[n] \subseteq accepted'[n]
                          /\ \A q \in accepted'[n] : q \in accepted[n] \/ (n = m /\ q = p)
    BY <1>0, <2>3 DEF TypeOK
  <2>5. pulses[m] < p
    BY <1>0, <2>1, SyncAssumption
  <2> QED
    BY <1>0, <2>2, <2>4, <2>5
<1>4. CASE UNCHANGED vars \/ BeginRound \/ EndRound
  BY <1>1, <1>4 DEF vars, sendVars, recvVars, BeginRound, EndRound
<1>5. CASE ReadFirst
  BY <1>0, <1>2, <1>5 DEF ReadFirst, TypeOK
<1>6. CASE Drain
  BY <1>2, <1>6, FirstBehind DEF Drain
<1> QED
  BY <1>3, <1>4, <1>5, <1>6 DEF Next, Receiver

\* What was skipped for good stays so.
LEMMA SkippedStays ==
    ASSUME Types, Queues, [Next]_vars, NEW last \in Nat
    PROVE  Skipped(last) \subseteq Skipped(last)'
<1> SUFFICES ASSUME NEW p \in Skipped(last)
             PROVE  p \in Skipped(last)'
  OBVIOUS
<1>1. /\ p \in Pulses /\ p \in Nat /\ last < p
      /\ \E m \in Module : p \in accepted[m]
  BY SyncAssumption DEF Skipped
<1>2. PICK n \in Module : p < pulses[n] /\ p \notin accepted[n]
  BY DEF Skipped
<1>3. p < pulses'[n] /\ p \notin accepted'[n]
  BY <1>1, <1>2, Progress
<1>4. \E m \in Module : p \in accepted'[m]
  BY <1>1, Progress
<1> QED
  BY <1>1, <1>3, <1>4 DEF Skipped

LEMMA RoundsInit == Init => Rounds
  BY DEF Init, Rounds

LEMMA RoundsStep == Types /\ Queues /\ Loop /\ Results /\ Rounds /\ [Next]_vars => Rounds'
<1> SUFFICES ASSUME Types, Queues, Loop, Results, Rounds, [Next]_vars
             PROVE  Rounds'
  OBVIOUS
<1>l. PICK last \in Nat : last = LastResult
  BY LastResultType DEF Types
<1>0. /\ TypeOK /\ last = LastResult
      /\ \A m \in Module : pulses[m] \in Nat
      /\ i_sync \in Nat /\ max_pulse_id \in Nat
  BY <1>l, Numbers, SyncAssumption DEF Types, TypeOK
<1>s. /\ Skipped(last) \in SUBSET Pulses /\ Skipped(last)' \in SUBSET Pulses
      /\ Skipped(last) \subseteq Skipped(last)'
  BY SkippedStays DEF Skipped
<1>1. ASSUME UNCHANGED <<pc, i_sync, max_pulse_id, synced>>
      PROVE  Rounds'
  <2>1. LastResult' = last
    BY <1>0, <1>1 DEF LastResult
  <2>2. Cardinality(Skipped(last)) <= Cardinality(Skipped(last)')
    BY <1>s, Countable
  <2>3. /\ Cardinality(Skipped(last)) \in Nat /\ Cardinality(Skipped(last)') \in Nat
    BY <1>s, Countable
  <2>4. CASE pc \in {"round", "retries"}
    BY <1>0, <1>1, <2>1, <2>2, <2>3, <2>4 DEF Rounds
  <2>5. CASE pc = "drain"
    <3> DEFINE S == Below(Skipped(last), max_pulse_id)
               T == Below(Skipped(last)', max_pulse_id)
    <3>1. T \in SUBSET Pulses /\ S \in SUBSET T
      BY <1>s DEF Below
    <3> HIDE DEF S, T
    <3>2. Cardinality(S) <= Cardinality(T) /\ Cardinality(S) \in Nat /\ Cardinality(T) \in Nat
      BY <3>1, Countable
    <3>3. i_sync - 1 <= Cardinality(S) /\ last < max_pulse_id
      BY <1>0, <2>5 DEF Rounds, S
    <3>4. \E m \in Module : max_pulse_id \in accepted'[m]
      BY <2>5, Progress DEF Rounds
    <3>5. i_sync - 1 <= Cardinality(T)
      BY <1>0, <3>2, <3>3
    <3> QED
      BY <1>1, <2>1, <2>5, <3>3, <3>4, <3>5 DEF Rounds, T
  <2>6. CASE pc \notin {"round", "retries", "drain"}
    BY <1>1, <2>6 DEF Rounds
  <2> QED
    BY <2>4, <2>5, <2>6
<1>2. CASE UNCHANGED vars
  BY <1>1, <1>2 DEF vars, recvVars
<1>3. ASSUME NEW m \in Module, Announce(m)
      PROVE  Rounds'
  BY <1>1, <1>3 DEF Announce, AnnouncePulse, recvVars
<1>4. CASE Drain
  BY <1>1, <1>4 DEF Drain
<1>5. CASE ReadFirst
  <2>1. pc' = "first" \/ (pc' = "round" /\ i_sync' = 0 /\ LastResult' = last)
    BY <1>0, <1>5 DEF ReadFirst, Return, LastResult
  <2>2. Cardinality(Skipped(last)') \in Nat
    BY <1>s, Countable
  <2> QED
    BY <2>1, <2>2 DEF Rounds
<1>6. CASE BeginRound
  <2>1. pc = "round" /\ UNCHANGED <<pulses, accepted, synced>>
    BY <1>6 DEF BeginRound, sendVars
  <2>2. CASE pc' = "offset"
    BY <2>2 DEF Rounds
  <2>3. CASE pc' = "drain" /\ max_pulse_id' = Max(Range(pulses)) /\ i_sync' = i_sync + 1
    <3>1. pulses \in [Module -> Nat]
      BY <1>0 DEF TypeOK
    <3>2. PICK k \in Module : pulses[k] = Max(Range(pulses))
      BY <3>1, MaxOfFunction DEF Range
    <3>3. \A m \in Module : pulses[m] <= max_pulse_id'
      BY <2>3, <3>1, MaxOfFunction
    <3>4. last < pulses[k] /\ pulses[k] \in accepted[k]
      BY <1>0, <2>1 DEF Loop, Queues, Queue
    <3>5. Skipped(last)' = Skipped(last)
      BY <2>1 DEF Skipped
    <3>6. Below(Skipped(last), max_pulse_id') = Skipped(last)
      <4>1. ASSUME NEW p \in Skipped(last)
            PROVE  p < max_pulse_id'
        <5>1. PICK n \in Module : p < pulses[n]
          BY DEF Skipped
        <5>2. p \in Nat /\ pulses[n] \in Nat /\ max_pulse_id' \in Nat /\ pulses[n] <= max_pulse_id'
          BY <1>0, <2>3, <3>2, <3>3, SyncAssumption DEF Skipped
        <5> QED
          BY <5>1, <5>2
      <4> QED
        BY <4>1 DEF Below
    <3>7. i_sync <= Cardinality(Skipped(last)) /\ LastResult' = last
      BY <1>0, <2>1 DEF Rounds, LastResult
    <3>8. i_sync' - 1 <= Cardinality(Below(Skipped(last)', max_pulse_id'))
      BY <1>0, <2>3, <3>5, <3>6, <3>7
    <3>9. max_pulse_id' \in accepted'[k] /\ last < max_pulse_id'
      BY <2>1, <2>3, <3>2, <3>4
    <3> QED
      BY <2>3, <3>7, <3>8, <3>9 DEF Rounds
  <2> QED
    BY <1>6, <2>2, <2>3 DEF BeginRound
<1>7. CASE EndRound
  <2>1. pc = "drain" /\ Behind = {} /\ UNCHANGED <<pulses, accepted, i_sync>>
    BY <1>7 DEF EndRound, sendVars
  <2>2. CASE InSync(pulses)
    BY <1>7, <2>2 DEF EndRound, Return, Rounds
  <2>3. CASE ~InSync(pulses)
    <3>1. /\ pc' \in {"round", "retries"} /\ (pc' = "retries" => i_sync = SYNC_RETRY_LIMIT)
          /\ LastResult' = last
      BY <1>0, <1>7, <2>3 DEF EndRound, LastResult
    <3>2. \A m \in Module : max_pulse_id <= pulses[m]
      BY <1>0, <2>1 DEF Behind
    <3>3. PICK n \in Module : max_pulse_id < pulses[n]
      BY <1>0, <2>3, <3>2 DEF InSync
    <3>4. PICK m \in Module : max_pulse_id \in accepted[m]
      BY <2>1 DEF Rounds
    <3>5. max_pulse_id \in Pulses /\ last < max_pulse_id
      BY <1>0, <2>1, <3>4 DEF Rounds, TypeOK
    <3>6. max_pulse_id \in Skipped(last)
      BY <1>0, <3>3, <3>4, <3>5 DEF Results, PassedOver, Skipped
    <3> DEFINE S == Below(Skipped(last), max_pulse_id)
    <3>7. S \in SUBSET Pulses /\ max_pulse_id \notin S /\ S \union {max_pulse_id} \in SUBSET Skipped(last)
      BY <1>0, <1>s, <3>6 DEF Below
    <3>8. i_sync - 1 <= Cardinality(S)
      BY <1>0, <2>1 DEF Rounds
    <3> HIDE DEF S
    <3>9. IsFiniteSet(S) /\ Cardinality(S) \in Nat
      BY <3>7, Countable
    <3>10. Cardinality(S \union {max_pulse_id}) = Cardinality(S) + 1
      BY <3>7, <3>9, FS_AddElement
    <3>11. /\ Cardinality(S \union {max_pulse_id}) <= Cardinality(Skipped(last))
           /\ Cardinality(Skipped(last)) \in Nat
      BY <1>s, <3>7, Countable
    <3>12. i_sync <= Cardinality(Skipped(last))
      BY <1>0, <3>8, <3>9, <3>10, <3>11
    <3>13. Skipped(last)' = Skipped(last)
      BY <2>1 DEF Skipped
    <3> QED
      BY <2>1, <3>1, <3>12, <3>13 DEF Rounds
  <2> QED
    BY <2>2, <2>3
<1> QED
  BY <1>2, <1>3, <1>4, <1>5, <1>6, <1>7 DEF Next, Receiver

\* Every round that ended without a result was the fault of a module.
THEOREM RoundsKept == Spec => []Rounds
  BY RoundsInit, RoundsStep, TypesKept, LoopKept, ResultsKept, PTL DEF Spec

\* The retry limit is reached only if that many pulses since the last result were
\* announced by some module and not by all (RetriesJustified), for any limit.
THEOREM RetriesWithCause == Spec => []RetriesJustified
<1>1. Types /\ Queues /\ Loop /\ Rounds => RetriesJustified
  <2> SUFFICES ASSUME Types, Queues, Loop, Rounds, pc = "retries"
               PROVE  Cardinality({p \in (UNION {accepted[m] : m \in Module}) \ Common :
                                      LastResult < p /\ p <= Max(Range(pulses))})
                        >= SYNC_RETRY_LIMIT
    BY DEF RetriesJustified
  <2> DEFINE T == {p \in (UNION {accepted[m] : m \in Module}) \ Common :
                      LastResult < p /\ p <= Max(Range(pulses))}
  <2>1. pulses \in [Module -> Nat] /\ SYNC_RETRY_LIMIT \in Nat
    BY Numbers, SyncAssumption DEF Types, TypeOK
  <2>2. Max(Range(pulses)) \in Nat /\ \A m \in Module : pulses[m] <= Max(Range(pulses))
    BY <2>1, MaxOfFunction DEF Range
  <2>3. T \in SUBSET Pulses
    BY DEF Types, TypeOK
  <2>4. Skipped(LastResult) \in SUBSET T
    <3> SUFFICES ASSUME NEW p \in Skipped(LastResult)
                 PROVE  p \in T
      OBVIOUS
    <3>1. p \in Nat /\ LastResult < p /\ \E m \in Module : p \in accepted[m]
      BY SyncAssumption DEF Skipped
    <3>2. PICK n \in Module : p < pulses[n] /\ p \notin accepted[n]
      BY DEF Skipped
    <3>3. p <= Max(Range(pulses))
      <4>1. pulses[n] \in Nat /\ pulses[n] <= Max(Range(pulses))
        BY <2>1, <2>2
      <4> QED
        BY <2>2, <3>1, <3>2, <4>1
    <3>4. p \notin Common
      BY <3>2 DEF Common
    <3>5. p \in UNION {accepted[m] : m \in Module}
      BY <3>1
    <3> QED
      BY <3>1, <3>3, <3>4, <3>5
  <2> HIDE DEF T
  <2>5. /\ Cardinality(Skipped(LastResult)) <= Cardinality(T)
        /\ Cardinality(Skipped(LastResult)) \in Nat /\ Cardinality(T) \in Nat
    BY <2>3, <2>4, Countable
  <2>6. SYNC_RETRY_LIMIT <= Cardinality(Skipped(LastResult))
    BY DEF Rounds
  <2>7. Cardinality(T) >= SYNC_RETRY_LIMIT
    BY <2>1, <2>5, <2>6
  <2> QED
    BY <2>7 DEF T
<1> QED
  BY <1>1, TypesKept, LoopKept, RoundsKept, PTL

-----------------------------------------------------------------------------
(* The losses. *)

LEMMA ResultTypes ==
    ASSUME TypeOK
    PROVE  \A k \in 1 .. Len(synced) :
              /\ synced[k].pulse_id \in Pulses /\ synced[k].pulse_id \in Nat
              /\ synced[k].n_lost_pulses \in Nat
<1> DEFINE S == [pulse_id : Pulses, n_lost_pulses : Nat]
<1>1. synced \in Seq(S)
  BY DEF TypeOK
<1>2. \A x \in S : x.pulse_id \in Pulses /\ x.pulse_id \in Nat /\ x.n_lost_pulses \in Nat
  BY SyncAssumption
<1> HIDE DEF S
<1>3. \A k \in 1 .. Len(synced) : synced[k] \in S
  BY <1>1
<1> QED
  BY <1>2, <1>3

LEMMA DroppedPulses ==
    ASSUME TypeOK, NEW last \in Nat
    PROVE  /\ \A m \in Module : Dropped(m, last) \in SUBSET Pulses
           /\ \A m \in Module : Dropped(m, last) \subseteq DroppedByAny(last)
           /\ \A p \in DroppedByAny(last) : \E m \in Module : p \in Dropped(m, last)
           /\ DroppedByAny(last) \in SUBSET Pulses
<1>1. \A m \in Module : Dropped(m, last) \in SUBSET Pulses
  BY DEF Dropped, TypeOK
<1>2. \A p : p \in DroppedByAny(last) <=> \E m \in Module : p \in Dropped(m, last)
  BY DEF DroppedByAny
<1> QED
  BY <1>1, <1>2

\* As long as the modules stay where they are, so does what was discarded.
LEMMA DroppedStays ==
    ASSUME Types, Queues, [Next]_vars, UNCHANGED pulses, NEW last \in Nat
    PROVE  /\ \A m \in Module : Dropped(m, last)' = Dropped(m, last)
           /\ DroppedByAny(last)' = DroppedByAny(last)
<1>1. \A m \in Module : Dropped(m, last)' = Dropped(m, last)
  <2> SUFFICES ASSUME NEW m \in Module
               PROVE  Dropped(m, last)' = Dropped(m, last)
    OBVIOUS
  <2>1. /\ accepted[m] \subseteq accepted'[m]
        /\ \A p \in accepted'[m] : p \in accepted[m] \/ pulses[m] < p
        /\ pulses[m] \in Nat /\ accepted'[m] \subseteq Nat
    <3>1. accepted'[m] \subseteq Nat
      BY TypeStep, SyncAssumption DEF Types, TypeOK
    <3> QED
      BY <3>1, Progress
  <2>2. \A p \in accepted'[m] : p < pulses[m] => p \in accepted[m]
    BY <2>1
  <2> QED
    BY <2>1, <2>2 DEF Dropped
<1> QED
  BY <1>1 DEF DroppedByAny

\* The accounts of past results are closed.
LEMMA AccountsClosed ==
    ASSUME Types, Queues, Loop, Losses, [Next]_vars, NEW k \in 1 .. Len(synced),
           synced'[k] = synced[k], k > 1 => synced'[k - 1] = synced[k - 1]
    PROVE  /\ \A m \in Module : Cardinality(Discarded(m, k)') <= synced'[k].n_lost_pulses
           /\ synced'[k].n_lost_pulses <= Cardinality(UNION {Discarded(m, k)' : m \in Module})
<1>1. ASSUME NEW m \in Module
      PROVE  Discarded(m, k)' = Discarded(m, k)
  <2>1. synced[k].pulse_id <= LastResult /\ LastResult <= pulses[m]
    BY NotBehind DEF Losses
  <2>2. synced[k].pulse_id \in Nat /\ LastResult \in Nat /\ pulses[m] \in Nat
    <3>1. synced[k].pulse_id \in Nat
      BY ResultTypes DEF Types
    <3> QED
      BY <3>1, LastResultType, Numbers DEF Types
  <2>3. accepted'[m] \subseteq Nat
    BY TypeStep, SyncAssumption DEF Types, TypeOK
  <2>4. \A p \in accepted'[m] : p < synced[k].pulse_id => p \in accepted[m]
    BY <2>1, <2>2, <2>3, Progress
  <2>5. accepted[m] \subseteq accepted'[m]
    BY Progress
  <2> QED
    BY <2>4, <2>5 DEF Discarded
<1>2. {Discarded(m, k)' : m \in Module} = {Discarded(m, k) : m \in Module}
  BY <1>1
<1> QED
  BY <1>1, <1>2 DEF Losses, LostCounted

\* A result closes the account of what was discarded since the one before.
LEMMA LossesOfResult ==
    ASSUME Types, Queues, Loop, Losses, [Next]_vars, NEW last \in Nat, last = LastResult,
           NEW p \in Pulses, NEW n \in Nat, Return(p, n), Agreed(p), Counted(last, n)'
    PROVE  Losses'
<1>0. TypeOK /\ TypeOK' /\ \A q \in Pulses : q \in Nat /\ q > 0
  BY TypeStep, SyncAssumption DEF Types
<1>1. /\ LastResult' = p /\ pc' = "first"
      /\ synced' = Append(synced, [pulse_id |-> p, n_lost_pulses |-> n])
      /\ Len(synced) \in Nat /\ Len(synced') = Len(synced) + 1
      /\ \A i \in 1 .. Len(synced) : synced'[i] = synced[i]
      /\ synced'[Len(synced) + 1].pulse_id = p
  BY <1>0, Synchronised
<1>2. synced'[Len(synced) + 1].n_lost_pulses = n
  BY <1>0, <1>1 DEF TypeOK
<1>3. last < p /\ \A m \in Module : pulses'[m] = p
  BY ModulesFinite DEF Agreed
<1>4. \A m \in Module : Dropped(m, LastResult)' = {}
  <2>1. \A m \in Module : accepted'[m] \subseteq Nat
    BY <1>0 DEF TypeOK
  <2> QED
    BY <1>0, <1>1, <1>3, <2>1 DEF Dropped
<1>5. \A k \in 1 .. Len(synced') : synced'[k].pulse_id <= LastResult'
  <2>1. \A k \in 1 .. Len(synced) : synced[k].pulse_id \in Nat /\ synced[k].pulse_id <= last
    BY <1>0, ResultTypes DEF Losses
  <2> QED
    BY <1>0, <1>1, <1>3, <2>1
<1>k. PICK new \in Nat : new = Len(synced) + 1
  BY <1>1
<1>6. ASSUME NEW m \in Module
      PROVE  Discarded(m, new)' = Dropped(m, last)'
  <2>1. CASE Len(synced) = 0
    <3>1. last = 0 /\ \A q \in accepted'[m] : 0 < q
      BY <1>0, <2>1 DEF LastResult, TypeOK
    <3> QED
      BY <1>1, <1>3, <1>k, <2>1, <3>1 DEF Discarded, Dropped
  <2>2. CASE Len(synced) > 0
    <3>1. synced'[new - 1].pulse_id = last /\ new # 1
      <4>1. synced # <<>> /\ Len(synced) \in 1 .. Len(synced) /\ new - 1 = Len(synced)
        BY <1>1, <1>k, <2>2
      <4> QED
        BY <1>1, <1>k, <2>2, <4>1 DEF LastResult
    <3> QED
      BY <1>1, <1>3, <1>k, <3>1 DEF Discarded, Dropped
  <2> QED
    BY <1>1, <2>1, <2>2
<1>7. LostCounted'
  <2> SUFFICES ASSUME NEW k \in 1 .. Len(synced')
               PROVE  /\ \A m \in Module : Cardinality(Discarded(m, k)') <= synced'[k].n_lost_pulses
                      /\ synced'[k].n_lost_pulses <= Cardinality(UNION {Discarded(m, k)' : m \in Module})
    BY DEF LostCounted
  <2>1. CASE k \in 1 .. Len(synced)
    <3>1. k > 1 => k - 1 \in 1 .. Len(synced)
      BY <1>1, <2>1
    <3> QED
      BY <1>1, <2>1, <3>1, AccountsClosed
  <2>2. CASE k = new
    <3>1. {Discarded(m, k)' : m \in Module} = {Dropped(m, last)' : m \in Module}
      BY <1>6, <2>2
    <3> QED
      BY <1>2, <1>6, <1>k, <2>2, <3>1 DEF Counted, DroppedByAny
  <2> QED
    BY <1>1, <1>k, <2>1, <2>2
<1> QED
  BY <1>1, <1>4, <1>5, <1>7 DEF Losses

\* A read from a socket discards what was read from it before, unless that was the result.
LEMMA ReadDrops ==
    ASSUME Types, Queues, NEW m \in Module, zmq_recv(m), NEW last \in Nat
    PROVE  /\ \A n \in Module \ {m} : Dropped(n, last)' = Dropped(n, last)
           /\ last < pulses[m] => Dropped(m, last)' = Dropped(m, last) \union {pulses[m]}
           /\ pulses[m] = last => Dropped(m, last)' = {}
<1>1. /\ pulses[m] < pulses'[m] /\ pulses[m] \in Nat /\ pulses'[m] \in Nat
      /\ \A p \in accepted[m] : p \in Nat /\ (pulses[m] < p => pulses'[m] <= p)
      /\ \A n \in Module \ {m} : pulses'[n] = pulses[n]
      /\ accepted' = accepted
  <2>1. TypeOK /\ \A p \in accepted[m] : p \in Nat
    BY Numbers DEF Types
  <2> QED
    BY <2>1, Numbers, NextOfSocket
<1>2. \A n \in Module \ {m} : Dropped(n, last)' = Dropped(n, last)
  BY <1>1 DEF Dropped
<1>3. \A p \in accepted[m] : p < pulses'[m] <=> (p < pulses[m] \/ p = pulses[m])
  BY <1>1
<1>4. ASSUME last < pulses[m]
      PROVE  Dropped(m, last)' = Dropped(m, last) \union {pulses[m]}
  <2>1. pulses[m] \in accepted[m]
    BY <1>1, <1>4 DEF Queues, Queue
  <2> QED
    BY <1>1, <1>3, <1>4, <2>1 DEF Dropped
<1>5. ASSUME pulses[m] = last
      PROVE  Dropped(m, last)' = {}
  <2>1. \A p \in accepted[m] : ~(last < p /\ p < pulses'[m])
    BY <1>1, <1>3, <1>5
  <2> QED
    BY <1>1, <2>1 DEF Dropped
<1> QED
  BY <1>2, <1>4, <1>5

LEMMA LossesInit == Init => Losses
  BY DEF Init, Losses, LostCounted, Dropped

LEMMA LossesStep == Types /\ Queues /\ Loop /\ Losses /\ [Next]_vars => Losses'
<1> SUFFICES ASSUME Types, Queues, Loop, Losses, [Next]_vars
             PROVE  Losses'
  OBVIOUS
<1>l. PICK last \in Nat : last = LastResult
  BY LastResultType DEF Types
<1>0. /\ TypeOK /\ TypeOK' /\ last = LastResult
      /\ \A m \in Module : /\ pulses[m] \in Nat /\ lost[m] \in Nat
                           /\ Dropped(m, last) \in SUBSET Pulses
                           /\ Dropped(m, last) \in SUBSET DroppedByAny(last)
      /\ \A p \in Pulses : p \in Nat
      /\ DroppedByAny(last) \in SUBSET Pulses
      /\ n_lost_pulses \in Nat /\ max_pulse_id \in Nat
  <2>1. TypeOK /\ TypeOK'
    BY TypeStep DEF Types
  <2>2. /\ \A p \in Pulses : p \in Nat
        /\ n_lost_pulses \in Nat /\ max_pulse_id \in Nat /\ \A m \in Module : lost[m] \in Nat
    BY <2>1, SyncAssumption DEF TypeOK
  <2>3. \A m \in Module : pulses[m] \in Nat
    BY <2>1, Numbers
  <2>4. /\ \A m \in Module : /\ Dropped(m, last) \in SUBSET Pulses
                             /\ Dropped(m, last) \in SUBSET DroppedByAny(last)
        /\ DroppedByAny(last) \in SUBSET Pulses
    BY <2>1, DroppedPulses
  <2> QED
    BY <1>l, <2>1, <2>2, <2>3, <2>4
<1>1. ASSUME UNCHANGED synced
      PROVE  /\ LastResult' = last /\ LostCounted'
             /\ \A k \in 1 .. Len(synced') : synced'[k].pulse_id <= LastResult'
  <2>1. LastResult' = last
    BY <1>0, <1>1 DEF LastResult
  <2>2. LostCounted'
    BY <1>1, AccountsClosed DEF LostCounted
  <2> QED
    BY <1>0, <1>1, <2>1, <2>2 DEF Losses
<1>2. ASSUME UNCHANGED <<pc, pulses, max_pulse_id, lost, n_lost_pulses, synced>>
      PROVE  Losses'
  <2>1. /\ \A m \in Module : Dropped(m, last)' = Dropped(m, last)
        /\ DroppedByAny(last)' = DroppedByAny(last)
    BY <1>0, <1>2, DroppedStays
  <2>2. Counted(last, n_lost_pulses)' <=> Counted(last, n_lost_pulses)
    BY <1>2, <2>1 DEF Counted
  <2>3. \A m \in Module :
           Below(DroppedByAny(last), pulses[m])' = Below(DroppedByAny(last), pulses[m])
    BY <1>2, <2>1 DEF Below
  <2>4. CASE pc = "first"
    BY <1>0, <1>1, <1>2, <2>1, <2>4 DEF Losses
  <2>5. CASE pc = "round"
    BY <1>0, <1>1, <1>2, <2>1, <2>2, <2>5 DEF Losses
  <2>6. CASE pc = "drain"
    BY <1>0, <1>1, <1>2, <2>1, <2>3, <2>6 DEF Losses
  <2>7. CASE pc \notin {"first", "round", "drain"}
    BY <1>1, <1>2, <2>7 DEF Losses
  <2> QED
    BY <2>4, <2>5, <2>6, <2>7
<1>3. CASE UNCHANGED vars
  BY <1>2, <1>3 DEF vars, recvVars
<1>4. ASSUME NEW m \in Module, Announce(m)
      PROVE  Losses'
  BY <1>2, <1>4 DEF Announce, AnnouncePulse, recvVars
<1>5. CASE ReadFirst
  <2>1. pc = "first" /\ n_read \in Module /\ zmq_recv(n_read) /\ pulses[n_read] = last
    BY <1>0, <1>5, FirstPass DEF ReadFirst
  <2>2. \A m \in Module : Dropped(m, last)' = {}
    BY <1>0, <2>1, ReadDrops DEF Losses
  <2>3. DroppedByAny(last)' = {} /\ Cardinality({}) = 0
    BY <2>2, FS_EmptySet DEF DroppedByAny
  <2>4. Counted(last, 0)'
    BY <2>2, <2>3 DEF Counted
  <2>5. CASE n_read < NModules - 1
    BY <1>1, <1>5, <2>1, <2>2, <2>5 DEF ReadFirst, Losses
  <2>6. CASE ~(n_read < NModules - 1) /\ InSync(pulses')
    <3>1. PICK p \in Pulses : p = pulses'[0] /\ Return(p, 0) /\ Agreed(p)
      BY <1>5, <2>6, FirstAgreed
    <3> QED
      BY <1>0, <2>4, <3>1, LossesOfResult
  <2>7. CASE ~(n_read < NModules - 1) /\ ~InSync(pulses')
    <3>1. pc' = "round" /\ n_lost_pulses' = 0 /\ UNCHANGED synced
      BY <1>5, <2>7 DEF ReadFirst
    <3> QED
      BY <1>1, <2>2, <2>3, <2>4, <3>1 DEF Losses, Counted
  <2> QED
    BY <2>5, <2>6, <2>7
<1>6. CASE BeginRound
  <2>1. pc = "round" /\ UNCHANGED <<pulses, accepted, synced, n_lost_pulses>>
    BY <1>6 DEF BeginRound, sendVars
  <2>2. CASE pc' = "offset"
    BY <1>1, <2>1, <2>2 DEF Losses
  <2>3. CASE pc' = "drain" /\ max_pulse_id' = Max(Range(pulses)) /\ lost' = [m \in Module |-> 0]
    <3>1. /\ \A m \in Module : Dropped(m, last)' = Dropped(m, last)
          /\ DroppedByAny(last)' = DroppedByAny(last)
      BY <1>0, <2>1, DroppedStays
    <3>2. /\ \A m \in Module : Cardinality(Dropped(m, last)) <= n_lost_pulses
          /\ n_lost_pulses <= Cardinality(DroppedByAny(last))
          /\ \A m \in Module : \A p \in DroppedByAny(last) : p < pulses[m]
      BY <1>0, <2>1 DEF Losses, Counted
    <3>3. \A m \in Module : Below(DroppedByAny(last), pulses[m]) = DroppedByAny(last)
      BY <3>2 DEF Below
    <3>4. \A p \in DroppedByAny(last) : p < max_pulse_id'
      <4>1. 0 \in Module /\ pulses \in [Module -> Nat]
        BY <1>0, ModulesFinite DEF TypeOK
      <4>2. pulses[0] <= max_pulse_id' /\ max_pulse_id' \in Nat
        BY <2>3, <4>1, MaxOfFunction DEF Range
      <4> QED
        BY <1>0, <3>2, <4>1, <4>2
    <3>5. \A m \in Module : lost'[m] = 0 /\ n_lost_pulses' + lost'[m] = n_lost_pulses
      BY <1>0, <2>1, <2>3
    <3>6. \A m \in Module : Below(DroppedByAny(last), pulses[m])' = DroppedByAny(last)
      BY <2>1, <3>1, <3>3 DEF Below
    <3> QED
      BY <1>1, <2>1, <2>3, <3>1, <3>2, <3>4, <3>5, <3>6 DEF Losses
  <2> QED
    BY <1>6, <2>2, <2>3 DEF BeginRound
<1>7. CASE Drain
  <2>1. PICK m \in Module : /\ pulses[m] < max_pulse_id
                            /\ zmq_recv(m) /\ lost' = [lost EXCEPT ![m] = @ + 1]
    BY <1>7, FirstBehind DEF Drain
  <2>2. pc = "drain" /\ UNCHANGED <<pc, max_pulse_id, n_lost_pulses, synced>> /\ last < pulses[m]
    BY <1>0, <1>7 DEF Drain, Loop
  <2>3. PICK v \in Nat : v = pulses[m]
    BY <1>0
  <2>4. /\ \A n \in Module \ {m} : Dropped(n, last)' = Dropped(n, last)
        /\ Dropped(m, last)' = Dropped(m, last) \union {v}
    BY <2>1, <2>2, <2>3, ReadDrops
  <2>5. DroppedByAny(last)' = DroppedByAny(last) \union {v}
    BY <2>4 DEF DroppedByAny
  <2>6. /\ v \in Pulses /\ v \notin Dropped(m, last) /\ v < max_pulse_id
        /\ v < pulses'[m] /\ pulses'[m] \in Nat
        /\ \A n \in Module \ {m} : pulses'[n] = pulses[n]
    <3>1. v \in Pulses
      BY <2>2, <2>3 DEF Types
    <3>2. v \notin Dropped(m, last)
      BY <2>3 DEF Dropped
    <3> QED
      BY <1>0, <2>1, <2>3, <3>1, <3>2, NextOfSocket
  <2>7. \A n \in Module : /\ Cardinality(Dropped(n, last)) <= n_lost_pulses + lost[n]
                          /\ n_lost_pulses + lost[n] <= Cardinality(Below(DroppedByAny(last), pulses[n]))
                          /\ \A p \in DroppedByAny(last) : p < max_pulse_id
    BY <1>0, <2>2 DEF Losses
  <2>8. lost'[m] = lost[m] + 1 /\ \A n \in Module \ {m} : lost'[n] = lost[n]
    BY <1>0, <2>1 DEF TypeOK
  <2>9. \A p \in DroppedByAny(last)' : p < max_pulse_id'
    BY <2>2, <2>5, <2>6, <2>7
  <2>10. ASSUME NEW n \in Module
         PROVE  /\ Cardinality(Dropped(n, last)') <= n_lost_pulses' + lost'[n]
                /\ n_lost_pulses' + lost'[n] <= Cardinality(Below(DroppedByAny(last), pulses[n])')
    <3> DEFINE S == Below(DroppedByAny(last), pulses[n])
               T == Below(DroppedByAny(last), pulses[n])'
    <3>1. CASE n # m
      <4>1. S \in SUBSET T /\ T \in SUBSET Pulses
        BY <1>0, <2>5, <2>6, <3>1 DEF Below
      <4> HIDE DEF S, T
      <4>2. Cardinality(S) <= Cardinality(T) /\ Cardinality(S) \in Nat /\ Cardinality(T) \in Nat
        BY <4>1, Countable
      <4>3. n_lost_pulses + lost[n] <= Cardinality(S)
        BY <2>7 DEF S
      <4>4. n_lost_pulses + lost[n] <= Cardinality(T)
        BY <1>0, <4>2, <4>3
      <4> QED
        BY <2>2, <2>4, <2>7, <2>8, <3>1, <4>4 DEF T
    <3>2. CASE n = m
      <4>1. S \in SUBSET Pulses /\ T \in SUBSET Pulses /\ v \notin S /\ S \union {v} \in SUBSET T
        <5>1. S = {p \in DroppedByAny(last) : p < v}
          BY <2>3, <3>2 DEF Below
        <5>2. T = {p \in DroppedByAny(last) \union {v} : p < pulses'[m]}
          BY <2>5, <3>2 DEF Below
        <5>3. \A p \in DroppedByAny(last) : p < v => p < pulses'[m]
          <6>1. \A p \in DroppedByAny(last) : p \in Nat
            BY <1>0
          <6>2. v < pulses'[m] /\ pulses'[m] \in Nat
            BY <2>6
          <6> QED
            BY <6>1, <6>2
        <5> HIDE DEF S, T
        <5> QED
          BY <1>0, <2>6, <5>1, <5>2, <5>3
      <4>2. n_lost_pulses + lost[n] <= Cardinality(S)
        BY <2>7
      <4> HIDE DEF S, T
      <4>3. IsFiniteSet(S) /\ Cardinality(S) \in Nat
        BY <4>1, Countable
      <4>4. Cardinality(S \union {v}) = Cardinality(S) + 1
        BY <4>1, <4>3, FS_AddElement
      <4>5. Cardinality(S \union {v}) <= Cardinality(T) /\ Cardinality(T) \in Nat
        BY <4>1, Countable
      <4>6. n_lost_pulses + (lost[n] + 1) <= Cardinality(T)
        BY <1>0, <4>2, <4>3, <4>4, <4>5
      <4>7. /\ IsFiniteSet(Dropped(n, last)) /\ Cardinality(Dropped(n, last)) \in Nat
        BY <1>0, Countable
      <4>8. Cardinality(Dropped(n, last) \union {v}) = Cardinality(Dropped(n, last)) + 1
        BY <2>6, <3>2, <4>7, FS_AddElement
      <4>9. Cardinality(Dropped(n, last) \union {v}) <= n_lost_pulses + (lost[n] + 1)
        BY <1>0, <2>7, <4>7, <4>8
      <4> QED
        BY <2>2, <2>4, <2>8, <3>2, <4>6, <4>9 DEF T
    <3> QED
      BY <3>1, <3>2
  <2> QED
    BY <1>1, <2>2, <2>9, <2>10 DEF Losses
<1>8. CASE EndRound
  <2>1. /\ pc = "drain" /\ Behind = {} /\ UNCHANGED <<pulses, accepted, lost>>
        /\ n_lost_pulses' = n_lost_pulses + Max(Range(lost))
    BY <1>8 DEF EndRound, sendVars
  <2>2. /\ \A m \in Module : Dropped(m, last)' = Dropped(m, last)
        /\ DroppedByAny(last)' = DroppedByAny(last)
    BY <1>0, <2>1, DroppedStays
  <2>3. \A m \in Module : /\ Cardinality(Dropped(m, last)) <= n_lost_pulses + lost[m]
                          /\ n_lost_pulses + lost[m] <= Cardinality(Below(DroppedByAny(last), pulses[m]))
                          /\ \A p \in DroppedByAny(last) : p < max_pulse_id
    BY <1>0, <2>1 DEF Losses
  <2>4. \A m \in Module : \A p \in DroppedByAny(last) : p < pulses[m]
    <3>1. \A m \in Module : max_pulse_id <= pulses[m]
      BY <1>0, <2>1 DEF Behind
    <3> QED
      BY <1>0, <2>3, <3>1
  <2>5. PICK n \in Nat : n = n_lost_pulses'
    BY <1>0 DEF TypeOK
  <2>6. Counted(last, n)'
    <3>1. lost \in [Module -> Nat]
      BY <1>0 DEF TypeOK
    <3>2. PICK k \in Module : lost[k] = Max(Range(lost))
      BY <3>1, MaxOfFunction DEF Range
    <3>3. n = n_lost_pulses + lost[k] /\ \A m \in Module : lost[m] <= lost[k]
      BY <2>1, <2>5, <3>1, <3>2, MaxOfFunction
    <3>4. ASSUME NEW m \in Module
          PROVE  Cardinality(Dropped(m, last)) <= n
      <4>1. Cardinality(Dropped(m, last)) \in Nat
        BY <1>0, Countable
      <4> QED
        BY <1>0, <2>3, <3>3, <4>1
    <3>5. n <= Cardinality(DroppedByAny(last))
      <4>1. Below(DroppedByAny(last), pulses[k]) \in SUBSET DroppedByAny(last)
        BY DEF Below
      <4>2. /\ Cardinality(Below(DroppedByAny(last), pulses[k])) <= Cardinality(DroppedByAny(last))
            /\ Cardinality(Below(DroppedByAny(last), pulses[k])) \in Nat
            /\ Cardinality(DroppedByAny(last)) \in Nat
        BY <1>0, <4>1, Countable
      <4> QED
        BY <2>3, <3>3, <4>2
    <3> QED
      BY <2>2, <3>4, <3>5 DEF Counted
  <2>7. CASE InSync(pulses)
    <3>1. PICK p \in Pulses : p = pulses[0] /\ Return(p, n) /\ Agreed(p)
      BY <1>8, <2>5, <2>7, RoundAgreed
    <3> QED
      BY <1>0, <2>6, <3>1, LossesOfResult
  <2>8. CASE ~InSync(pulses)
    <3>1. pc' \in {"round", "retries"} /\ UNCHANGED synced
      BY <1>8, <2>8 DEF EndRound
    <3>2. /\ \A m \in Module : Cardinality(Dropped(m, last)') <= n_lost_pulses'
          /\ n_lost_pulses' <= Cardinality(DroppedByAny(last)')
      BY <2>5, <2>6 DEF Counted
    <3>3. \A m \in Module : \A p \in DroppedByAny(last)' : p < pulses'[m]
      BY <2>1, <2>2, <2>4
    <3> QED
      BY <1>1, <3>1, <3>2, <3>3 DEF Losses, Counted
  <2> QED
    BY <2>7, <2>8
<1> QED
  BY <1>3, <1>4, <1>5, <1>6, <1>7, <1>8 DEF Next, Receiver

\* What was discarded is counted.
THEOREM LossesKept == Spec => []Losses
  BY LossesInit, LossesStep, TypesKept, LoopKept, PTL DEF Spec

\* The count that comes with a result is no less than what any one module's announcements
\* lost, and no more than all of them together (LostCounted), whatever the rounds were.
THEOREM LossesAccounted == Spec => []LostCounted
<1>1. Losses => LostCounted
  BY DEF Losses
<1> QED
  BY <1>1, LossesKept, PTL
=============================================================================
