------------------------ MODULE ZmqPulseSyncReceiver ------------------------
(***************************************************************************)
(* The front of jf_assembler: every module receiver announces the pulse    *)
(* ids it has stored on a PUB socket of its own; get_next_pulse_id reads   *)
(* one announcement per module and discards announcements of modules that  *)
(* are behind until all modules name the same pulse.                       *)
(*                                                                         *)
(* A step is one zmq_recv, with the tests that follow it before the next,  *)
(* or the announcement of one pulse by one module.                         *)
(***************************************************************************)
EXTENDS Naturals, FiniteSets, Sequences, FiniteSetsExt, Functions

CONSTANTS
    NModules,             \* modules of the detector
    Pulses,               \* the pulse ids of the detector
    HWM,                  \* announcements a SUB socket keeps (BUFFER_ZMQ_RCVHWM)
    PULSE_OFFSET_LIMIT,
    SYNC_RETRY_LIMIT

ASSUME SyncAssumption ==
    /\ NModules \in Nat \ {0}
    /\ Pulses \subseteq Nat \ {0} /\ IsFiniteSet(Pulses)
    /\ HWM \in Nat \ {0}
    /\ PULSE_OFFSET_LIMIT \in Nat
    /\ SYNC_RETRY_LIMIT \in Nat \ {0}

Module == 0 .. NModules - 1

VARIABLES
    announced,   \* the last pulse each module announced, 0 if none
    queue,       \* what waits in each SUB socket
    accepted,    \* history: the pulses that got into each queue
    pc,          \* the place in get_next_pulse_id
    pulses,      \* pulses[]: the last pulse read from each socket
    n_read,      \* first pass: sockets already read
    i_sync,      \* resynchronisation rounds begun
    max_pulse_id,
    lost,        \* announcements discarded in this round, per module
    n_lost_pulses,
    synced       \* history: the results returned so far

recvVars == <<pc, pulses, n_read, i_sync, max_pulse_id, lost, n_lost_pulses, synced>>
sendVars == <<announced, queue, accepted>>
vars     == <<sendVars, recvVars>>

Init ==
    /\ announced = [m \in Module |-> 0]
    /\ queue     = [m \in Module |-> <<>>]
    /\ accepted  = [m \in Module |-> {}]
    /\ pc = "first"
    /\ pulses = [m \in Module |-> 0]
    /\ n_read = 0
    /\ i_sync = 0
    /\ max_pulse_id = 0
    /\ lost = [m \in Module |-> 0]
    /\ n_lost_pulses = 0
    /\ synced = <<>>

-----------------------------------------------------------------------------
(* The senders: zmq_send in the receivers' main loop.                       *)

\* A PUB socket drops what does not fit.
AnnouncePulse(m, p) ==
    /\ announced' = [announced EXCEPT ![m] = p]
    /\ IF Len(queue[m]) < HWM
       THEN /\ queue' = [queue EXCEPT ![m] = Append(@, p)]
            /\ accepted' = [accepted EXCEPT ![m] = @ \union {p}]
       ELSE UNCHANGED <<queue, accepted>>
    /\ UNCHANGED recvVars

\* A module announces a later pulse than its last one; it may have missed some.
Announce(m) == \E p \in Pulses : p > announced[m] /\ AnnouncePulse(m, p)

-----------------------------------------------------------------------------
(* get_next_pulse_id()                                                      *)

zmq_recv(m) ==
    /\ queue[m] # <<>>
    /\ pulses' = [pulses EXCEPT ![m] = Head(queue[m])]
    /\ queue' = [queue EXCEPT ![m] = Tail(@)]
    /\ UNCHANGED <<announced, accepted>>

InSync(ps) == \A m, n \in Module : ps[m] = ps[n]

\* Fault: announcements of the target pulse are discarded as well.
BehindOrAt == {m \in Module : pulses[m] <= max_pulse_id}

Behind == {m \in Module : pulses[m] < max_pulse_id}

\* The result goes to the caller, who calls again.
Return(pulse_id, n_lost) ==
    /\ synced' = Append(synced, [pulse_id |-> pulse_id, n_lost_pulses |-> n_lost])
    /\ pc' = "first"
    /\ n_read' = 0

\* Fault: the first pass is taken for synchronised without a comparison.
ReadFirstOnly ==
    /\ pc = "first"
    /\ zmq_recv(n_read)
    /\ IF n_read < NModules - 1
       THEN n_read' = n_read + 1 /\ UNCHANGED <<pc, synced>>
       ELSE Return(pulses'[0], 0)
    /\ UNCHANGED <<i_sync, n_lost_pulses, max_pulse_id, lost>>

\* One announcement from every socket, in turn.
ReadFirst ==
    /\ pc = "first"
    /\ zmq_recv(n_read)
    /\ IF n_read < NModules - 1
       THEN n_read' = n_read + 1 /\ UNCHANGED <<pc, synced, i_sync, n_lost_pulses>>
       ELSE IF InSync(pulses')
            THEN Return(pulses'[0], 0) /\ UNCHANGED <<i_sync, n_lost_pulses>>
            ELSE /\ pc' = "round" /\ i_sync' = 0 /\ n_lost_pulses' = 0
                 /\ UNCHANGED <<n_read, synced>>
    /\ UNCHANGED <<max_pulse_id, lost>>

\* Fault: the first module's pulse is the target.
BeginRoundAtFirst ==
    /\ pc = "round"
    /\ pc' = "drain"
    /\ max_pulse_id' = pulses[0]
    /\ lost' = [m \in Module |-> 0]
    /\ i_sync' = i_sync + 1
    /\ UNCHANGED <<sendVars, pulses, n_read, n_lost_pulses, synced>>

\* A round begins: the largest pulse is the target, unless the modules are too far
\* apart, which ends the process.
BeginRound ==
    LET max == Max(Range(pulses))
        min == Min(Range(pulses))
    IN
    /\ pc = "round"
    /\ IF max - min > PULSE_OFFSET_LIMIT
       THEN pc' = "offset" /\ UNCHANGED <<max_pulse_id, lost, i_sync>>
       ELSE /\ pc' = "drain"
            /\ max_pulse_id' = max
            /\ lost' = [m \in Module |-> 0]
            /\ i_sync' = i_sync + 1
    /\ UNCHANGED <<sendVars, pulses, n_read, n_lost_pulses, synced>>

\* The modules behind the target are read, the lower-numbered ones first.
Drain ==
    /\ pc = "drain" /\ Behind # {}
    /\ LET m == Min(Behind) IN
       /\ zmq_recv(m)
       /\ lost' = [lost EXCEPT ![m] = @ + 1]
    /\ UNCHANGED <<pc, n_read, i_sync, max_pulse_id, n_lost_pulses, synced>>

\* Faults: a round always ends in a result, ...
EndRoundUnsynced ==
    /\ pc = "drain" /\ Behind = {}
    /\ n_lost_pulses' = n_lost_pulses + Max(Range(lost))
    /\ Return(pulses[0], n_lost_pulses')
    /\ UNCHANGED <<sendVars, pulses, i_sync, max_pulse_id, lost>>

\* ... the count is that of the last round, or there is no second round.
EndRoundLastCount ==
    /\ pc = "drain" /\ Behind = {}
    /\ n_lost_pulses' = Max(Range(lost))
    /\ IF InSync(pulses)
       THEN Return(pulses[0], n_lost_pulses')
       ELSE /\ pc' = IF i_sync = SYNC_RETRY_LIMIT THEN "retries" ELSE "round"
            /\ UNCHANGED <<n_read, synced>>
    /\ UNCHANGED <<sendVars, pulses, i_sync, max_pulse_id, lost>>
EndRoundNoRetry ==
    /\ pc = "drain" /\ Behind = {}
    /\ n_lost_pulses' = n_lost_pulses + Max(Range(lost))
    /\ InSync(pulses) /\ Return(pulses[0], n_lost_pulses')
    /\ UNCHANGED <<sendVars, pulses, i_sync, max_pulse_id, lost>>

\* The round ends: done if nobody went past the target, else another round until
\* there were SYNC_RETRY_LIMIT of them, which ends the process.
EndRound ==
    /\ pc = "drain" /\ Behind = {}
    /\ n_lost_pulses' = n_lost_pulses + Max(Range(lost))
    /\ IF InSync(pulses)
       THEN Return(pulses[0], n_lost_pulses')
       ELSE /\ pc' = IF i_sync = SYNC_RETRY_LIMIT THEN "retries" ELSE "round"
            /\ UNCHANGED <<n_read, synced>>
    /\ UNCHANGED <<sendVars, pulses, i_sync, max_pulse_id, lost>>

Receiver == ReadFirst \/ BeginRound \/ Drain \/ EndRound

Dead == pc \in {"offset", "retries"}

Next == (\E m \in Module : Announce(m)) \/ Receiver

Spec == Init /\ [][Next]_vars

\* The assembler runs whenever it has something to do; detectors may stop.
FairSpec == Spec /\ WF_vars(Receiver)

-----------------------------------------------------------------------------
(* Properties. *)

TypeOK ==
    /\ announced \in [Module -> Pulses \union {0}]
    /\ queue \in [Module -> Seq(Pulses)] /\ \A m \in Module : Len(queue[m]) <= HWM
    /\ accepted \in [Module -> SUBSET Pulses]
    /\ pc \in {"first", "round", "drain", "offset", "retries"}
    /\ pulses \in [Module -> Pulses \union {0}]
    /\ n_read \in Module
    /\ i_sync \in 0 .. SYNC_RETRY_LIMIT
    /\ max_pulse_id \in Pulses \union {0}
    /\ lost \in [Module -> Nat] /\ n_lost_pulses \in Nat
    /\ synced \in Seq([pulse_id : Pulses, n_lost_pulses : Nat])

Result(p) == \E k \in 1 .. Len(synced) : synced[k].pulse_id = p
LastResult == IF synced = <<>> THEN 0 ELSE synced[Len(synced)].pulse_id

\* The pulses every module has announced successfully.
Common == {p \in Pulses : \A m \in Module : p \in accepted[m]}

\* The results are pulses that all modules have announced, in increasing order: no
\* image is assembled twice, and none for which a module's announcement is missing.
ResultsCommonAndIncreasing ==
    \A k \in 1 .. Len(synced) :
        /\ synced[k].pulse_id \in Common
        /\ k > 1 => synced[k - 1].pulse_id < synced[k].pulse_id

\* Discarding never goes too far: a pulse all modules announced is returned before
\* any later one, and is never read past while the process lives or when it gives up.
NoCommonPulseSkipped ==
    \A p \in Common :
        \/ Result(p)
        \/ \A m \in Module : p > LastResult /\ (p >= pulses[m] \/ pulses[m] <= LastResult)

\* The retry limit is a verdict on the modules, not on the order of messages: when
\* it is reached, that many pulses since the last result have been announced by some
\* module and not by all.
RetriesJustified ==
    pc = "retries" =>
        Cardinality({p \in (UNION {accepted[m] : m \in Module}) \ Common :
                        LastResult < p /\ p <= Max(Range(pulses))}) >= SYNC_RETRY_LIMIT

\* n_lost_pulses: a module's announcements that were discarded since the previous
\* result were counted, whichever rounds they fell into.
Discarded(m, k) ==
    {p \in accepted[m] : /\ p < synced[k].pulse_id
                         /\ IF k = 1 THEN TRUE ELSE p > synced[k - 1].pulse_id}
LostCounted ==
    \A k \in 1 .. Len(synced) :
        /\ \A m \in Module : Cardinality(Discarded(m, k)) <= synced[k].n_lost_pulses
        /\ synced[k].n_lost_pulses <= Cardinality(UNION {Discarded(m, k) : m \in Module})

\* Synchronisation is reached: a pulse that all modules announced becomes an image,
\* unless the process has found the modules too far apart.
CommonPulseReturned == \A p \in Pulses : p \in Common ~> (Result(p) \/ Dead)
=============================================================================
