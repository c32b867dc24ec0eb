------------------------------ MODULE LiveWriter ------------------------------
(***************************************************************************)
(* jf_live_writer: n_writers MPI processes that run the same loop over the *)
(* store stream and share one parallel HDF5 file.  Nothing but the stream  *)
(* tells a rank what to do, and yet creating and closing the file are      *)
(* collective: every rank has to come to the same call.                    *)
(*                                                                         *)
(* The stream is PUB/SUB: a rank that does not keep up loses messages, and *)
(* each rank may lose others.                                              *)
(*                                                                         *)
(* The writer agent, which publishes the stream, and MPI and HDF5, which   *)
(* make a collective call a barrier, are external.  A collective call in   *)
(* which the ranks disagree is taken to hang.                              *)
(***************************************************************************)
EXTENDS Integers, Sequences, FiniteSets, SequencesExt

CONSTANTS
    n_writers,
    NRuns,          \* bound: the runs of the agent
    RunLengths,     \* what n_images may be
    MaxQueue,       \* BUFFER_ZMQ_RCVHWM, the messages that wait for a rank
    DivisionTraps   \* outcomes of an integer division by 0: does it kill the process

Rank == 0 .. n_writers - 1
Run  == 1 .. NRuns
NO_RUN_ID == -1

ASSUME LiveWriterAssumption ==
    /\ n_writers \in Nat \ {0} /\ NRuns \in Nat \ {0} /\ MaxQueue \in Nat \ {0}
    /\ RunLengths \subseteq Nat \ {0}
    /\ DivisionTraps \subseteq BOOLEAN

StoreStream == [run_id : Run, i_image : Nat, n_images : RunLengths]

VARIABLES
    sent,            \* the store stream so far
    queue,           \* rank -> messages that wait in its SUB socket
    lost,            \* history: first and last messages of runs that found a full queue
    pc,              \* rank -> where it is
    meta,            \* rank -> the message it handles
    current_run_id_,
    file_id_,        \* rank -> the run whose file it has open, or NO_RUN_ID
    image_counter_,  \* rank -> images written since the last end_run()
    data,            \* the images in the files
    metadata,        \* the images whose metadata is in the files
    closed           \* the runs whose file was closed

agentVars  == <<sent, queue, lost>>
writerVars == <<current_run_id_, file_id_>>
outVars    == <<data, metadata, closed>>
vars == <<agentVars, pc, meta, writerVars, image_counter_, outVars>>

Init ==
    /\ sent = <<>>
    /\ queue = [r \in Rank |-> <<>>]
    /\ lost = {}
    /\ pc = [r \in Rank |-> "recv"]
    /\ meta = [r \in Rank |-> <<>>]
    /\ current_run_id_ = [r \in Rank |-> NO_RUN_ID]
    /\ file_id_ = [r \in Rank |-> NO_RUN_ID]
    /\ image_counter_ = [r \in Rank |-> 0]
    /\ data = {} /\ metadata = {} /\ closed = {}

-----------------------------------------------------------------------------
(* The writer agent.                                                        *)

Whole(m) == m.i_image + 1 = m.n_images

\* The agent goes on with the run or, at any time, begins the next one.
NextMessages ==
    LET n   == Len(sent)
        run == IF n = 0 THEN 0 ELSE sent[n].run_id IN
    (IF n > 0 /\ ~Whole(sent[n]) THEN {[sent[n] EXCEPT !.i_image = @ + 1]} ELSE {})
    \cup {[run_id |-> run + 1, i_image |-> 0, n_images |-> k] :
             k \in {l \in RunLengths : run < NRuns}}

\* The agent waits for nobody: a rank whose queue is full does not get the message.
Publish ==
    \E m \in NextMessages :
        LET full == {r \in Rank : Len(queue[r]) = MaxQueue} IN
        /\ sent' = Append(sent, m)
        /\ queue' = [r \in Rank |-> IF r \in full THEN queue[r] ELSE Append(queue[r], m)]
        /\ lost' = lost \cup {<<r, m>> : r \in IF m.i_image = 0 \/ Whole(m) THEN full ELSE {}}
        /\ UNCHANGED <<pc, meta, writerVars, image_counter_, outVars>>

-----------------------------------------------------------------------------
(* A rank.                                                                  *)

\* main() asks MPI_Comm_size for the number of writers and for the rank as well.
i_writer(r) == n_writers

\* Fault: the file is left for the first rank to close.
CloseFirstOnly(r, next) == IF file_id_[r] = NO_RUN_ID \/ r # 0 THEN next ELSE "H5Fclose"

\* The call of close_file() that a rank without an open file skips.
CloseFile(r, next) == IF file_id_[r] = NO_RUN_ID THEN next ELSE "H5Fclose"

\* A new run closes what is open before it creates its file.
Recv(r) ==
    /\ pc[r] = "recv" /\ queue[r] # <<>>
    /\ meta' = [meta EXCEPT ![r] = Head(queue[r])]
    /\ queue' = [queue EXCEPT ![r] = Tail(@)]
    /\ pc' = [pc EXCEPT ![r] = IF meta'[r].i_image = 0 THEN CloseFile(r, "H5Fcreate") ELSE "image"]
    /\ UNCHANGED <<sent, lost, writerVars, image_counter_, outVars>>

\* Every rank is in the call, for the same file.
AllIn(call, file) == \A r, s \in Rank : pc[r] = call /\ file[r] = file[s]

RunOf(r) == meta[r].run_id

open_file ==
    /\ AllIn("H5Fcreate", [r \in Rank |-> RunOf(r)])
    /\ file_id_' = [r \in Rank |-> RunOf(r)]
    /\ current_run_id_' = [r \in Rank |-> RunOf(r)]
    /\ pc' = [r \in Rank |-> "image"]
    /\ UNCHANGED <<agentVars, meta, image_counter_, outVars>>

\* Fault: a file once closed keeps its run.
CloseKeepsRun ==
    /\ \A r, s \in Rank : pc[r] = "H5Fclose" /\ file_id_[r] = file_id_[s]
    /\ closed' = closed \cup {file_id_[r] : r \in Rank}
    /\ file_id_' = [r \in Rank |-> NO_RUN_ID]
    /\ pc' = [r \in Rank |-> IF meta[r].i_image = 0 /\ current_run_id_[r] # RunOf(r)
                             THEN "H5Fcreate" ELSE "end_run"]
    /\ UNCHANGED <<agentVars, meta, current_run_id_, image_counter_, data, metadata>>

\* close_run(), at the end of a run or from open_run().
close_file ==
    /\ AllIn("H5Fclose", file_id_)
    /\ closed' = closed \cup {file_id_[r] : r \in Rank}
    /\ file_id_' = [r \in Rank |-> NO_RUN_ID]
    /\ current_run_id_' = [r \in Rank |-> NO_RUN_ID]
    /\ pc' = [r \in Rank |-> IF meta[r].i_image = 0 /\ current_run_id_[r] # RunOf(r)
                             THEN "H5Fcreate" ELSE "end_run"]
    /\ UNCHANGED <<agentVars, meta, image_counter_, data, metadata>>

Mine(r)      == meta[r].i_image % n_writers = i_writer(r)
MetaMine(r)  == i_writer(r) = 0
InvalidRun(r) == RunOf(r) # current_run_id_[r]

\* Fault: the image before the last one is taken for the last.
LastIsNext(m) == m.i_image + 2 >= m.n_images

\* Fault: the last image is looked for behind the end.
LastIsPast(m) == m.i_image = m.n_images

LastImage(m) == m.i_image + 1 = m.n_images

\* write_data() and write_meta() of a run that is not open throw; nothing catches it.
HandleImage(r) ==
    LET image == <<RunOf(r), meta[r].i_image>> IN
    /\ pc[r] = "image"
    /\ IF (Mine(r) \/ MetaMine(r)) /\ InvalidRun(r)
       THEN /\ pc' = [pc EXCEPT ![r] = "dead"]
            /\ UNCHANGED <<data, metadata, image_counter_>>
       ELSE /\ data' = IF Mine(r) THEN data \cup {image} ELSE data
            /\ metadata' = IF MetaMine(r) THEN metadata \cup {image} ELSE metadata
            /\ image_counter_' = [image_counter_ EXCEPT ![r] = IF Mine(r) THEN @ + 1 ELSE @]
            /\ pc' = [pc EXCEPT ![r] =
                         IF LastImage(meta[r]) THEN CloseFile(r, "end_run") ELSE "recv"]
    /\ UNCHANGED <<agentVars, meta, writerVars, closed>>

\* WriterStats::print_stats() divides by image_counter_.
EndRun(r) ==
    /\ pc[r] = "end_run"
    /\ \E traps \in DivisionTraps :
          pc' = [pc EXCEPT ![r] = IF image_counter_[r] = 0 /\ traps THEN "dead" ELSE "recv"]
    /\ image_counter_' = [image_counter_ EXCEPT ![r] = 0]
    /\ UNCHANGED <<agentVars, meta, writerVars, outVars>>

Step(r) == Recv(r) \/ HandleImage(r) \/ EndRun(r)

Next == Publish \/ open_file \/ close_file \/ (\E r \in Rank : Step(r))

Spec == Init /\ [][Next]_vars

\* A rank that is not in a blocking call runs on, and a collective call in which
\* all ranks are returns.  The agent owes nobody a message.
FairSpec == /\ Spec
            /\ WF_vars(open_file) /\ WF_vars(close_file)
            /\ \A r \in Rank : WF_vars(Step(r))

-----------------------------------------------------------------------------
(* Properties. *)

TypeOK ==
    /\ sent \in Seq(StoreStream)
    /\ \A r \in Rank : queue[r] \in Seq(StoreStream) /\ Len(queue[r]) <= MaxQueue
    /\ pc \in [Rank -> {"recv", "image", "H5Fcreate", "H5Fclose", "end_run", "dead"}]
    /\ \A r \in Rank : meta[r] \in StoreStream \cup {<<>>}
    /\ file_id_ \in [Rank -> Run \cup {NO_RUN_ID}]
    /\ current_run_id_ = file_id_
    /\ image_counter_ \in [Rank -> Nat]
    /\ closed \subseteq Run

Sent(run, i) == \E k \in 1 .. Len(sent) : sent[k].run_id = run /\ sent[k].i_image = i

\* The run was published to its last image.
WhollySent(run) == \E k \in 1 .. Len(sent) : sent[k].run_id = run /\ Whole(sent[k])

Superseded(run) == Sent(run + 1, 0)

\* The ranks that lost the first message of the run, or its last one.
LostFirst(run) == {r \in Rank : \E l \in lost : l[1] = r /\ l[2].run_id = run /\ l[2].i_image = 0}
LostLast(run)  == {r \in Rank : \E l \in lost : l[1] = r /\ l[2].run_id = run /\ Whole(l[2])}

\* A rank is past image i of the run: it handles, or has handled, a later message or,
\* being at the message of that image, only has to close the run.
Past(r, run, i) ==
    /\ meta[r] # <<>>
    /\ \/ RunOf(r) > run
       \/ RunOf(r) = run /\ meta[r].i_image > i
       \/ RunOf(r) = run /\ meta[r].i_image = i /\ pc[r] \notin {"H5Fcreate", "image"}

\* The ranks never talk to each other, and yet the shared file is closed only when
\* every rank is past every image of the run that was published (README.md: what to
\* do is based on the metadata alone).
ClosedAfterImages ==
    \A run \in closed : \A k \in 1 .. Len(sent) :
        sent[k].run_id = run => \A r \in Rank : Past(r, run, sent[k].i_image)

\* Ranks that wait in collective calls wait in the same one, for the same file: no two
\* of them can wait for each other, although none knows where the others are, and
\* whatever messages each of them lost, as long as the first message of every run
\* reached all of them or none.
WaitsFor(r) == <<pc[r], IF pc[r] = "H5Fclose" THEN file_id_[r] ELSE RunOf(r)>>
CollectivesMatch ==
    (\A run \in Run : LostFirst(run) \in {{}, Rank}) =>
        \A r, s \in {q \in Rank : pc[q] \in {"H5Fcreate", "H5Fclose"}} : WaitsFor(r) = WaitsFor(s)

\* A run that was published to its end, or given up for the next one, is closed by all
\* ranks, whatever the order they work in, unless a division killed one of them or the
\* first message of a run was lost; without the last message of a run, its file is
\* closed by the first of the next.
RunsClosed ==
    \A run \in Run :
        ((WhollySent(run) /\ LostLast(run) = {}) \/ Superseded(run)) ~>
            \/ run \in closed
            \/ \E r \in Rank : pc[r] = "dead"
            \/ \E first \in Run : LostFirst(first) # {}
=============================================================================
