-------------------------- MODULE LiveWriter_proofs --------------------------
(***************************************************************************)
(* The parallel writer for any number of ranks, runs and images and any    *)
(* length of the queues: its types, that the shared file is closed behind  *)
(* all images, and that ranks that wait in collective calls wait in the    *)
(* same one.                                                               *)
(***************************************************************************)
EXTENDS LiveWriter, TLAPS

\* The order of the store stream.
Before(a, b) == a.run_id < b.run_id \/ (a.run_id = b.run_id /\ a.i_image < b.i_image)

IsSent(m) == \E k \in 1 .. Len(sent) : sent[k] = m

\* The stream is in order, and the messages of a run agree on its length.
Stream ==
    /\ \A j, k \in 1 .. Len(sent) : j < k => Before(sent[j], sent[k])
    /\ \A j, k \in 1 .. Len(sent) : sent[j].run_id = sent[k].run_id => sent[j].n_images = sent[k].n_images
    /\ \A k \in 1 .. Len(sent) : sent[k].i_image < sent[k].n_images

\* What waits for a rank was sent, comes after what it handles, is in order, and was
\* not lost.
Waits(r) ==
    /\ \A i \in 1 .. Len(queue[r]) :
          /\ IsSent(queue[r][i]) /\ <<r, queue[r][i]>> \notin lost
          /\ meta[r] # <<>> => Before(meta[r], queue[r][i])
    /\ \A i, j \in 1 .. Len(queue[r]) : i < j => Before(queue[r][i], queue[r][j])
Handles(r) ==
    /\ pc[r] # "recv" => meta[r] # <<>>
    /\ meta[r] # <<>> => IsSent(meta[r]) /\ <<r, meta[r]>> \notin lost
Messages ==
    /\ queue \in [Rank -> Seq(StoreStream)] /\ meta \in [Rank -> StoreStream \cup {<<>>}]
    /\ lost \subseteq Rank \X StoreStream /\ \A l \in lost : IsSent(l[2])
    /\ \A r \in Rank : Waits(r) /\ Handles(r)

\* A rank that has the first message of a run and not yet the file.
Beginning(r) ==
    \/ pc[r] = "H5Fcreate"
    \/ pc[r] = "H5Fclose" /\ meta[r].i_image = 0 /\ file_id_[r] # RunOf(r)

\* The file is the same for all ranks, and where they are fits to it.
Files ==
    /\ \A r, s \in Rank : file_id_[r] = file_id_[s]
    /\ \A r \in Rank :
          /\ pc[r] = "H5Fcreate" => file_id_[r] = NO_RUN_ID /\ meta[r].i_image = 0
          /\ pc[r] = "H5Fclose" => file_id_[r] # NO_RUN_ID /\ (Beginning(r) \/ Whole(meta[r]))
          /\ pc[r] = "image" /\ meta[r].i_image = 0 => file_id_[r] = RunOf(r)

\* All ranks have begun the run whose file is open, and those that were closed.
Begun(run) ==
    \A r \in Rank : /\ meta[r] # <<>>
                    /\ RunOf(r) > run \/ (RunOf(r) = run /\ ~Beginning(r))
Opened == closed \cup {run \in Run : \E r \in Rank : file_id_[r] = run}
AllBegun == \A run \in Opened : Begun(run)

\* A rank that got the first message of a run has it before it or opens the file.
FirstsHandled ==
    \A k \in 1 .. Len(sent), r \in Rank :
        sent[k].i_image = 0 /\ <<r, sent[k]>> \notin lost =>
            \/ \E i \in 1 .. Len(queue[r]) : queue[r][i] = sent[k]
            \/ Beginning(r) /\ meta[r] = sent[k]
            \/ sent[k].run_id \in Opened

\* The agent has nothing more to send of a run that was closed.
Over(run) == \E k \in 1 .. Len(sent) : sent[k].run_id > run \/ (sent[k].run_id = run /\ Whole(sent[k]))
ClosedOver == \A run \in closed : Over(run)

WriterInv ==
    /\ TypeOK /\ Stream /\ Messages /\ Files /\ AllBegun /\ FirstsHandled
    /\ ClosedOver /\ ClosedAfterImages

-----------------------------------------------------------------------------
(* Numbers and messages. *)

LEMMA Constants ==
    /\ n_writers \in Nat \ {0} /\ NRuns \in Nat \ {0} /\ MaxQueue \in Nat \ {0}
    /\ 0 \in Rank
    /\ \A run \in Run : run \in Nat /\ run >= 1 /\ run <= NRuns /\ run # NO_RUN_ID
    /\ \A n \in RunLengths : n \in Nat /\ n >= 1
  BY LiveWriterAssumption DEF Rank, Run, NO_RUN_ID

LEMMA MessageTypes ==
    ASSUME NEW m \in StoreStream
    PROVE  m.run_id \in Run /\ m.run_id \in Nat /\ m.i_image \in Nat /\ m.n_images \in Nat /\ m # <<>>
<1>1. m.run_id \in Run /\ m.i_image \in Nat /\ m.n_images \in RunLengths
  BY DEF StoreStream
<1>2. m # <<>>
  <2>1. DOMAIN m = {"run_id", "i_image", "n_images"}
    BY DEF StoreStream
  <2>2. DOMAIN <<>> = {}
    OBVIOUS
  <2> QED
    BY <2>1, <2>2
<1> QED
  BY <1>1, <1>2, Constants

\* What was sent are messages, those of one run and number the same.
LEMMA SentMessages ==
    ASSUME TypeOK
    PROVE  /\ Len(sent) \in Nat
           /\ \A k \in 1 .. Len(sent) : sent[k] \in StoreStream
           /\ \A m : IsSent(m) => m \in StoreStream
<1>1. sent \in Seq(StoreStream)
  BY DEF TypeOK
<1>2. Len(sent) \in Nat /\ \A k \in 1 .. Len(sent) : sent[k] \in StoreStream
  BY <1>1
<1> QED
  BY <1>2 DEF IsSent

LEMMA SameMessage ==
    ASSUME TypeOK, Stream, NEW a, NEW b, IsSent(a), IsSent(b), a.run_id = b.run_id, a.i_image = b.i_image
    PROVE  a = b
<1>1. PICK j \in 1 .. Len(sent) : sent[j] = a
  BY DEF IsSent
<1>2. PICK k \in 1 .. Len(sent) : sent[k] = b
  BY DEF IsSent
<1>3. a.run_id \in Nat /\ a.i_image \in Nat
  BY SentMessages, MessageTypes
<1>4. ~Before(a, b) /\ ~Before(b, a)
  BY <1>3 DEF Before
<1>5. ~(j < k) /\ ~(k < j)
  BY <1>1, <1>2, <1>4 DEF Stream
<1> QED
  BY <1>1, <1>2, <1>5, SentMessages

\* What a rank handles or has waiting are messages that were sent.
LEMMA RankMessages ==
    ASSUME TypeOK, Messages, NEW r \in Rank
    PROVE  /\ Len(queue[r]) \in Nat /\ queue[r] \in Seq(StoreStream)
           /\ \A i \in 1 .. Len(queue[r]) : queue[r][i] \in StoreStream
           /\ meta[r] # <<>> => meta[r] \in StoreStream
<1>1. queue[r] \in Seq(StoreStream)
  BY DEF TypeOK
<1> QED
  BY <1>1 DEF TypeOK

\* The next message of the agent comes after all that were sent, of a run that is not over.
LEMMA NewMessage ==
    ASSUME TypeOK, Stream, NEW m \in NextMessages
    PROVE  /\ m \in StoreStream /\ m.i_image < m.n_images
           /\ \A k \in 1 .. Len(sent) : Before(sent[k], m)
           /\ \A k \in 1 .. Len(sent) : sent[k].run_id = m.run_id => sent[k].n_images = m.n_images
           /\ \A run \in Run : Over(run) => m.run_id > run
<1> DEFINE n    == Len(sent)
           run0 == IF n = 0 THEN 0 ELSE sent[n].run_id
<1>0. /\ n \in Nat /\ \A k \in 1 .. n : sent[k] \in StoreStream
      /\ \A k \in 1 .. n : sent[k].run_id \in Run /\ sent[k].run_id \in Nat
      /\ \A k \in 1 .. n : sent[k].i_image \in Nat /\ sent[k].n_images \in Nat
  BY SentMessages, MessageTypes
<1>1. \A k \in 1 .. n :
         /\ n \in 1 .. n /\ (k = n \/ Before(sent[k], sent[n]))
         /\ sent[k].run_id = sent[n].run_id => sent[k].n_images = sent[n].n_images
         /\ sent[k].run_id <= sent[n].run_id
  BY <1>0 DEF Stream, Before
<1>2. ASSUME n > 0, ~Whole(sent[n]), m = [sent[n] EXCEPT !.i_image = @ + 1]
      PROVE  /\ m \in StoreStream /\ m.i_image < m.n_images
             /\ m.run_id = sent[n].run_id /\ m.n_images = sent[n].n_images /\ m.i_image = sent[n].i_image + 1
  <2>1. sent[n] \in StoreStream /\ sent[n].i_image \in Nat /\ sent[n].n_images \in Nat /\ n \in 1 .. n
    BY <1>0, <1>2
  <2>2. m \in StoreStream /\ m.run_id = sent[n].run_id /\ m.n_images = sent[n].n_images /\ m.i_image = sent[n].i_image + 1
    BY <1>2, <2>1 DEF StoreStream
  <2>3. sent[n].i_image < sent[n].n_images /\ sent[n].i_image + 1 # sent[n].n_images
    BY <1>2, <2>1 DEF Stream, Whole
  <2> QED
    BY <2>1, <2>2, <2>3
<1>3. ASSUME NEW k \in RunLengths, run0 < NRuns, m = [run_id |-> run0 + 1, i_image |-> 0, n_images |-> k]
      PROVE  /\ m \in StoreStream /\ m.i_image < m.n_images /\ m.run_id = run0 + 1
  <2>1. run0 \in Nat
    BY <1>0
  <2>2. run0 + 1 \in Run
    BY <1>3, <2>1, Constants DEF Run
  <2> QED
    BY <1>3, <2>2, Constants DEF StoreStream
<1>4. \/ n > 0 /\ ~Whole(sent[n]) /\ m = [sent[n] EXCEPT !.i_image = @ + 1]
      \/ \E k \in RunLengths : run0 < NRuns /\ m = [run_id |-> run0 + 1, i_image |-> 0, n_images |-> k]
  BY DEF NextMessages
<1>5. CASE n > 0 /\ ~Whole(sent[n]) /\ m = [sent[n] EXCEPT !.i_image = @ + 1]
  <2>1. \A k \in 1 .. n : Before(sent[k], m)
    BY <1>0, <1>1, <1>2, <1>5 DEF Before
  <2>2. ASSUME NEW run \in Run, Over(run)
        PROVE  m.run_id > run
    <3>1. PICK k \in 1 .. n : sent[k].run_id > run \/ (sent[k].run_id = run /\ Whole(sent[k]))
      BY <2>2 DEF Over
    <3>0. /\ m.run_id = sent[n].run_id /\ run \in Nat
          /\ sent[k].run_id \in Nat /\ sent[n].run_id \in Nat /\ sent[k].run_id <= sent[n].run_id
      BY <1>0, <1>1, <1>2, <1>5, Constants
    <3>2. CASE sent[k].run_id > run
      BY <3>0, <3>2
    <3>3. CASE sent[k].run_id = run /\ Whole(sent[k])
      <4>1. k # n /\ Before(sent[k], sent[n])
        BY <1>1, <1>5, <3>3
      <4>2. sent[n].i_image < sent[n].n_images
        BY <1>1 DEF Stream
      <4>3. sent[n].run_id # run
        BY <1>0, <1>1, <3>3, <4>1, <4>2 DEF Before, Whole
      <4> QED
        BY <3>0, <3>3, <4>3
    <3> QED
      BY <3>1, <3>2, <3>3
  <2> QED
    BY <1>1, <1>2, <1>5, <2>1, <2>2
<1>6. CASE \E k \in RunLengths : run0 < NRuns /\ m = [run_id |-> run0 + 1, i_image |-> 0, n_images |-> k]
  <2>1. m \in StoreStream /\ m.i_image < m.n_images /\ m.run_id = run0 + 1
    BY <1>3, <1>6
  <2>2. \A k \in 1 .. n : sent[k].run_id < m.run_id
    BY <1>0, <1>1, <2>1
  <2>3. ASSUME NEW run \in Run, Over(run)
        PROVE  m.run_id > run
    BY <1>0, <2>2, <2>3, Constants, MessageTypes, <2>1 DEF Over
  <2> QED
    BY <1>0, <2>1, <2>2, <2>3 DEF Before
<1> QED
  BY <1>4, <1>5, <1>6

-----------------------------------------------------------------------------
(* What the steps do. *)

\* A message goes to the end of the stream and of the queues with room for it.
LEMMA Published ==
    ASSUME TypeOK, Stream, Messages, Publish
    PROVE  \E m \in StoreStream :
              /\ sent' = Append(sent, m) /\ m.i_image < m.n_images
              /\ \A k \in 1 .. Len(sent) : Before(sent[k], m)
              /\ \A k \in 1 .. Len(sent) : sent[k].run_id = m.run_id => sent[k].n_images = m.n_images
              /\ \A run \in Run : Over(run) => m.run_id > run
              /\ \A r \in Rank :
                    \/ queue'[r] = Append(queue[r], m) /\ Len(queue[r]) < MaxQueue /\ <<r, m>> \notin lost'
                    \/ queue'[r] = queue[r] /\ (m.i_image = 0 => <<r, m>> \in lost')
              /\ queue' \in [Rank -> Seq(StoreStream)]
              /\ lost \subseteq lost' /\ \A l \in lost' \ lost : l \in Rank \X {m}
              /\ UNCHANGED <<pc, meta, writerVars, image_counter_, outVars>>
<1>1. PICK m \in NextMessages :
         LET full == {r \in Rank : Len(queue[r]) = MaxQueue} IN
         /\ sent' = Append(sent, m)
         /\ queue' = [r \in Rank |-> IF r \in full THEN queue[r] ELSE Append(queue[r], m)]
         /\ lost' = lost \cup {<<r, m>> : r \in IF m.i_image = 0 \/ Whole(m) THEN full ELSE {}}
         /\ UNCHANGED <<pc, meta, writerVars, image_counter_, outVars>>
  BY DEF Publish
<1>2. /\ m \in StoreStream /\ m.i_image < m.n_images
      /\ \A k \in 1 .. Len(sent) : Before(sent[k], m)
      /\ \A k \in 1 .. Len(sent) : sent[k].run_id = m.run_id => sent[k].n_images = m.n_images
      /\ \A run \in Run : Over(run) => m.run_id > run
  BY NewMessage
<1>3. lost \subseteq lost' /\ \A l \in lost' \ lost : l \in Rank \X {m}
  BY <1>1
<1>4. \A r \in Rank : <<r, m>> \notin lost
  <2>1. ~IsSent(m)
    BY <1>2, MessageTypes DEF IsSent, Before
  <2> QED
    BY <2>1 DEF Messages
<1>5. ASSUME NEW r \in Rank
      PROVE  \/ queue'[r] = Append(queue[r], m) /\ Len(queue[r]) < MaxQueue /\ <<r, m>> \notin lost'
             \/ queue'[r] = queue[r] /\ (m.i_image = 0 => <<r, m>> \in lost')
  <2>1. CASE Len(queue[r]) = MaxQueue
    BY <1>1, <2>1
  <2>2. CASE Len(queue[r]) # MaxQueue
    <3>1. queue'[r] = Append(queue[r], m)
      BY <1>1, <2>2
    <3>2. Len(queue[r]) < MaxQueue
      BY <2>2, RankMessages, Constants DEF TypeOK
    <3>3. <<r, m>> \notin lost'
      BY <1>1, <1>4, <2>2
    <3> QED
      BY <3>1, <3>2, <3>3
  <2> QED
    BY <2>1, <2>2
<1>6. queue' \in [Rank -> Seq(StoreStream)]
  <2>1. \A r \in Rank : queue[r] \in Seq(StoreStream) /\ Append(queue[r], m) \in Seq(StoreStream)
    BY <1>2, RankMessages
  <2> QED
    BY <1>1, <2>1
<1> QED
  BY <1>1, <1>2, <1>3, <1>5, <1>6

\* A rank takes the first message that waits for it.
LEMMA Received ==
    ASSUME TypeOK, Messages, NEW r \in Rank, Recv(r)
    PROVE  /\ meta'[r] \in StoreStream /\ meta'[r] = queue[r][1] /\ IsSent(meta'[r]) /\ <<r, meta'[r]>> \notin lost
           /\ Len(queue[r]) \in Nat /\ 1 \in 1 .. Len(queue[r])
           /\ queue'[r] \in Seq(StoreStream) /\ Len(queue'[r]) = Len(queue[r]) - 1
           /\ \A i \in 1 .. Len(queue'[r]) : i + 1 \in 1 .. Len(queue[r]) /\ queue'[r][i] = queue[r][i + 1]
           /\ meta[r] # <<>> => Before(meta[r], meta'[r])
           /\ pc[r] = "recv"
           /\ pc' = [pc EXCEPT ![r] = IF meta'[r].i_image = 0 THEN CloseFile(r, "H5Fcreate") ELSE "image"]
           /\ \A s \in Rank \ {r} : meta'[s] = meta[s] /\ queue'[s] = queue[s]
           /\ queue' \in [Rank -> Seq(StoreStream)] /\ meta' \in [Rank -> StoreStream \cup {<<>>}]
           /\ UNCHANGED <<sent, lost, writerVars, image_counter_, outVars>>
<1>1. /\ pc[r] = "recv" /\ queue[r] # <<>>
      /\ meta' = [meta EXCEPT ![r] = Head(queue[r])]
      /\ queue' = [queue EXCEPT ![r] = Tail(@)]
      /\ pc' = [pc EXCEPT ![r] = IF meta'[r].i_image = 0 THEN CloseFile(r, "H5Fcreate") ELSE "image"]
      /\ UNCHANGED <<sent, lost, writerVars, image_counter_, outVars>>
  BY DEF Recv
<1>2. queue \in [Rank -> Seq(StoreStream)] /\ meta \in [Rank -> StoreStream \cup {<<>>}] /\ Waits(r)
  BY DEF Messages
<1>3. /\ meta'[r] = Head(queue[r]) /\ queue'[r] = Tail(queue[r])
      /\ \A s \in Rank \ {r} : meta'[s] = meta[s] /\ queue'[s] = queue[s]
  BY <1>1, <1>2
<1>4. queue[r] \in Seq(StoreStream)
  BY <1>2
<1>5. /\ Len(queue[r]) \in Nat /\ 1 \in 1 .. Len(queue[r]) /\ Head(queue[r]) = queue[r][1] /\ queue[r][1] \in StoreStream
      /\ Tail(queue[r]) \in Seq(StoreStream) /\ Len(Tail(queue[r])) = Len(queue[r]) - 1
  BY <1>1, <1>4
<1>6. \A i \in 1 .. Len(Tail(queue[r])) : i + 1 \in 1 .. Len(queue[r]) /\ Tail(queue[r])[i] = queue[r][i + 1]
  BY <1>4, <1>5
<1>7. queue' \in [Rank -> Seq(StoreStream)] /\ meta' \in [Rank -> StoreStream \cup {<<>>}]
  BY <1>1, <1>2, <1>5
<1>8. /\ IsSent(queue[r][1]) /\ <<r, queue[r][1]>> \notin lost
      /\ meta[r] # <<>> => Before(meta[r], queue[r][1])
  BY <1>2, <1>5 DEF Waits
<1> QED
  BY <1>1, <1>3, <1>5, <1>6, <1>7, <1>8

\* A rank handles an image or ends a run: from the last image of a run it goes on to
\* close the file.
LEMMA Moved ==
    ASSUME TypeOK, NEW r \in Rank, HandleImage(r) \/ EndRun(r)
    PROVE  /\ pc[r] \in {"image", "end_run"}
           /\ \/ pc'[r] \in {"recv", "dead"}
              \/ pc[r] = "image" /\ Whole(meta[r]) /\ pc'[r] = CloseFile(r, "end_run")
           /\ \A s \in Rank \ {r} : pc'[s] = pc[s]
           /\ pc' \in [Rank -> {"recv", "image", "H5Fcreate", "H5Fclose", "end_run", "dead"}]
           /\ image_counter_' \in [Rank -> Nat]
           /\ UNCHANGED <<agentVars, meta, writerVars, closed>>
<1>1. pc \in [Rank -> {"recv", "image", "H5Fcreate", "H5Fclose", "end_run", "dead"}] /\ image_counter_ \in [Rank -> Nat]
  BY DEF TypeOK
<1>2. CloseFile(r, "end_run") \in {"end_run", "H5Fclose"}
  BY DEF CloseFile
<1>3. CASE HandleImage(r)
  <2>1. \/ pc' = [pc EXCEPT ![r] = "dead"] /\ UNCHANGED image_counter_
        \/ /\ image_counter_' = [image_counter_ EXCEPT ![r] = IF Mine(r) THEN @ + 1 ELSE @]
           /\ pc' = [pc EXCEPT ![r] = IF LastImage(meta[r]) THEN CloseFile(r, "end_run") ELSE "recv"]
    BY <1>3 DEF HandleImage
  <2>2. pc[r] = "image" /\ UNCHANGED <<agentVars, meta, writerVars, closed>>
    BY <1>3 DEF HandleImage
  <2>3. CASE pc' = [pc EXCEPT ![r] = "dead"] /\ UNCHANGED image_counter_
    BY <1>1, <2>2, <2>3
  <2>4. CASE /\ image_counter_' = [image_counter_ EXCEPT ![r] = IF Mine(r) THEN @ + 1 ELSE @]
             /\ pc' = [pc EXCEPT ![r] = IF LastImage(meta[r]) THEN CloseFile(r, "end_run") ELSE "recv"]
    <3>1. image_counter_' \in [Rank -> Nat]
      BY <1>1, <2>4
    <3> QED
      BY <1>1, <1>2, <2>2, <2>4, <3>1 DEF LastImage, Whole
  <2> QED
    BY <2>1, <2>3, <2>4
<1>4. CASE EndRun(r)
  <2>1. PICK traps \in DivisionTraps :
           pc' = [pc EXCEPT ![r] = IF image_counter_[r] = 0 /\ traps THEN "dead" ELSE "recv"]
    BY <1>4 DEF EndRun
  <2>2. pc[r] = "end_run" /\ image_counter_' = [image_counter_ EXCEPT ![r] = 0]
    BY <1>4 DEF EndRun
  <2>3. UNCHANGED <<agentVars, meta, writerVars, closed>>
    BY <1>4 DEF EndRun, outVars
  <2>4. image_counter_' \in [Rank -> Nat]
    BY <1>1, <2>2
  <2> QED
    BY <1>1, <2>1, <2>2, <2>3, <2>4
<1> QED
  BY <1>3, <1>4

\* All ranks open the file of the run they are at, having none.
LEMMA AllOpened ==
    ASSUME TypeOK, Messages, Files, open_file
    PROVE  \E run \in Run :
              /\ \A r \in Rank : /\ pc[r] = "H5Fcreate" /\ pc'[r] = "image" /\ file_id_[r] = NO_RUN_ID
                                 /\ meta[r] \in StoreStream /\ RunOf(r) = run /\ meta[r].i_image = 0
              /\ file_id_' = [r \in Rank |-> run] /\ current_run_id_' = file_id_'
              /\ pc' = [r \in Rank |-> "image"]
              /\ UNCHANGED <<agentVars, meta, image_counter_, outVars>>
<1> DEFINE run == RunOf(0)
<1>1. /\ \A r, s \in Rank : pc[r] = "H5Fcreate" /\ RunOf(r) = RunOf(s)
      /\ file_id_' = [r \in Rank |-> RunOf(r)] /\ current_run_id_' = [r \in Rank |-> RunOf(r)]
      /\ pc' = [r \in Rank |-> "image"]
      /\ UNCHANGED <<agentVars, meta, image_counter_, outVars>>
  BY DEF open_file, AllIn
<1>2. \A r \in Rank : RunOf(r) = run
  BY <1>1, Constants
<1>3. \A r \in Rank : meta[r] \in StoreStream /\ file_id_[r] = NO_RUN_ID /\ meta[r].i_image = 0
  BY <1>1, RankMessages DEF Messages, Handles, Files
<1>4. run \in Run
  BY <1>3, MessageTypes, Constants DEF RunOf
<1> QED
  BY <1>1, <1>2, <1>3, <1>4

\* All ranks close the file they have open; those that have the next run begin it.
LEMMA AllClosed ==
    ASSUME TypeOK, Messages, Files, close_file
    PROVE  \E run \in Run :
              /\ \A r \in Rank : /\ pc[r] = "H5Fclose" /\ file_id_[r] = run /\ meta[r] \in StoreStream
                                 /\ Beginning(r) \/ Whole(meta[r])
                                 /\ Beginning(r) <=> (meta[r].i_image = 0 /\ RunOf(r) # run)
                                 /\ pc'[r] = IF Beginning(r) THEN "H5Fcreate" ELSE "end_run"
              /\ closed' = closed \cup {run}
              /\ file_id_' = [r \in Rank |-> NO_RUN_ID] /\ current_run_id_' = file_id_'
              /\ pc' \in [Rank -> {"recv", "image", "H5Fcreate", "H5Fclose", "end_run", "dead"}]
              /\ UNCHANGED <<agentVars, meta, image_counter_>>
<1> DEFINE run == file_id_[0]
<1>1. /\ \A r, s \in Rank : pc[r] = "H5Fclose" /\ file_id_[r] = file_id_[s]
      /\ closed' = closed \cup {file_id_[r] : r \in Rank}
      /\ file_id_' = [r \in Rank |-> NO_RUN_ID] /\ current_run_id_' = [r \in Rank |-> NO_RUN_ID]
      /\ pc' = [r \in Rank |-> IF meta[r].i_image = 0 /\ current_run_id_[r] # RunOf(r)
                               THEN "H5Fcreate" ELSE "end_run"]
      /\ UNCHANGED <<agentVars, meta, image_counter_>>
  BY DEF close_file, AllIn
<1>2. \A r \in Rank : file_id_[r] = run /\ current_run_id_[r] = run
  BY <1>1, Constants DEF TypeOK
<1>3. \A r \in Rank : meta[r] \in StoreStream /\ file_id_[r] # NO_RUN_ID /\ (Beginning(r) \/ Whole(meta[r]))
  BY <1>1, RankMessages DEF Messages, Handles, Files
<1>4. run \in Run
  BY <1>3, Constants DEF TypeOK
<1>5. closed' = closed \cup {run}
  BY <1>1, <1>2, Constants
<1>6. \A r \in Rank : Beginning(r) <=> (meta[r].i_image = 0 /\ RunOf(r) # run)
  BY <1>1, <1>2 DEF Beginning
<1>7. \A r \in Rank : pc'[r] = IF Beginning(r) THEN "H5Fcreate" ELSE "end_run"
  BY <1>1, <1>2, <1>6
<1> QED
  BY <1>1, <1>2, <1>3, <1>4, <1>5, <1>6, <1>7

-----------------------------------------------------------------------------
(* The steps keep the invariant. *)

LEMMA WriterStart == Init => WriterInv
<1> SUFFICES ASSUME Init PROVE WriterInv
  OBVIOUS
<1>1. /\ sent = <<>> /\ lost = {} /\ closed = {} /\ Len(sent) = 0
      /\ queue = [r \in Rank |-> <<>>] /\ meta = [r \in Rank |-> <<>>] /\ pc = [r \in Rank |-> "recv"]
      /\ file_id_ = [r \in Rank |-> NO_RUN_ID] /\ current_run_id_ = file_id_
      /\ image_counter_ = [r \in Rank |-> 0]
  BY DEF Init
<1>2. <<>> \in Seq(StoreStream) /\ Len(<<>>) = 0 /\ Len(<<>>) <= MaxQueue
  BY Constants
<1>3. TypeOK
  BY <1>1, <1>2 DEF TypeOK
<1>4. Stream /\ FirstsHandled /\ ClosedOver /\ ClosedAfterImages
  BY <1>1 DEF Stream, FirstsHandled, ClosedOver, ClosedAfterImages
<1>5. Messages
  BY <1>1, <1>2 DEF Messages, Waits, Handles
<1>6. Files
  BY <1>1 DEF Files
<1>7. AllBegun
  BY <1>1, Constants DEF AllBegun, Opened
<1> QED
  BY <1>3, <1>4, <1>5, <1>6, <1>7 DEF WriterInv

LEMMA PublishStep == WriterInv /\ Publish => WriterInv'
<1> SUFFICES ASSUME WriterInv, Publish PROVE WriterInv'
  OBVIOUS
<1>0. /\ TypeOK /\ Stream /\ Messages /\ Files /\ AllBegun /\ FirstsHandled
      /\ ClosedOver /\ ClosedAfterImages
  BY DEF WriterInv
<1> DEFINE n == Len(sent)
<1>1. PICK m \in StoreStream :
         /\ sent' = Append(sent, m) /\ m.i_image < m.n_images
         /\ \A k \in 1 .. Len(sent) : Before(sent[k], m)
         /\ \A k \in 1 .. Len(sent) : sent[k].run_id = m.run_id => sent[k].n_images = m.n_images
         /\ \A run \in Run : Over(run) => m.run_id > run
         /\ \A r \in Rank :
               \/ queue'[r] = Append(queue[r], m) /\ Len(queue[r]) < MaxQueue /\ <<r, m>> \notin lost'
               \/ queue'[r] = queue[r] /\ (m.i_image = 0 => <<r, m>> \in lost')
         /\ queue' \in [Rank -> Seq(StoreStream)]
         /\ lost \subseteq lost' /\ \A l \in lost' \ lost : l \in Rank \X {m}
         /\ UNCHANGED <<pc, meta, writerVars, image_counter_, outVars>>
  BY <1>0, Published
<1>2. UNCHANGED <<pc, meta, file_id_, current_run_id_, image_counter_, closed>>
  BY <1>1 DEF writerVars, outVars
<1>3. sent \in Seq(StoreStream)
  BY <1>0 DEF TypeOK
<1>4. /\ n \in Nat /\ sent' \in Seq(StoreStream) /\ Len(sent') = n + 1
      /\ sent'[n + 1] = m /\ n + 1 \in 1 .. Len(sent')
      /\ \A k \in 1 .. n : k \in 1 .. Len(sent') /\ sent'[k] = sent[k]
      /\ \A k \in 1 .. Len(sent') : k \in 1 .. n \/ k = n + 1
  BY <1>1, <1>3
<1>5. \A a : (\E k \in 1 .. Len(sent') : sent'[k] = a) <=> (IsSent(a) \/ a = m)
  BY <1>4 DEF IsSent
<1>6. m.run_id \in Nat /\ m.i_image \in Nat /\ ~Before(m, m)
  BY MessageTypes DEF Before
<1>7. ~IsSent(m) /\ \A a : IsSent(a) => Before(a, m) /\ a # m
  BY <1>1, <1>6 DEF IsSent
<1>8. ASSUME NEW r \in Rank
      PROVE  /\ queue[r] \in Seq(StoreStream) /\ Len(queue[r]) \in Nat
             /\ \/ queue'[r] = queue[r]
                \/ /\ Len(queue'[r]) = Len(queue[r]) + 1 /\ queue'[r][Len(queue[r]) + 1] = m
                   /\ \A i \in 1 .. Len(queue[r]) : queue'[r][i] = queue[r][i]
                   /\ <<r, m>> \notin lost' /\ Len(queue[r]) < MaxQueue
  <2>1. queue[r] \in Seq(StoreStream)
    BY <1>0 DEF Messages
  <2>2. \/ queue'[r] = Append(queue[r], m) /\ Len(queue[r]) < MaxQueue /\ <<r, m>> \notin lost'
        \/ queue'[r] = queue[r]
    BY <1>1
  <2> QED
    BY <2>1, <2>2
<1>9. TypeOK'
  <2>1. \A r \in Rank : queue'[r] \in Seq(StoreStream)
    BY <1>1
  <2>2. ASSUME NEW r \in Rank
        PROVE  Len(queue'[r]) <= MaxQueue
    <3>1. Len(queue[r]) <= MaxQueue /\ MaxQueue \in Nat /\ Len(queue[r]) \in Nat
      BY <1>0, <1>8, Constants DEF TypeOK
    <3>2. CASE queue'[r] = queue[r]
      BY <3>1, <3>2
    <3>3. CASE Len(queue'[r]) = Len(queue[r]) + 1 /\ Len(queue[r]) < MaxQueue
      BY <3>1, <3>3
    <3> QED
      BY <1>8, <3>2, <3>3
  <2> QED
    BY <1>0, <1>2, <1>4, <2>1, <2>2 DEF TypeOK
<1>10. Stream'
  <2>1. ASSUME NEW j \in 1 .. Len(sent'), NEW k \in 1 .. Len(sent'), j < k
        PROVE  Before(sent'[j], sent'[k])
    <3>1. j \in 1 .. n /\ sent'[j] = sent[j] /\ Before(sent[j], m)
      BY <1>1, <1>4, <2>1
    <3>2. CASE k = n + 1
      BY <1>4, <3>1, <3>2
    <3>3. CASE k \in 1 .. n
      <4>1. Before(sent[j], sent[k]) /\ sent'[k] = sent[k]
        BY <1>0, <1>4, <2>1, <3>1, <3>3 DEF Stream
      <4> QED
        BY <3>1, <4>1
    <3> QED
      BY <1>4, <3>2, <3>3
  <2>2. \A j, k \in 1 .. Len(sent') : sent'[j].run_id = sent'[k].run_id => sent'[j].n_images = sent'[k].n_images
    BY <1>0, <1>1, <1>4 DEF Stream
  <2>3. \A k \in 1 .. Len(sent') : sent'[k].i_image < sent'[k].n_images
    BY <1>0, <1>1, <1>4 DEF Stream
  <2> QED
    BY <2>1, <2>2, <2>3 DEF Stream, Before
<1>11. Messages'
  <2>1. lost' \subseteq Rank \X StoreStream /\ \A l \in lost' : \E k \in 1 .. Len(sent') : sent'[k] = l[2]
    <3>1. \A l \in lost' : l \in lost \/ l \in Rank \X {m}
      BY <1>1
    <3>2. \A l \in lost : l \in Rank \X StoreStream /\ IsSent(l[2])
      BY <1>0 DEF Messages
    <3> QED
      BY <1>1, <1>5, <3>1, <3>2
  <2>2. \A a : \A r \in Rank : <<r, a>> \in lost' => <<r, a>> \in lost \/ a = m
    BY <1>1
  <2>3. ASSUME NEW r \in Rank
        PROVE  Waits(r)' /\ Handles(r)'
    <3>1. Waits(r) /\ Handles(r)
      BY <1>0 DEF Messages
    <3>2. \A i \in 1 .. Len(queue[r]) :
             /\ IsSent(queue[r][i]) /\ <<r, queue[r][i]>> \notin lost'
             /\ Before(queue[r][i], m)
             /\ meta[r] # <<>> => Before(meta[r], queue[r][i])
      BY <1>7, <2>2, <3>1 DEF Waits
    <3>3. \A i, j \in 1 .. Len(queue[r]) : i < j => Before(queue[r][i], queue[r][j])
      BY <3>1 DEF Waits
    <3>4. meta[r] # <<>> => IsSent(meta[r]) /\ <<r, meta[r]>> \notin lost' /\ Before(meta[r], m)
      BY <1>7, <2>2, <3>1 DEF Handles
    <3>5. Handles(r)'
      BY <1>2, <1>5, <3>1, <3>4 DEF Handles, IsSent
    <3>6. \A i \in 1 .. Len(queue'[r]) :
             \/ i \in 1 .. Len(queue[r]) /\ queue'[r][i] = queue[r][i]
             \/ i = Len(queue[r]) + 1 /\ queue'[r][i] = m /\ <<r, m>> \notin lost'
      BY <1>8
    <3>7. \A i \in 1 .. Len(queue'[r]) : IsSent(queue'[r][i]) \/ queue'[r][i] = m
      BY <3>2, <3>6
    <3>8. \A i \in 1 .. Len(queue'[r]) : <<r, queue'[r][i]>> \notin lost'
      BY <3>2, <3>6
    <3>9. \A i \in 1 .. Len(queue'[r]) : meta'[r] # <<>> => Before(meta'[r], queue'[r][i])
      BY <1>2, <3>2, <3>4, <3>6
    <3>10. \A i, j \in 1 .. Len(queue'[r]) : i < j => Before(queue'[r][i], queue'[r][j])
      <4>1. SUFFICES ASSUME NEW i \in 1 .. Len(queue'[r]), NEW j \in 1 .. Len(queue'[r]), i < j
                     PROVE  Before(queue'[r][i], queue'[r][j])
        OBVIOUS
      <4>2. i \in 1 .. Len(queue[r]) /\ queue'[r][i] = queue[r][i]
        BY <1>8, <3>6, <4>1
      <4> QED
        BY <3>2, <3>3, <3>6, <4>1, <4>2
    <3>11. Waits(r)'
      BY <1>5, <3>7, <3>8, <3>9, <3>10 DEF Waits, Before, IsSent
    <3> QED
      BY <3>5, <3>11
  <2> QED
    BY <1>0, <1>1, <1>2, <2>1, <2>3 DEF Messages, IsSent
<1>12. Files'
  BY <1>0, <1>2 DEF Files, Beginning, RunOf, Whole
<1>13. AllBegun'
  BY <1>0, <1>2 DEF AllBegun, Opened, Begun, Beginning, RunOf
<1>14. FirstsHandled'
  <2>1. SUFFICES ASSUME NEW k \in 1 .. Len(sent'), NEW r \in Rank, sent'[k].i_image = 0, <<r, sent'[k]>> \notin lost'
                 PROVE  \/ \E i \in 1 .. Len(queue'[r]) : queue'[r][i] = sent'[k]
                        \/ Beginning(r)' /\ meta'[r] = sent'[k]
                        \/ sent'[k].run_id \in Opened'
    BY DEF FirstsHandled
  <2>2. CASE k = n + 1
    BY <1>1, <1>4, <1>8, <2>1, <2>2
  <2>3. CASE k \in 1 .. n
    <3>1. sent'[k] = sent[k] /\ <<r, sent[k]>> \notin lost
      BY <1>1, <1>4, <2>1, <2>3
    <3>2. Opened' = Opened /\ Beginning(r)' = Beginning(r) /\ meta'[r] = meta[r]
      BY <1>2 DEF Opened, Beginning, RunOf
    <3>3. \A i \in 1 .. Len(queue[r]) : i \in 1 .. Len(queue'[r]) /\ queue'[r][i] = queue[r][i]
      <4>1. Len(queue[r]) \in Nat
        BY <1>8
      <4>2. CASE queue'[r] = queue[r]
        BY <4>2
      <4>3. CASE Len(queue'[r]) = Len(queue[r]) + 1 /\ \A i \in 1 .. Len(queue[r]) : queue'[r][i] = queue[r][i]
        BY <4>1, <4>3
      <4> QED
        BY <1>8, <4>2, <4>3
    <3> QED
      BY <1>0, <2>1, <2>3, <3>1, <3>2, <3>3 DEF FirstsHandled
  <2> QED
    BY <1>4, <2>2, <2>3
<1>15. ClosedOver'
  BY <1>0, <1>2, <1>4 DEF ClosedOver, Over, Whole
<1>16. ClosedAfterImages'
  <2>1. SUFFICES ASSUME NEW run \in closed, NEW k \in 1 .. Len(sent'), sent'[k].run_id = run, NEW r \in Rank
                 PROVE  Past(r, run, sent[k].i_image)'
    BY <1>2 DEF ClosedAfterImages, Past, RunOf
  <2>2. run \in Run /\ Over(run) /\ m.run_id # run
    BY <1>0, <1>1, <1>6, Constants DEF TypeOK, ClosedOver
  <2>3. k \in 1 .. n /\ sent'[k] = sent[k]
    BY <1>4, <2>1, <2>2
  <2>4. Past(r, run, sent[k].i_image)
    BY <1>0, <2>1, <2>3 DEF ClosedAfterImages
  <2> QED
    BY <1>2, <2>3, <2>4 DEF Past, RunOf
<1> QED
  BY <1>9, <1>10, <1>11, <1>12, <1>13, <1>14, <1>15, <1>16 DEF WriterInv

LEMMA RecvStep ==
    ASSUME NEW r \in Rank
    PROVE  WriterInv /\ Recv(r) => WriterInv'
<1> SUFFICES ASSUME WriterInv, Recv(r) PROVE WriterInv'
  OBVIOUS
<1>0. /\ TypeOK /\ Stream /\ Messages /\ Files /\ AllBegun /\ FirstsHandled
      /\ ClosedOver /\ ClosedAfterImages
  BY DEF WriterInv
<1>1. /\ meta'[r] \in StoreStream /\ meta'[r] = queue[r][1] /\ IsSent(meta'[r]) /\ <<r, meta'[r]>> \notin lost
      /\ Len(queue[r]) \in Nat /\ 1 \in 1 .. Len(queue[r])
      /\ queue'[r] \in Seq(StoreStream) /\ Len(queue'[r]) = Len(queue[r]) - 1
      /\ \A i \in 1 .. Len(queue'[r]) : i + 1 \in 1 .. Len(queue[r]) /\ queue'[r][i] = queue[r][i + 1]
      /\ meta[r] # <<>> => Before(meta[r], meta'[r])
      /\ pc[r] = "recv"
      /\ pc' = [pc EXCEPT ![r] = IF meta'[r].i_image = 0 THEN CloseFile(r, "H5Fcreate") ELSE "image"]
      /\ \A s \in Rank \ {r} : meta'[s] = meta[s] /\ queue'[s] = queue[s]
      /\ queue' \in [Rank -> Seq(StoreStream)] /\ meta' \in [Rank -> StoreStream \cup {<<>>}]
      /\ UNCHANGED <<sent, lost, writerVars, image_counter_, outVars>>
  BY <1>0, Received
<1>2. UNCHANGED <<sent, lost, file_id_, current_run_id_, image_counter_, closed>>
  BY <1>1 DEF writerVars, outVars
<1>3. \A s \in Rank \ {r} : pc'[s] = pc[s] /\ meta'[s] = meta[s] /\ queue'[s] = queue[s]
  BY <1>0, <1>1 DEF TypeOK
<1>4. pc'[r] = IF meta'[r].i_image # 0 THEN "image"
               ELSE IF file_id_[r] = NO_RUN_ID THEN "H5Fcreate" ELSE "H5Fclose"
  BY <1>0, <1>1 DEF TypeOK, CloseFile
<1>5. /\ meta'[r] # <<>> /\ meta'[r].run_id \in Nat /\ meta'[r].i_image \in Nat
      /\ meta[r] # <<>> => meta[r].run_id \in Nat /\ meta[r].i_image \in Nat
  BY <1>0, <1>1, RankMessages, MessageTypes
<1>6. Opened' = Opened
  BY <1>2 DEF Opened
<1>7. ASSUME NEW run \in Opened
      PROVE  run \in Nat /\ meta[r] # <<>> /\ (meta'[r].run_id > run \/ (meta'[r].run_id = run /\ meta'[r].i_image # 0))
  <2>1. meta[r] # <<>> /\ (RunOf(r) > run \/ RunOf(r) = run)
    BY <1>0 DEF AllBegun, Begun
  <2>2. run \in Nat
    BY <1>0, Constants DEF Opened, TypeOK
  <2>3. Before(meta[r], meta'[r])
    BY <1>1, <2>1
  <2> QED
    BY <1>5, <2>1, <2>2, <2>3 DEF Before, RunOf
<1>8. ASSUME meta'[r].i_image = 0
      PROVE  Beginning(r)'
  <2>1. CASE file_id_[r] = NO_RUN_ID
    BY <1>4, <1>8, <2>1 DEF Beginning
  <2>2. CASE file_id_[r] # NO_RUN_ID
    <3>1. file_id_[r] \in Opened
      BY <1>0, <2>2 DEF Opened, TypeOK
    <3>2. meta'[r].run_id # file_id_[r]
      BY <1>5, <1>7, <1>8, <3>1
    <3> QED
      BY <1>2, <1>4, <1>8, <2>2, <3>2 DEF Beginning, RunOf
  <2> QED
    BY <2>1, <2>2
<1>9. TypeOK'
  <2>1. pc' \in [Rank -> {"recv", "image", "H5Fcreate", "H5Fclose", "end_run", "dead"}]
    BY <1>0, <1>1 DEF TypeOK, CloseFile
  <2>2. \A s \in Rank : queue'[s] \in Seq(StoreStream) /\ meta'[s] \in StoreStream \cup {<<>>}
    BY <1>1
  <2>3. ASSUME NEW s \in Rank
        PROVE  Len(queue'[s]) <= MaxQueue
    <3>1. \A q \in Rank : Len(queue[q]) <= MaxQueue
      BY <1>0 DEF TypeOK
    <3>2. Len(queue'[r]) <= MaxQueue
      BY <1>1, <3>1, Constants
    <3> QED
      BY <1>3, <3>1, <3>2
  <2> QED
    BY <1>0, <1>2, <2>1, <2>2, <2>3 DEF TypeOK
<1>10. Stream'
  BY <1>0, <1>2 DEF Stream, Before
<1>11. Messages'
  <2>1. ASSUME NEW s \in Rank, s # r
        PROVE  Waits(s)' /\ Handles(s)'
    <3>1. Waits(s) /\ Handles(s)
      BY <1>0 DEF Messages
    <3>2. pc'[s] = pc[s] /\ meta'[s] = meta[s] /\ queue'[s] = queue[s] /\ sent' = sent /\ lost' = lost
      BY <1>2, <1>3, <2>1
    <3>3. Waits(s)'
      BY <3>1, <3>2 DEF Waits, Before, IsSent
    <3> QED
      BY <3>1, <3>2, <3>3 DEF Handles, IsSent
  <2>2. Handles(r)'
    BY <1>1, <1>2, <1>5 DEF Handles, IsSent
  <2>3. \A i \in 1 .. Len(queue[r]) : IsSent(queue[r][i]) /\ <<r, queue[r][i]>> \notin lost
    BY <1>0 DEF Messages, Waits
  <2>4. \A i, j \in 1 .. Len(queue[r]) : i < j => Before(queue[r][i], queue[r][j])
    BY <1>0 DEF Messages, Waits
  <2>5. \A i \in 1 .. Len(queue'[r]) : Before(meta'[r], queue'[r][i])
    BY <1>1, <2>4
  <2>6. \A i, j \in 1 .. Len(queue'[r]) : i < j => Before(queue'[r][i], queue'[r][j])
    BY <1>1, <2>4
  <2>7. \A i \in 1 .. Len(queue'[r]) : IsSent(queue'[r][i]) /\ <<r, queue'[r][i]>> \notin lost
    BY <1>1, <2>3
  <2>8. Waits(r)'
    BY <1>2, <2>5, <2>6, <2>7 DEF Waits, Before, IsSent
  <2> QED
    BY <1>0, <1>1, <1>2, <2>1, <2>2, <2>8 DEF Messages, IsSent
<1>12. Files'
  <2>1. \A s, q \in Rank : file_id_'[s] = file_id_'[q]
    BY <1>0, <1>2 DEF Files
  <2>2. ASSUME NEW s \in Rank
        PROVE  /\ (pc[s] = "H5Fcreate" => file_id_[s] = NO_RUN_ID /\ meta[s].i_image = 0)'
               /\ (pc[s] = "H5Fclose" => file_id_[s] # NO_RUN_ID /\ (Beginning(s) \/ Whole(meta[s])))'
               /\ (pc[s] = "image" /\ meta[s].i_image = 0 => file_id_[s] = RunOf(s))'
    <3>1. CASE s = r
      BY <1>2, <1>4, <1>8, <3>1
    <3>2. CASE s # r
      BY <1>0, <1>2, <1>3, <3>2 DEF Files, Beginning, Whole, RunOf
    <3> QED
      BY <3>1, <3>2
  <2> QED
    BY <2>1, <2>2 DEF Files
<1>13. AllBegun'
  <2>1. SUFFICES ASSUME NEW run \in Opened, NEW s \in Rank
                 PROVE  /\ meta'[s] # <<>>
                        /\ RunOf(s)' > run \/ (RunOf(s)' = run /\ ~Beginning(s)')
    BY <1>6 DEF AllBegun, Begun
  <2>2. CASE s = r
    BY <1>4, <1>5, <1>7, <2>2 DEF RunOf, Beginning
  <2>3. CASE s # r
    BY <1>0, <1>2, <1>3, <2>3 DEF AllBegun, Begun, RunOf, Beginning
  <2> QED
    BY <2>2, <2>3
<1>14. FirstsHandled'
  <2>1. SUFFICES ASSUME NEW k \in 1 .. Len(sent), NEW s \in Rank, sent[k].i_image = 0, <<s, sent[k]>> \notin lost
                 PROVE  \/ \E i \in 1 .. Len(queue'[s]) : queue'[s][i] = sent[k]
                        \/ Beginning(s)' /\ meta'[s] = sent[k]
                        \/ sent[k].run_id \in Opened
    BY <1>2, <1>6 DEF FirstsHandled
  <2>2. \/ \E i \in 1 .. Len(queue[s]) : queue[s][i] = sent[k]
        \/ Beginning(s) /\ meta[s] = sent[k]
        \/ sent[k].run_id \in Opened
    BY <1>0, <2>1 DEF FirstsHandled
  <2>3. CASE s # r
    BY <1>2, <1>3, <2>2, <2>3 DEF Beginning, RunOf
  <2>4. CASE s = r
    <3>1. ~Beginning(r)
      BY <1>1 DEF Beginning
    <3>2. CASE \E i \in 1 .. Len(queue[r]) : queue[r][i] = sent[k]
      <4>1. PICK i \in 1 .. Len(queue[r]) : queue[r][i] = sent[k]
        BY <3>2
      <4>2. CASE i = 1
        BY <1>1, <1>8, <2>1, <2>4, <4>1, <4>2
      <4>3. CASE i # 1
        <5>1. i - 1 \in 1 .. Len(queue'[r]) /\ (i - 1) + 1 = i
          BY <1>1, <4>3
        <5>2. queue'[r][i - 1] = sent[k]
          BY <1>1, <4>1, <5>1
        <5> QED
          BY <2>4, <5>1, <5>2
      <4> QED
        BY <4>2, <4>3
    <3> QED
      BY <2>2, <2>4, <3>1, <3>2
  <2> QED
    BY <2>3, <2>4
<1>15. ClosedOver'
  BY <1>0, <1>2 DEF ClosedOver, Over, Whole
<1>16. ClosedAfterImages'
  <2>1. SUFFICES ASSUME NEW run \in closed, NEW k \in 1 .. Len(sent), sent[k].run_id = run, NEW s \in Rank
                 PROVE  Past(s, run, sent[k].i_image)'
    BY <1>2 DEF ClosedAfterImages, Past, RunOf
  <2>2. Past(s, run, sent[k].i_image)
    BY <1>0, <2>1 DEF ClosedAfterImages
  <2>3. CASE s # r
    BY <1>2, <1>3, <2>2, <2>3 DEF Past, RunOf
  <2>4. CASE s = r
    <3>1. run \in Nat /\ sent[k].i_image \in Nat
      BY <1>0, SentMessages, MessageTypes, Constants DEF TypeOK
    <3>2. Before(meta[r], meta'[r])
      BY <1>1, <2>2, <2>4 DEF Past
    <3>3. meta'[r].run_id > run \/ (meta'[r].run_id = run /\ meta'[r].i_image > sent[k].i_image)
      BY <1>5, <2>2, <2>4, <3>1, <3>2 DEF Past, RunOf, Before
    <3> QED
      BY <1>2, <1>5, <2>4, <3>3 DEF Past, RunOf
  <2> QED
    BY <2>3, <2>4
<1> QED
  BY <1>9, <1>10, <1>11, <1>12, <1>13, <1>14, <1>15, <1>16 DEF WriterInv

\* What only the agent and the taking of a message change.
LEMMA SameMessages ==
    ASSUME Stream, Messages, UNCHANGED <<agentVars, meta>>, \A r \in Rank : pc'[r] # "recv" => pc[r] # "recv"
    PROVE  /\ Stream' /\ Messages'
           /\ \A run : Over(run)' <=> Over(run)
<1>1. UNCHANGED <<sent, queue, lost, meta>>
  BY DEF agentVars
<1>2. Stream'
  BY <1>1 DEF Stream, Before
<1>3. ASSUME NEW r \in Rank
      PROVE  Waits(r)' /\ Handles(r)'
  <2>1. Waits(r) /\ Handles(r)
    BY DEF Messages
  <2>2. Waits(r)'
    BY <1>1, <2>1 DEF Waits, Before, IsSent
  <2> QED
    BY <1>1, <2>1, <2>2 DEF Handles, IsSent
<1>4. Messages'
  BY <1>1, <1>3 DEF Messages, IsSent
<1>5. \A run : Over(run)' <=> Over(run)
  BY <1>1 DEF Over, Whole
<1> QED
  BY <1>2, <1>4, <1>5

LEMMA MoveStep ==
    ASSUME NEW r \in Rank
    PROVE  WriterInv /\ (HandleImage(r) \/ EndRun(r)) => WriterInv'
<1> SUFFICES ASSUME WriterInv, HandleImage(r) \/ EndRun(r) PROVE WriterInv'
  OBVIOUS
<1>0. /\ TypeOK /\ Stream /\ Messages /\ Files /\ AllBegun /\ FirstsHandled
      /\ ClosedOver /\ ClosedAfterImages
  BY DEF WriterInv
<1>1. /\ pc[r] \in {"image", "end_run"}
      /\ \/ pc'[r] \in {"recv", "dead"}
         \/ pc[r] = "image" /\ Whole(meta[r]) /\ pc'[r] = CloseFile(r, "end_run")
      /\ \A s \in Rank \ {r} : pc'[s] = pc[s]
      /\ pc' \in [Rank -> {"recv", "image", "H5Fcreate", "H5Fclose", "end_run", "dead"}]
      /\ image_counter_' \in [Rank -> Nat]
      /\ UNCHANGED <<agentVars, meta, writerVars, closed>>
  BY <1>0, Moved
<1>2. UNCHANGED <<sent, queue, lost, meta, file_id_, current_run_id_, closed>>
  BY <1>1 DEF agentVars, writerVars
<1>3. pc'[r] \in {"recv", "dead", "end_run"} \/ (pc'[r] = "H5Fclose" /\ pc[r] = "image" /\ Whole(meta[r]) /\ file_id_[r] # NO_RUN_ID)
  BY <1>1 DEF CloseFile
<1>4. Opened' = Opened
  BY <1>2 DEF Opened
<1>5. \A s \in Rank : Beginning(s)' <=> Beginning(s)
  <2>1. \A s \in Rank \ {r} : Beginning(s)' <=> Beginning(s)
    BY <1>1, <1>2 DEF Beginning, RunOf
  <2>2. ~Beginning(r)
    BY <1>1 DEF Beginning
  <2>3. ~Beginning(r)'
    BY <1>0, <1>2, <1>3 DEF Beginning, RunOf, Files
  <2> QED
    BY <2>1, <2>2, <2>3
<1>6. \A s \in Rank : pc'[s] # "recv" => pc[s] # "recv"
  BY <1>1
<1>7. TypeOK'
  BY <1>0, <1>1, <1>2 DEF TypeOK
<1>8. Stream' /\ Messages'
  BY <1>0, <1>1, <1>6, SameMessages
<1>9. Files'
  <2>1. \A s, q \in Rank : file_id_'[s] = file_id_'[q]
    BY <1>0, <1>2 DEF Files
  <2>2. ASSUME NEW s \in Rank
        PROVE  /\ (pc[s] = "H5Fcreate" => file_id_[s] = NO_RUN_ID /\ meta[s].i_image = 0)'
               /\ (pc[s] = "H5Fclose" => file_id_[s] # NO_RUN_ID /\ (Beginning(s) \/ Whole(meta[s])))'
               /\ (pc[s] = "image" /\ meta[s].i_image = 0 => file_id_[s] = RunOf(s))'
    <3>1. CASE s = r
      BY <1>2, <1>3, <3>1 DEF Whole
    <3>2. CASE s # r
      BY <1>0, <1>1, <1>2, <3>2 DEF Files, Beginning, Whole, RunOf
    <3> QED
      BY <3>1, <3>2
  <2> QED
    BY <2>1, <2>2 DEF Files
<1>10. AllBegun'
  BY <1>0, <1>2, <1>4, <1>5 DEF AllBegun, Begun, RunOf
<1>11. FirstsHandled'
  BY <1>0, <1>2, <1>4, <1>5 DEF FirstsHandled
<1>12. ClosedOver'
  BY <1>0, <1>2 DEF ClosedOver, Over, Whole
<1>13. ClosedAfterImages'
  BY <1>0, <1>1, <1>2, <1>3 DEF ClosedAfterImages, Past, RunOf
<1> QED
  BY <1>7, <1>8, <1>9, <1>10, <1>11, <1>12, <1>13 DEF WriterInv

LEMMA OpenStep == WriterInv /\ open_file => WriterInv'
<1> SUFFICES ASSUME WriterInv, open_file PROVE WriterInv'
  OBVIOUS
<1>0. /\ TypeOK /\ Stream /\ Messages /\ Files /\ AllBegun /\ FirstsHandled
      /\ ClosedOver /\ ClosedAfterImages
  BY DEF WriterInv
<1>1. PICK file \in Run :
         /\ \A r \in Rank : /\ pc[r] = "H5Fcreate" /\ pc'[r] = "image" /\ file_id_[r] = NO_RUN_ID
                            /\ meta[r] \in StoreStream /\ RunOf(r) = file /\ meta[r].i_image = 0
         /\ file_id_' = [r \in Rank |-> file] /\ current_run_id_' = file_id_'
         /\ pc' = [r \in Rank |-> "image"]
         /\ UNCHANGED <<agentVars, meta, image_counter_, outVars>>
  BY <1>0, AllOpened
<1>2. UNCHANGED <<sent, queue, lost, meta, image_counter_, closed>>
  BY <1>1 DEF agentVars, outVars
<1>3. Opened' = closed \cup {file} /\ Opened = closed
  BY <1>1, <1>2, Constants DEF Opened
<1>4. \A r \in Rank : ~Beginning(r)'
  BY <1>1 DEF Beginning
<1>5. TypeOK'
  <2>1. file_id_' \in [Rank -> Run \cup {NO_RUN_ID}] /\ current_run_id_' = file_id_'
    BY <1>1
  <2>2. pc' \in [Rank -> {"recv", "image", "H5Fcreate", "H5Fclose", "end_run", "dead"}]
    BY <1>1
  <2> QED
    BY <1>0, <1>2, <2>1, <2>2 DEF TypeOK
<1>6. Stream' /\ Messages'
  BY <1>0, <1>1, SameMessages
<1>7. Files'
  BY <1>1, <1>2 DEF Files, RunOf
<1>8. AllBegun'
  <2>1. SUFFICES ASSUME NEW run \in closed \cup {file}, NEW r \in Rank
                 PROVE  /\ meta'[r] # <<>>
                        /\ RunOf(r)' > run \/ (RunOf(r)' = run /\ ~Beginning(r)')
    BY <1>3 DEF AllBegun, Begun
  <2>2. RunOf(r)' = RunOf(r) /\ meta'[r] = meta[r]
    BY <1>2 DEF RunOf
  <2>3. CASE run = file
    BY <1>1, <1>4, <2>2, <2>3, MessageTypes
  <2>4. CASE run \in closed
    BY <1>0, <1>3, <1>4, <2>2, <2>4 DEF AllBegun, Begun
  <2> QED
    BY <2>1, <2>3, <2>4
<1>9. FirstsHandled'
  <2>1. SUFFICES ASSUME NEW k \in 1 .. Len(sent), NEW r \in Rank, sent[k].i_image = 0, <<r, sent[k]>> \notin lost
                 PROVE  \/ \E i \in 1 .. Len(queue[r]) : queue[r][i] = sent[k]
                        \/ sent[k].run_id \in closed \cup {file}
    BY <1>2, <1>3 DEF FirstsHandled
  <2> QED
    BY <1>0, <1>1, <1>3, <2>1 DEF FirstsHandled, RunOf
<1>10. ClosedOver'
  BY <1>0, <1>2 DEF ClosedOver, Over, Whole
<1>11. ClosedAfterImages'
  <2>1. SUFFICES ASSUME NEW run \in closed, NEW k \in 1 .. Len(sent), sent[k].run_id = run, NEW r \in Rank
                 PROVE  Past(r, run, sent[k].i_image)'
    BY <1>2 DEF ClosedAfterImages, Past, RunOf
  <2>2. Past(r, run, sent[k].i_image) /\ pc[r] = "H5Fcreate"
    BY <1>0, <1>1, <2>1 DEF ClosedAfterImages
  <2> QED
    BY <1>2, <2>2 DEF Past, RunOf
<1> QED
  BY <1>5, <1>6, <1>7, <1>8, <1>9, <1>10, <1>11 DEF WriterInv

LEMMA CloseStep == WriterInv /\ close_file => WriterInv'
<1> SUFFICES ASSUME WriterInv, close_file PROVE WriterInv'
  OBVIOUS
<1>0. /\ TypeOK /\ Stream /\ Messages /\ Files /\ AllBegun /\ FirstsHandled
      /\ ClosedOver /\ ClosedAfterImages
  BY DEF WriterInv
<1>1. PICK file \in Run :
         /\ \A r \in Rank : /\ pc[r] = "H5Fclose" /\ file_id_[r] = file /\ meta[r] \in StoreStream
                            /\ Beginning(r) \/ Whole(meta[r])
                            /\ Beginning(r) <=> (meta[r].i_image = 0 /\ RunOf(r) # file)
                            /\ pc'[r] = IF Beginning(r) THEN "H5Fcreate" ELSE "end_run"
         /\ closed' = closed \cup {file}
         /\ file_id_' = [r \in Rank |-> NO_RUN_ID] /\ current_run_id_' = file_id_'
         /\ pc' \in [Rank -> {"recv", "image", "H5Fcreate", "H5Fclose", "end_run", "dead"}]
         /\ UNCHANGED <<agentVars, meta, image_counter_>>
  BY <1>0, AllClosed
<1>2. UNCHANGED <<sent, queue, lost, meta, image_counter_>>
  BY <1>1 DEF agentVars
<1>3. Opened = closed \cup {file} /\ Opened' = Opened
  BY <1>1, Constants DEF Opened
<1>4. \A r \in Rank : Beginning(r)' <=> Beginning(r)
  BY <1>1 DEF Beginning
<1>5. \A r \in Rank : RunOf(r)' = RunOf(r) /\ RunOf(r) \in Nat /\ meta[r].i_image \in Nat
  BY <1>1, <1>2, MessageTypes DEF RunOf
<1>6. \A r \in Rank : RunOf(r) > file \/ (RunOf(r) = file /\ ~Beginning(r))
  BY <1>0, <1>3 DEF AllBegun, Begun
<1>7. TypeOK'
  <2>1. file_id_' \in [Rank -> Run \cup {NO_RUN_ID}] /\ current_run_id_' = file_id_' /\ closed' \subseteq Run
    BY <1>0, <1>1 DEF TypeOK
  <2> QED
    BY <1>0, <1>1, <1>2, <2>1 DEF TypeOK
<1>8. Stream' /\ Messages'
  BY <1>0, <1>1, SameMessages
<1>9. Files'
  BY <1>1, <1>2 DEF Files, Beginning
<1>10. AllBegun'
  BY <1>0, <1>2, <1>3, <1>4, <1>5 DEF AllBegun, Begun
<1>11. FirstsHandled'
  BY <1>0, <1>2, <1>3, <1>4 DEF FirstsHandled
<1>12. ClosedOver'
  <2>1. Over(file)
    <3>1. PICK k \in 1 .. Len(sent) : sent[k] = meta[0]
      BY <1>0, <1>1, MessageTypes, Constants DEF Messages, Handles, IsSent
    <3> QED
      BY <1>1, <1>6, <3>1, Constants DEF Over, RunOf
  <2>2. \A run : Over(run)' <=> Over(run)
    BY <1>2 DEF Over, Whole
  <2> QED
    BY <1>0, <1>1, <2>1, <2>2 DEF ClosedOver
<1>13. ClosedAfterImages'
  <2>1. SUFFICES ASSUME NEW run \in closed \cup {file}, NEW k \in 1 .. Len(sent), sent[k].run_id = run, NEW r \in Rank
                 PROVE  Past(r, run, sent[k].i_image)'
    BY <1>1, <1>2 DEF ClosedAfterImages, Past, RunOf
  <2>2. meta'[r] = meta[r] /\ meta[r] # <<>>
    BY <1>1, <1>2, MessageTypes
  <2>3. CASE run \in closed
    <3>1. Past(r, run, sent[k].i_image)
      BY <1>0, <2>1, <2>3 DEF ClosedAfterImages
    <3>2. RunOf(r) = run => ~Beginning(r)
      BY <1>0, <1>3, <1>5, <2>3, Constants DEF AllBegun, Begun, TypeOK
    <3> QED
      BY <1>1, <1>2, <3>1, <3>2 DEF Past, RunOf
  <2>4. CASE run = file
    <3>1. CASE RunOf(r) > file
      BY <1>2, <1>5, <2>2, <2>4, <3>1 DEF Past, RunOf
    <3>2. CASE RunOf(r) = file /\ ~Beginning(r)
      <4>1. Whole(meta[r]) /\ pc'[r] = "end_run"
        BY <1>1, <3>2
      <4>2. PICK j \in 1 .. Len(sent) : sent[j] = meta[r]
        BY <1>0, <2>2 DEF Messages, Handles, IsSent
      <4>3. sent[k].n_images = meta[r].n_images /\ sent[k].i_image < sent[k].n_images
        BY <1>0, <2>1, <2>4, <3>2, <4>2 DEF Stream, RunOf
      <4>4. sent[k].i_image \in Nat /\ sent[k].n_images \in Nat
        BY <1>0, SentMessages, MessageTypes
      <4>5. meta[r].i_image >= sent[k].i_image
        BY <1>5, <4>1, <4>3, <4>4 DEF Whole
      <4> QED
        BY <1>2, <1>5, <2>2, <2>4, <3>2, <4>1, <4>4, <4>5 DEF Past, RunOf
    <3> QED
      BY <1>6, <3>1, <3>2
  <2> QED
    BY <2>1, <2>3, <2>4
<1> QED
  BY <1>7, <1>8, <1>9, <1>10, <1>11, <1>12, <1>13 DEF WriterInv

LEMMA WriterStep == WriterInv /\ [Next]_vars => WriterInv'
<1> SUFFICES ASSUME WriterInv, [Next]_vars PROVE WriterInv'
  OBVIOUS
<1>1. CASE Publish
  BY <1>1, PublishStep
<1>2. CASE open_file
  BY <1>2, OpenStep
<1>3. CASE close_file
  BY <1>3, CloseStep
<1>4. ASSUME NEW r \in Rank, Step(r)
      PROVE  WriterInv'
  BY <1>4, RecvStep, MoveStep DEF Step
<1>5. CASE UNCHANGED vars
  <2>1. UNCHANGED <<sent, queue, lost, pc, meta, current_run_id_, file_id_, image_counter_, closed>>
    BY <1>5 DEF vars, agentVars, writerVars, outVars
  <2>2. /\ TypeOK /\ Stream /\ Messages /\ Files /\ AllBegun /\ FirstsHandled
        /\ ClosedOver /\ ClosedAfterImages
    BY DEF WriterInv
  <2>3. TypeOK'
    BY <2>1, <2>2 DEF TypeOK
  <2>4. Stream' /\ Messages'
    BY <2>1, <2>2, SameMessages DEF agentVars
  <2>5. \A r \in Rank : (Beginning(r)' <=> Beginning(r)) /\ RunOf(r)' = RunOf(r)
    BY <2>1 DEF Beginning, RunOf
  <2>6. Files'
    BY <2>1, <2>2, <2>5 DEF Files, Whole
  <2>7. AllBegun' /\ FirstsHandled'
    BY <2>1, <2>2, <2>5 DEF AllBegun, Begun, FirstsHandled, Opened
  <2>8. ClosedOver' /\ ClosedAfterImages'
    BY <2>1, <2>2, <2>5 DEF ClosedOver, Over, Whole, ClosedAfterImages, Past
  <2> QED
    BY <2>3, <2>4, <2>6, <2>7, <2>8 DEF WriterInv
<1> QED
  BY <1>1, <1>2, <1>3, <1>4, <1>5 DEF Next

\* Two ranks that wait for a file to be created wait for the same one: a rank at the
\* earlier run got its first message, and so did, by assumption, the other, which can
\* only be past it if all of them have begun it.
LEMMA SameCreate ==
    ASSUME WriterInv, \A run \in Run : LostFirst(run) \in {{}, Rank},
           NEW r \in Rank, NEW s \in Rank, pc[r] = "H5Fcreate", pc[s] = "H5Fcreate"
    PROVE  ~(RunOf(r) < RunOf(s))
<1> SUFFICES ASSUME RunOf(r) < RunOf(s) PROVE FALSE
  OBVIOUS
<1> DEFINE m == meta[r]
<1>0. TypeOK /\ Stream /\ Messages /\ Files /\ AllBegun /\ FirstsHandled
  BY DEF WriterInv
<1>1. /\ Handles(r) /\ Waits(s) /\ m # <<>> /\ meta[s] # <<>>
      /\ IsSent(m) /\ <<r, m>> \notin lost /\ m.i_image = 0
  BY <1>0 DEF Messages, Handles, Files
<1>2. m \in StoreStream /\ m.run_id \in Run /\ m.run_id \in Nat /\ RunOf(s) \in Nat /\ RunOf(r) = m.run_id
  BY <1>0, <1>1, RankMessages, MessageTypes DEF RunOf
<1>3. r \notin LostFirst(m.run_id)
  <2>1. SUFFICES ASSUME NEW l \in lost, l[1] = r, l[2].run_id = m.run_id, l[2].i_image = 0
                 PROVE  FALSE
    BY DEF LostFirst
  <2>2. l \in Rank \X StoreStream /\ IsSent(l[2])
    BY <1>0 DEF Messages
  <2>3. l[2] = m
    BY <1>0, <1>1, <2>1, <2>2, SameMessage
  <2>4. l = <<r, m>>
    BY <2>1, <2>2, <2>3
  <2> QED
    BY <1>1, <2>4
<1>4. LostFirst(m.run_id) = {}
  BY <1>2, <1>3
<1>5. <<s, m>> \notin lost
  <2>1. ASSUME <<s, m>> \in lost
        PROVE  s \in LostFirst(m.run_id)
    <3>1. <<s, m>>[1] = s /\ <<s, m>>[2] = m
      OBVIOUS
    <3> QED
      BY <1>1, <2>1, <3>1 DEF LostFirst
  <2> QED
    BY <1>4, <2>1
<1>6. \/ \E i \in 1 .. Len(queue[s]) : queue[s][i] = m
      \/ Beginning(s) /\ meta[s] = m
      \/ m.run_id \in Opened
  <2>1. PICK k \in 1 .. Len(sent) : sent[k] = m
    BY <1>1 DEF IsSent
  <2> QED
    BY <1>0, <1>1, <1>5, <2>1 DEF FirstsHandled
<1>7. ~ \E i \in 1 .. Len(queue[s]) : queue[s][i] = m
  <2>1. \A i \in 1 .. Len(queue[s]) : Before(meta[s], queue[s][i])
    BY <1>1 DEF Waits
  <2>2. ~Before(meta[s], m)
    BY <1>2 DEF Before, RunOf
  <2> QED
    BY <2>1, <2>2
<1>8. meta[s] # m
  BY <1>2 DEF RunOf
<1>9. m.run_id \notin Opened
  BY <1>0, <1>2 DEF AllBegun, Begun, Beginning
<1> QED
  BY <1>6, <1>7, <1>8, <1>9

LEMMA InvMatches == WriterInv => CollectivesMatch
<1> SUFFICES ASSUME WriterInv, \A run \in Run : LostFirst(run) \in {{}, Rank},
                    NEW r \in Rank, NEW s \in Rank,
                    pc[r] \in {"H5Fcreate", "H5Fclose"}, pc[s] \in {"H5Fcreate", "H5Fclose"}
             PROVE  WaitsFor(r) = WaitsFor(s)
  BY DEF CollectivesMatch
<1>1. TypeOK /\ Messages /\ Files
  BY DEF WriterInv
<1>2. file_id_[r] = file_id_[s]
  BY <1>1 DEF Files
<1>3. CASE pc[r] = "H5Fclose" /\ pc[s] = "H5Fclose"
  BY <1>2, <1>3 DEF WaitsFor
<1>4. CASE pc[r] # pc[s]
  BY <1>1, <1>2, <1>4 DEF Files
<1>5. CASE pc[r] = "H5Fcreate" /\ pc[s] = "H5Fcreate"
  <2>1. ~(RunOf(r) < RunOf(s)) /\ ~(RunOf(s) < RunOf(r))
    BY <1>5, SameCreate
  <2>2. RunOf(r) \in Nat /\ RunOf(s) \in Nat
    BY <1>1, <1>5, RankMessages, MessageTypes DEF Messages, Handles, RunOf
  <2> QED
    BY <1>5, <2>1, <2>2 DEF WaitsFor
<1> QED
  BY <1>3, <1>4, <1>5

-----------------------------------------------------------------------------
(* Theorems. *)

\* The stream, what the ranks hold of it, and the file they share keep fitting
\* together: for any number of ranks and any length of the queues.
THEOREM WriterInvKept == Spec => []WriterInv
  BY WriterStart, WriterStep, PTL DEF Spec

\* What main() receives and H5Writer keeps are of their types; in particular no run is
\* closed that was not open.
THEOREM WriterTypes == Spec => []TypeOK
<1>1. WriterInv => TypeOK
  BY DEF WriterInv
<1> QED
  BY <1>1, WriterInvKept, PTL

\* close_run(), called by each rank as the metadata tells it, closes the shared file
\* only when every rank is past every image of the run that was published.
THEOREM ClosedBehindImages == Spec => []ClosedAfterImages
<1>1. WriterInv => ClosedAfterImages
  BY DEF WriterInv
<1> QED
  BY <1>1, WriterInvKept, PTL

\* Ranks in H5Fcreate() and H5Fclose() are in the same call for the same file, if the
\* first message of every run reached all ranks or none.
THEOREM SameCollectives == Spec => []CollectivesMatch
  BY InvMatches, WriterInvKept, PTL
=============================================================================
