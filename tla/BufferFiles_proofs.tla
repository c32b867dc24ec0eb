------------------------- MODULE BufferFiles_proofs -------------------------
(***************************************************************************)
(* The safety properties of BufferFiles, for any finite set of pulses, any *)
(* size of files, ring and queue, and any number of deaths.  The invariant *)
(* comes in layers, each proved with the help of those before it: types;   *)
(* the order of the pulses on their way from the receiver to the writer;   *)
(* the ring; the files; the reader.                                        *)
(***************************************************************************)
EXTENDS BufferFiles, SequenceTheorems, TLAPS

USE FilesAssumption

PulseOrNone == Pulses \union {0}
FrameMeta   == [pulse_id : PulseOrNone, frame_index : {0}, daq_rec : {0}, n_recv_packets : {0}]
FileFrame   == [meta : PulseOrNone, data : PulseOrNone]
FileContent == [exists : BOOLEAN, sized : BOOLEAN, frame : [Index -> FileFrame]]
ReadEntry   == [frame : FileFrame, passed : BOOLEAN]

TypeInv ==
    /\ meta_buffer \in [Ram!Slot -> [Ram!Module -> FrameMeta]]
    /\ image_buffer \in [Ram!Slot -> [Ram!Module -> PulseOrNone]]
    /\ storing \in [step : {"idle", "data", "announce"}, pulse : PulseOrNone]
    /\ storing.step # "idle" => storing.pulse \in Pulses
    /\ announced \in PulseOrNone
    /\ queue \in Seq(Pulses)
    /\ wpc \in {"recv", "meta", "data", "open", "size", "write", "pixels"}
    /\ pulse_id \in PulseOrNone
    /\ wpc # "recv" => pulse_id \in Pulses
    /\ file_buff \in FileFrame
    /\ current \in File \union {NoFile}
    /\ latest \in File \union {NoFile}
    /\ files \in [File -> FileContent]
    /\ rpc \in {"idle", "read", "threw"}
    /\ rfile \in File \union {NoFile}
    /\ rpc # "idle" => rfile \in File
    /\ rblock \in Seq(ReadEntry) /\ Len(rblock) <= FILE_MOD
    /\ rpc = "idle" => rblock = <<>>

\* Pulses come in order: what waits is behind what the writer works on, and what the
\* receiver stores is behind what it announced.
Ordered ==
    /\ \A i, j \in 1 .. Len(queue) : i < j => queue[i] < queue[j]
    /\ \A i \in 1 .. Len(queue) : pulse_id < queue[i] /\ queue[i] <= announced
    /\ pulse_id <= announced
    /\ storing.step # "idle" => announced < storing.pulse

\* What is pending is in the ring, unless its slot was reused: the pixels of the frame
\* that is being stored can only cost a pulse that is lapped already.
RingKeeps ==
    /\ storing.step = "announce" => Ram!DataAt(storing.pulse, 0) = storing.pulse
    /\ \A q \in Pending : q \notin lapped =>
          /\ Ram!DataAt(q, 0) = q
          /\ storing.step # "idle" => Ram!SlotOf(q) # Ram!SlotOf(storing.pulse)

\* The frame in hand is the one asked for and goes into the file that is open.
InHand ==
    /\ wpc \in {"open", "size", "write", "pixels"} =>
          /\ file_buff.meta = pulse_id
          /\ file_buff.data = pulse_id \/ pulse_id \in lapped
    /\ wpc \in {"write", "pixels"} => current = get_filename(pulse_id)

\* Files are opened and closed in the order of their pulses.
FilesOrdered ==
    /\ current # NoFile => /\ files[current].sized
                           /\ current <= get_filename(pulse_id)
                           /\ latest < current
    /\ latest # NoFile => files[latest].sized /\ latest < get_filename(pulse_id)

\* While the pixels of a frame are missing its metadata are there.
MetaFirst == wpc = "pixels" => Written(pulse_id).meta = pulse_id

FilesInv == InHand /\ FilesOrdered /\ MetaFirst /\ FramesInPlace /\ FramesWhole

\* What was final stays final.
ReadsInv ==
    \A k \in 1 .. Len(rblock) :
        rblock[k].passed => /\ rblock[k].frame = files[rfile].frame[k - 1]
                            /\ Passed(rfile * FILE_MOD + k - 1)

-----------------------------------------------------------------------------
(* Remainders and queues. *)

\* Quotient and remainder.
LEMMA ModEq ==
    ASSUME NEW n \in Nat \ {0}, NEW a \in Nat
    PROVE  /\ a = n * (a \div n) + (a % n)
           /\ a \div n \in Nat
           /\ a % n \in 0 .. n - 1
  OBVIOUS

\* Multiples of n are at least n apart.
LEMMA MultiplesApart ==
    ASSUME NEW n \in Nat \ {0}, NEW p \in Int, NEW q \in Int, p < q
    PROVE  n * p + n <= n * q
<1>1. q = p + 1 + (q - p - 1) /\ q - p - 1 \in Nat
  OBVIOUS
<1>2. n * q = n * p + n + n * (q - p - 1)
  BY <1>1
<1>3. n * (q - p - 1) \in Nat
  BY <1>1
<1>4. n * p \in Int
  OBVIOUS
<1> QED
  BY <1>2, <1>3, <1>4

\* What a sequence holds after an element was appended.
LEMMA RangeOfAppend ==
    ASSUME NEW S, NEW s \in Seq(S), NEW x \in S
    PROVE  Range(Append(s, x)) \subseteq Range(s) \union {x}
<1>1. \A i \in 1 .. Len(s) + 1 : (i \in 1 .. Len(s) /\ Append(s, x)[i] = s[i]) \/ Append(s, x)[i] = x
  OBVIOUS
<1>2. DOMAIN Append(s, x) = 1 .. Len(s) + 1 /\ DOMAIN s = 1 .. Len(s)
  OBVIOUS
<1> QED
  BY <1>1, <1>2 DEF Range

\* What it held before its first was taken.
LEMMA RangeOfTail ==
    ASSUME NEW S, NEW s \in Seq(S), s # <<>>
    PROVE  Range(Tail(s)) \union {Head(s)} \subseteq Range(s)
<1>1. Len(s) \in Nat /\ Len(s) > 0 /\ Head(s) = s[1]
  OBVIOUS
<1>2. \A i \in 1 .. Len(s) - 1 : Tail(s)[i] = s[i + 1] /\ i + 1 \in 1 .. Len(s)
  BY <1>1
<1>3. DOMAIN Tail(s) = 1 .. Len(s) - 1 /\ DOMAIN s = 1 .. Len(s)
  BY <1>1
<1> QED
  BY <1>1, <1>2, <1>3 DEF Range

-----------------------------------------------------------------------------
(* The place of a pulse in the files. *)

LEMMA PlaceType ==
    ASSUME NEW p \in Pulses
    PROVE  /\ p \in Nat /\ p # 0
           /\ get_filename(p) \in File /\ get_filename(p) \in Nat
           /\ get_file_frame_index(p) \in Index
           /\ p = get_filename(p) * FILE_MOD + get_file_frame_index(p)
<1>1. p \in Nat /\ p # 0
  OBVIOUS
<1>2. /\ p = FILE_MOD * (p \div FILE_MOD) + (p % FILE_MOD)
      /\ p \div FILE_MOD \in Nat /\ p % FILE_MOD \in 0 .. FILE_MOD - 1
  BY <1>1, ModEq
<1>3. FILE_MOD * (p \div FILE_MOD) = (p \div FILE_MOD) * FILE_MOD
  BY <1>2
<1> QED
  BY <1>1, <1>2, <1>3 DEF get_filename, get_file_frame_index, File, Index

LEMMA FileType == File \subseteq Nat /\ NoFile \notin File
  BY PlaceType DEF File, NoFile

\* Two pulses have two places.
LEMMA PlacesDiffer ==
    ASSUME NEW p \in Pulses, NEW q \in Pulses,
           get_filename(p) = get_filename(q), get_file_frame_index(p) = get_file_frame_index(q)
    PROVE  p = q
  BY PlaceType

\* Later pulses are in later files or in the same.
LEMMA FilesMonotone ==
    ASSUME NEW p \in Nat, NEW q \in Nat, p <= q
    PROVE  get_filename(p) <= get_filename(q) /\ get_filename(p) \in Nat /\ get_filename(q) \in Nat
<1> DEFINE a == p \div FILE_MOD
           b == q \div FILE_MOD
<1>1. p = FILE_MOD * a + (p % FILE_MOD) /\ a \in Nat /\ p % FILE_MOD \in 0 .. FILE_MOD - 1
  BY ModEq
<1>2. q = FILE_MOD * b + (q % FILE_MOD) /\ b \in Nat /\ q % FILE_MOD \in 0 .. FILE_MOD - 1
  BY ModEq
<1> HIDE DEF a, b
<1>3. FILE_MOD * a \in Int /\ FILE_MOD * b \in Int
  BY <1>1, <1>2
<1>4. ~(b < a)
  BY <1>1, <1>2, <1>3, MultiplesApart
<1> QED
  BY <1>1, <1>2, <1>4 DEF get_filename, a, b

LEMMA SlotType == ASSUME NEW p \in PulseOrNone PROVE Ram!SlotOf(p) \in Ram!Slot
<1>1. p \in Nat
  BY DEF PulseOrNone
<1> QED
  BY <1>1, ModEq DEF Ram!SlotOf, Ram!Slot

-----------------------------------------------------------------------------
(* Types. *)

LEMMA TypeInit == Init => TypeInv
<1> SUFFICES ASSUME Init PROVE TypeInv
  OBVIOUS
<1> USE DEF Init, TypeInv
<1>1. meta_buffer \in [Ram!Slot -> [Ram!Module -> FrameMeta]]
  BY DEF Ram!RamInit, Ram!ZeroMeta, FrameMeta, PulseOrNone
<1>2. image_buffer \in [Ram!Slot -> [Ram!Module -> PulseOrNone]]
  BY DEF Ram!RamInit, PulseOrNone
<1>3. storing \in [step : {"idle", "data", "announce"}, pulse : PulseOrNone] /\ storing.step = "idle"
  BY DEF Idle, PulseOrNone
<1>4. file_buff \in FileFrame
  BY DEF Hole, FileFrame, PulseOrNone
<1>5. files \in [File -> FileContent]
  BY DEF Absent, Hole, FileContent, FileFrame, PulseOrNone
<1> QED
  BY <1>1, <1>2, <1>3, <1>4, <1>5 DEF PulseOrNone

\* What the writes of a frame change in the files: one place in one file.
LEMMA MetaWritten ==
    ASSUME TypeInv, WriteFrameMeta
    PROVE  /\ files' \in [File -> FileContent]
           /\ \A f \in File : files'[f].sized = files[f].sized
           /\ Written(pulse_id)' = [Written(pulse_id) EXCEPT !.meta = file_buff.meta]
           /\ \A f \in File, i \in Index :
                 <<f, i>> # <<get_filename(pulse_id), get_file_frame_index(pulse_id)>>
                    => files'[f].frame[i] = files[f].frame[i]
<1> DEFINE f == get_filename(pulse_id)
           i == get_file_frame_index(pulse_id)
<1>1. pulse_id \in Pulses /\ pulse_id' = pulse_id
  BY DEF WriteFrameMeta, TypeInv
<1>2. f \in File /\ i \in Index
  BY <1>1, PlaceType
<1>3. files' = [files EXCEPT ![f].frame[i].meta = file_buff.meta]
  BY DEF WriteFrameMeta
<1>4. files \in [File -> FileContent] /\ file_buff.meta \in PulseOrNone
  BY DEF TypeInv, FileFrame
<1> HIDE DEF f, i
<1>5. [files[f].frame[i] EXCEPT !.meta = file_buff.meta] \in FileFrame
  BY <1>2, <1>4 DEF FileContent, FileFrame
<1>6. [files[f].frame EXCEPT ![i].meta = file_buff.meta] \in [Index -> FileFrame]
  BY <1>2, <1>4, <1>5 DEF FileContent
<1>7. files' \in [File -> FileContent]
  BY <1>2, <1>3, <1>4, <1>6 DEF FileContent
<1>8. files'[f].frame[i] = [files[f].frame[i] EXCEPT !.meta = file_buff.meta]
  BY <1>2, <1>3, <1>4 DEF FileContent
<1>9. \A g \in File, j \in Index : <<g, j>> # <<f, i>> => files'[g].frame[j] = files[g].frame[j]
  BY <1>2, <1>3, <1>4 DEF FileContent
<1>10. \A g \in File : files'[g].sized = files[g].sized
  BY <1>2, <1>3, <1>4 DEF FileContent
<1> QED
  BY <1>1, <1>7, <1>8, <1>9, <1>10 DEF f, i, Written

LEMMA DataWritten ==
    ASSUME TypeInv, WriteFrameData
    PROVE  /\ files' \in [File -> FileContent]
           /\ \A f \in File : files'[f].sized = files[f].sized
           /\ Written(pulse_id)' = [Written(pulse_id) EXCEPT !.data = file_buff.data]
           /\ \A f \in File, i \in Index :
                 <<f, i>> # <<get_filename(pulse_id), get_file_frame_index(pulse_id)>>
                    => files'[f].frame[i] = files[f].frame[i]
<1> DEFINE f == get_filename(pulse_id)
           i == get_file_frame_index(pulse_id)
<1>1. pulse_id \in Pulses /\ pulse_id' = pulse_id
  BY DEF WriteFrameData, TypeInv
<1>2. f \in File /\ i \in Index
  BY <1>1, PlaceType
<1>3. files' = [files EXCEPT ![f].frame[i].data = file_buff.data]
  BY DEF WriteFrameData
<1>4. files \in [File -> FileContent] /\ file_buff.data \in PulseOrNone
  BY DEF TypeInv, FileFrame
<1> HIDE DEF f, i
<1>5. [files[f].frame[i] EXCEPT !.data = file_buff.data] \in FileFrame
  BY <1>2, <1>4 DEF FileContent, FileFrame
<1>6. [files[f].frame EXCEPT ![i].data = file_buff.data] \in [Index -> FileFrame]
  BY <1>2, <1>4, <1>5 DEF FileContent
<1>7. files' \in [File -> FileContent]
  BY <1>2, <1>3, <1>4, <1>6 DEF FileContent
<1>8. files'[f].frame[i] = [files[f].frame[i] EXCEPT !.data = file_buff.data]
  BY <1>2, <1>3, <1>4 DEF FileContent
<1>9. \A g \in File, j \in Index : <<g, j>> # <<f, i>> => files'[g].frame[j] = files[g].frame[j]
  BY <1>2, <1>3, <1>4 DEF FileContent
<1>10. \A g \in File : files'[g].sized = files[g].sized
  BY <1>2, <1>3, <1>4 DEF FileContent
<1> QED
  BY <1>1, <1>7, <1>8, <1>9, <1>10 DEF f, i, Written

\* Opening a file changes no frame.
LEMMA FileOpened ==
    ASSUME TypeInv, CreateFile \/ SizeFile
    PROVE  /\ files' \in [File -> FileContent]
           /\ \A f \in File : files'[f].frame = files[f].frame /\ (files[f].sized => files'[f].sized)
           /\ SizeFile => files'[get_filename(pulse_id)].sized
<1> DEFINE f == get_filename(pulse_id)
<1>1. pulse_id \in Pulses
  BY DEF CreateFile, SizeFile, TypeInv
<1>2. f \in File
  BY <1>1, PlaceType
<1>3. files \in [File -> FileContent]
  BY DEF TypeInv
<1>4. CASE CreateFile
  <2>1. files' = [files EXCEPT ![f].exists = TRUE] /\ ~SizeFile
    BY <1>4 DEF CreateFile, SizeFile
  <2> HIDE DEF f
  <2> QED
    BY <1>2, <1>3, <2>1 DEF FileContent
<1>5. CASE SizeFile
  <2>1. files' = [files EXCEPT ![f].sized = TRUE]
    BY <1>5 DEF SizeFile
  <2> HIDE DEF f
  <2>2. /\ files' \in [File -> FileContent] /\ files'[f].sized
        /\ \A g \in File : files'[g].frame = files[g].frame /\ (files[g].sized => files'[g].sized)
    BY <1>2, <1>3, <2>1 DEF FileContent
  <2> QED
    BY <2>2 DEF f
<1> QED
  BY <1>4, <1>5

LEMMA ReceiverType == TypeInv /\ (StoreMeta \/ StoreData \/ Announce) => TypeInv'
<1> SUFFICES ASSUME TypeInv, StoreMeta \/ StoreData \/ Announce PROVE TypeInv'
  OBVIOUS
<1> USE DEF TypeInv, fileVars, writerVars, readerVars, PulseOrNone
<1>1. CASE StoreMeta
  <2>1. PICK p \in Pulses :
          /\ Ram!WriteMeta(0, [Ram!ZeroMeta EXCEPT !.pulse_id = p])
          /\ storing' = [step |-> "data", pulse |-> p]
    BY <1>1 DEF StoreMeta
  <2>2. [Ram!ZeroMeta EXCEPT !.pulse_id = p] \in FrameMeta
    BY DEF Ram!ZeroMeta, FrameMeta
  <2>3. meta_buffer' \in [Ram!Slot -> [Ram!Module -> FrameMeta]] /\ image_buffer' = image_buffer
    BY <2>1, <2>2 DEF Ram!WriteMeta
  <2> QED
    BY <1>1, <2>1, <2>3 DEF StoreMeta
<1>2. CASE StoreData
  <2>1. image_buffer' \in [Ram!Slot -> [Ram!Module -> PulseOrNone]] /\ meta_buffer' = meta_buffer
    BY <1>2 DEF StoreData, Ram!WriteData
  <2>2. storing' \in [step : {"idle", "data", "announce"}, pulse : PulseOrNone] /\ storing'.pulse = storing.pulse
    BY <1>2 DEF StoreData
  <2> QED
    BY <1>2, <2>1, <2>2 DEF StoreData
<1>3. CASE Announce
  <2>1. storing' \in [step : {"idle", "data", "announce"}, pulse : PulseOrNone] /\ storing'.step = "idle"
    BY <1>3 DEF Announce, Idle
  <2>2. queue' \in Seq(Pulses) /\ announced' \in PulseOrNone
    BY <1>3 DEF Announce
  <2> QED
    BY <1>3, <2>1, <2>2 DEF Announce, ringVars
<1> QED
  BY <1>1, <1>2, <1>3

LEMMA WriterType == TypeInv /\ Writer => TypeInv'
<1> SUFFICES ASSUME TypeInv, Writer PROVE TypeInv'
  OBVIOUS
<1> USE DEF TypeInv, ringVars, recvVars, fileVars, readerVars
<1>1. CASE ZmqRecv
  BY <1>1 DEF ZmqRecv, PulseOrNone
<1>2. CASE ReadFrameMeta
  <2>1. Ram!MetaAt(pulse_id, 0) \in FrameMeta
    BY SlotType DEF Ram!MetaAt, Ram!Module, NModules
  <2>2. file_buff' \in FileFrame
    BY <1>2, <2>1 DEF ReadFrameMeta, FrameMeta, FileFrame
  <2> QED
    BY <1>2, <2>2 DEF ReadFrameMeta
<1>3. CASE ReadFrameData
  <2>1. Ram!DataAt(pulse_id, 0) \in PulseOrNone
    BY SlotType DEF Ram!DataAt, Ram!Module, NModules
  <2>2. file_buff' \in FileFrame
    BY <1>3, <2>1 DEF ReadFrameData, FileFrame
  <2> QED
    BY <1>3, <2>2 DEF ReadFrameData
<1>4. CASE KeepFile
  BY <1>4 DEF KeepFile
<1>5. CASE CloseFile
  BY <1>5 DEF CloseFile
<1>6. CASE CreateFile
  <2>1. files' \in [File -> FileContent]
    BY <1>6, FileOpened
  <2> QED
    BY <1>6, <2>1 DEF CreateFile
<1>7. CASE SizeFile
  <2>1. files' \in [File -> FileContent] /\ get_filename(pulse_id) \in File
    BY <1>7, FileOpened, PlaceType DEF SizeFile
  <2> QED
    BY <1>7, <2>1 DEF SizeFile
<1>8. CASE WriteFrameMeta
  <2>1. files' \in [File -> FileContent]
    BY <1>8, MetaWritten
  <2> QED
    BY <1>8, <2>1 DEF WriteFrameMeta
<1>9. CASE WriteFrameData
  <2>1. files' \in [File -> FileContent]
    BY <1>9, DataWritten
  <2> QED
    BY <1>9, <2>1 DEF WriteFrameData
<1>10. CASE Restart
  BY <1>10 DEF Restart, Hole, FileFrame, PulseOrNone
<1>11. CASE WriteFails
  BY <1>11 DEF WriteFails
<1> HIDE DEF TypeInv
<1> QED
  BY <1>1, <1>2, <1>3, <1>4, <1>5, <1>6, <1>7, <1>8, <1>9, <1>10, <1>11
     DEF Writer, WriterStep, WriteShort, Die

LEMMA ReaderType == TypeInv /\ Reader => TypeInv'
<1> SUFFICES ASSUME TypeInv, Reader PROVE TypeInv'
  OBVIOUS
<1> USE DEF TypeInv, ringVars, recvVars, fileVars, writerVars
<1>1. CASE OpenBlock
  BY <1>1 DEF OpenBlock
<1>2. CASE ReadFrame
  <2>1. rblock' \in Seq(ReadEntry) /\ Len(rblock') <= FILE_MOD
    <3>1. Len(rblock) \in Index
      <4>1. Len(rblock) < FILE_MOD
        BY <1>2 DEF ReadFrame
      <4>2. Len(rblock) \in Nat
        OBVIOUS
      <4> HIDE DEF TypeInv
      <4> QED
        BY <4>1, <4>2 DEF Index
    <3>2. rfile \in File
      BY <1>2 DEF ReadFrame
    <3>3. files[rfile].frame[Len(rblock)] \in FileFrame
      BY <3>1, <3>2 DEF FileContent
    <3>4. Passed(rfile * FILE_MOD + Len(rblock)) \in BOOLEAN
      BY DEF Passed
    <3>5. [frame |-> files[rfile].frame[Len(rblock)],
           passed |-> Passed(rfile * FILE_MOD + Len(rblock))] \in ReadEntry
      BY <3>3, <3>4 DEF ReadEntry
    <3> DEFINE entry == [frame |-> files[rfile].frame[Len(rblock)],
                         passed |-> Passed(rfile * FILE_MOD + Len(rblock))]
    <3>6. rblock' = rblock \/ rblock' = Append(rblock, entry)
      BY <1>2 DEF ReadFrame
    <3>7. rblock \in Seq(ReadEntry) /\ Len(rblock) <= FILE_MOD /\ Len(rblock) + 1 <= FILE_MOD
      BY <3>1 DEF Index
    <3> HIDE DEF entry, TypeInv
    <3> QED
      BY <3>5, <3>6, <3>7 DEF entry
  <2> QED
    BY <1>2, <2>1 DEF ReadFrame
<1>3. CASE EndBlock
  BY <1>3 DEF EndBlock
<1> QED
  BY <1>1, <1>2, <1>3 DEF Reader

\* The variables keep their types.
THEOREM TypesKept == Spec => []TypeInv
<1>1. TypeInv /\ [Next]_vars => TypeInv'
  <2>1. TypeInv /\ UNCHANGED vars => TypeInv'
    BY DEF TypeInv, vars, ringVars, recvVars, fileVars, writerVars, readerVars
  <2> QED
    BY <2>1, ReceiverType, WriterType, ReaderType DEF Next
<1> QED
  BY TypeInit, <1>1, PTL DEF Spec

-----------------------------------------------------------------------------
(* The order of the pulses. *)

LEMMA QueueType ==
    ASSUME TypeInv
    PROVE  Len(queue) \in Nat /\ \A i \in 1 .. Len(queue) : queue[i] \in Pulses /\ queue[i] \in Nat
<1>1. queue \in Seq(Pulses)
  BY DEF TypeInv
<1>2. Len(queue) \in Nat /\ \A i \in 1 .. Len(queue) : queue[i] \in Pulses
  BY <1>1
<1> QED
  BY <1>2

LEMMA OrderedInit == Init => Ordered
  BY DEF Init, Ordered, Idle

LEMMA OrderedStep == TypeInv /\ Ordered /\ [Next]_vars => Ordered'
<1> SUFFICES ASSUME TypeInv, Ordered, [Next]_vars PROVE Ordered'
  OBVIOUS
<1>0. /\ queue \in Seq(Pulses) /\ announced \in Nat /\ pulse_id \in Nat
      /\ Len(queue) \in Nat /\ \A i \in 1 .. Len(queue) : queue[i] \in Nat
  <2>1. queue \in Seq(Pulses) /\ announced \in PulseOrNone /\ pulse_id \in PulseOrNone
    BY DEF TypeInv
  <2> QED
    BY <2>1, QueueType DEF PulseOrNone
<1> USE DEF recvVars, writerVars
<1>1. CASE StoreMeta
  <2>1. PICK p \in Pulses : p > announced /\ storing' = [step |-> "data", pulse |-> p]
    BY <1>1 DEF StoreMeta
  <2> QED
    BY <1>1, <1>0, <2>1 DEF StoreMeta, Ordered
<1>2. CASE StoreData
  <2>1. storing'.pulse = storing.pulse /\ storing.step # "idle"
    BY <1>2 DEF StoreData, TypeInv
  <2> QED
    BY <1>2, <2>1 DEF StoreData, Ordered
<1>3. CASE Announce
  <2>1. storing.step # "idle" /\ storing.pulse \in Pulses /\ announced < storing.pulse
    BY <1>3 DEF Announce, TypeInv, Ordered
  <2>2. announced' = storing.pulse /\ storing'.step = "idle" /\ pulse_id' = pulse_id
    BY <1>3 DEF Announce, Idle
  <2>3. queue' = queue \/ queue' = Append(queue, storing.pulse)
    BY <1>3 DEF Announce
  <2>4. \A i \in 1 .. Len(queue') : \/ i \in 1 .. Len(queue) /\ queue'[i] = queue[i]
                                    \/ i = Len(queue) + 1 /\ queue'[i] = storing.pulse
    BY SMTT(30), <2>3, <1>0
  <2>5. Len(queue') \in Nat /\ storing.pulse \in Nat
    <3>1. storing.pulse \in Nat
      BY <2>1
    <3>2. queue' \in Seq(Pulses)
      BY <1>0, <2>1, <2>3
    <3> QED
      BY <3>1, <3>2
  <2>6. \A i, j \in 1 .. Len(queue') : i < j => queue'[i] < queue'[j]
    BY <1>0, <2>1, <2>4, <2>5 DEF Ordered
  <2>7. \A i \in 1 .. Len(queue') : pulse_id < queue'[i] /\ queue'[i] <= storing.pulse
    BY <1>0, <2>1, <2>4, <2>5 DEF Ordered
  <2> QED
    BY <1>0, <2>1, <2>2, <2>5, <2>6, <2>7 DEF Ordered
<1>4. CASE ZmqRecv
  <2>1. queue # <<>> /\ queue' = Tail(queue) /\ pulse_id' = queue[1]
    BY <1>4 DEF ZmqRecv
  <2>2. Len(queue') = Len(queue) - 1 /\ \A i \in 1 .. Len(queue') : queue'[i] = queue[i + 1]
    BY <1>0, <2>1
  <2>3. Len(queue) > 0
    BY <1>0, <2>1
  <2> QED
    BY <1>4, <1>0, <2>1, <2>2, <2>3 DEF ZmqRecv, Ordered
<1>5. CASE Restart
  BY <1>5 DEF Restart, Ordered
<1>6. CASE UNCHANGED <<recvVars, queue, pulse_id>>
  BY <1>6 DEF Ordered
<1> QED
  BY <1>1, <1>2, <1>3, <1>4, <1>5, <1>6
     DEF Next, Writer, WriterStep, Reader, ReadFrameMeta, ReadFrameData, KeepFile, CloseFile, CreateFile,
         SizeFile, WriteFrameMeta, WriteFrameData, WriteShort, WriteFails, Die,
         OpenBlock, ReadFrame, EndBlock, vars

\* Pulses stay in order between the receiver, the queue and the writer.
THEOREM OrderKept == Spec => []Ordered
  BY OrderedInit, OrderedStep, TypesKept, PTL DEF Spec

-----------------------------------------------------------------------------
(* The ring. *)

LEMMA RingInit == Init => RingKeeps
  BY DEF Init, RingKeeps, Idle, Pending, Range

\* A pulse that is pending is one that was announced.
LEMMA PendingAnnounced ==
    ASSUME TypeInv, Ordered
    PROVE  \A q \in Pending : q \in Pulses /\ q <= announced
<1>1. DOMAIN queue = 1 .. Len(queue)
  BY DEF TypeInv
<1>2. \A q \in Range(queue) : q \in Pulses /\ q <= announced
  BY <1>1, QueueType DEF Ordered, Range
<1> QED
  BY <1>2 DEF Pending, Ordered, TypeInv

LEMMA RingStep == TypeInv /\ Ordered /\ RingKeeps /\ [Next]_vars => RingKeeps'
<1> SUFFICES ASSUME TypeInv, Ordered, RingKeeps, [Next]_vars PROVE RingKeeps'
  OBVIOUS
<1>0. \A q \in Pending : q \in Pulses /\ q \in Nat /\ q <= announced
  BY PendingAnnounced
<1>1. /\ image_buffer \in [Ram!Slot -> [Ram!Module -> PulseOrNone]] /\ 0 \in Ram!Module
      /\ meta_buffer \in [Ram!Slot -> [Ram!Module -> FrameMeta]]
  BY DEF TypeInv, Ram!Module, NModules
<1>2. CASE StoreMeta
  <2>1. PICK p \in Pulses : /\ p > announced
                            /\ lapped' = lapped \union LappedBy(p)
                            /\ Ram!WriteMeta(0, [Ram!ZeroMeta EXCEPT !.pulse_id = p])
                            /\ storing' = [step |-> "data", pulse |-> p]
    BY <1>2 DEF StoreMeta
  <2>2. Pending' = Pending /\ image_buffer' = image_buffer
    BY <1>2, <2>1 DEF StoreMeta, Pending, writerVars, Ram!WriteMeta
  <2>3. storing.step = "idle"
    BY <1>2 DEF StoreMeta
  <2> SUFFICES ASSUME NEW q \in Pending, q \notin lapped'
               PROVE  Ram!DataAt(q, 0)' = q /\ Ram!SlotOf(q) # Ram!SlotOf(p)
    BY <2>1, <2>2 DEF RingKeeps, Ram!SlotOf
  <2>4. q \notin lapped /\ q \notin LappedBy(p)
    BY <2>1
  <2> QED
    BY <2>2, <2>4 DEF RingKeeps, LappedBy, Ram!DataAt
<1>3. CASE StoreData
  <2>1. /\ storing.step = "data" /\ storing.pulse \in PulseOrNone
        /\ storing'.step = "announce" /\ storing'.pulse = storing.pulse /\ lapped' = lapped
        /\ image_buffer' = [image_buffer EXCEPT ![Ram!SlotOf(storing.pulse)][0] = storing.pulse]
    BY <1>3 DEF StoreData, Ram!WriteData, TypeInv
  <2>2. Pending' = Pending
    BY <1>3 DEF StoreData, Pending, writerVars
  <2>3. Ram!SlotOf(storing.pulse) \in Ram!Slot
    BY <2>1, SlotType
  <2>4. image_buffer'[Ram!SlotOf(storing.pulse)][0] = storing.pulse
    BY <1>1, <2>1, <2>3
  <2>5. ASSUME NEW q \in Pending, q \notin lapped
        PROVE  Ram!DataAt(q, 0)' = q /\ Ram!SlotOf(q) # Ram!SlotOf(storing.pulse)
    <3>1. Ram!DataAt(q, 0) = q /\ Ram!SlotOf(q) # Ram!SlotOf(storing.pulse)
      BY <2>1, <2>5 DEF RingKeeps
    <3>2. q \in PulseOrNone /\ Ram!SlotOf(q) \in Ram!Slot
      BY <1>0, SlotType DEF PulseOrNone
    <3>3. image_buffer'[Ram!SlotOf(q)][0] = image_buffer[Ram!SlotOf(q)][0]
      BY <1>1, <2>1, <2>3, <3>1, <3>2
    <3> QED
      BY <3>1, <3>3 DEF Ram!DataAt, Ram!SlotOf
  <2> QED
    BY <2>1, <2>2, <2>4, <2>5 DEF RingKeeps, Ram!DataAt, Ram!SlotOf
<1>4. CASE Announce
  <2>1. /\ storing.step = "announce" /\ storing'.step = "idle"
        /\ image_buffer' = image_buffer /\ lapped' = lapped
    BY <1>4 DEF Announce, Idle, ringVars
  <2>2. Pending' \subseteq Pending \union {storing.pulse}
    <3>1. wpc' = wpc /\ pulse_id' = pulse_id
      BY <1>4 DEF Announce, writerVars
    <3>2. Range(queue') \subseteq Range(queue) \union {storing.pulse}
      <4>1. queue' = queue \/ queue' = Append(queue, storing.pulse)
        BY <1>4 DEF Announce
      <4>2. queue \in Seq(Pulses) /\ storing.pulse \in Pulses
        BY <2>1 DEF TypeInv
      <4> QED
        BY <4>1, <4>2, RangeOfAppend
    <3> QED
      BY <3>1, <3>2 DEF Pending
  <2> QED
    BY <2>1, <2>2 DEF RingKeeps, Ram!DataAt, Ram!SlotOf
<1>5. CASE ZmqRecv
  <2>1. Pending' \subseteq Pending
    <3>1. queue \in Seq(Pulses) /\ queue # <<>> /\ queue' = Tail(queue) /\ pulse_id' = Head(queue)
      BY <1>5 DEF ZmqRecv, TypeInv
    <3> QED
      BY <3>1, RangeOfTail DEF Pending
  <2>2. UNCHANGED <<image_buffer, storing, lapped>>
    BY <1>5 DEF ZmqRecv, ringVars, recvVars
  <2> QED
    BY <2>1, <2>2 DEF RingKeeps, Ram!DataAt, Ram!SlotOf
<1>6. CASE UNCHANGED <<ringVars, recvVars, queue>> /\ Pending' \subseteq Pending
  BY <1>6 DEF RingKeeps, Ram!DataAt, Ram!SlotOf, ringVars, recvVars
<1>7. CASE Restart
  <2>1. Pending' = {}
    BY <1>7 DEF Restart, Pending, Range
  <2> QED
    BY <1>7, <2>1 DEF Restart, RingKeeps, Ram!DataAt, Ram!SlotOf, ringVars, recvVars
<1>8. CASE \/ ReadFrameMeta \/ ReadFrameData \/ KeepFile \/ CloseFile \/ CreateFile \/ SizeFile
           \/ WriteFrameMeta \/ WriteFrameData \/ WriteFails \/ Reader \/ UNCHANGED vars
  <2>1. UNCHANGED <<ringVars, recvVars, queue, pulse_id>>
    BY <1>8 DEF ReadFrameMeta, ReadFrameData, KeepFile, CloseFile, CreateFile, SizeFile, WriteFrameMeta,
         WriteFrameData, WriteFails, Reader, OpenBlock, ReadFrame, EndBlock, vars, writerVars
  <2>2. wpc' \in {"meta", "data"} => wpc \in {"meta", "data"}
    BY <1>8 DEF ReadFrameMeta, ReadFrameData, KeepFile, CloseFile, CreateFile, SizeFile, WriteFrameMeta,
         WriteFrameData, WriteFails, Reader, OpenBlock, ReadFrame, EndBlock, vars, writerVars
  <2>3. Pending' \subseteq Pending
    BY <2>1, <2>2 DEF Pending
  <2> QED
    BY <2>1, <2>3, <1>6
<1> QED
  BY <1>2, <1>3, <1>4, <1>5, <1>7, <1>8 DEF Next, Writer, WriterStep, WriteShort, Die

\* The ring keeps what is pending, but for the pulses that were lapped.
THEOREM RingKept == Spec => []RingKeeps
  BY RingInit, RingStep, TypesKept, OrderKept, PTL DEF Spec

-----------------------------------------------------------------------------
(* The files. *)

LEMMA FilesInit == Init => FilesInv
<1> SUFFICES ASSUME Init PROVE FilesInv
  OBVIOUS
<1>1. InHand /\ FilesOrdered /\ MetaFirst
  BY DEF Init, InHand, FilesOrdered, MetaFirst
<1>2. \A f \in File, i \in Index : files[f].frame[i] = Hole
  BY DEF Init, Absent
<1>3. FramesInPlace
  BY <1>2 DEF FramesInPlace, Hole
<1>4. FramesWhole
  BY <1>2, PlaceType DEF FramesWhole, Written
<1> QED
  BY <1>1, <1>3, <1>4 DEF FilesInv

LEMMA InHandStep == TypeInv /\ Ordered /\ RingKeeps /\ InHand /\ [Next]_vars => InHand'
<1> SUFFICES ASSUME TypeInv, Ordered, RingKeeps, InHand, [Next]_vars PROVE InHand'
  OBVIOUS
<1> USE DEF InHand, ringVars, recvVars, fileVars, writerVars, readerVars
<1>1. CASE ReadFrameData
  <2>1. /\ wpc = "data" /\ pulse_id' = pulse_id /\ lapped' = lapped
        /\ file_buff' = [file_buff EXCEPT !.data = Ram!DataAt(pulse_id, 0)]
        /\ wpc' = IF file_buff.meta # pulse_id THEN "recv" ELSE "open"
    BY <1>1 DEF ReadFrameData
  <2>2. file_buff'.meta = file_buff.meta /\ file_buff'.data = Ram!DataAt(pulse_id, 0)
    BY <2>1 DEF TypeInv, FileFrame
  <2>3. pulse_id \in lapped \/ Ram!DataAt(pulse_id, 0) = pulse_id
    BY <2>1 DEF RingKeeps, Pending
  <2> QED
    BY <2>1, <2>2, <2>3
<1>2. CASE StoreMeta \/ StoreData \/ Announce
  <2>1. lapped \subseteq lapped' /\ UNCHANGED writerVars
    BY <1>2 DEF StoreMeta, StoreData, Announce
  <2> QED
    BY <2>1
<1>3. CASE ZmqRecv \/ ReadFrameMeta \/ KeepFile \/ CloseFile \/ CreateFile \/ SizeFile
  BY <1>3 DEF ZmqRecv, ReadFrameMeta, KeepFile, CloseFile, CreateFile, SizeFile
<1>4. CASE WriteFrameMeta \/ WriteFrameData \/ Restart \/ WriteFails
  BY <1>4 DEF WriteFrameMeta, WriteFrameData, Restart, WriteFails
<1>5. CASE Reader \/ UNCHANGED vars
  BY <1>5 DEF Reader, OpenBlock, ReadFrame, EndBlock, vars
<1> HIDE DEF InHand
<1> QED
  BY <1>1, <1>2, <1>3, <1>4, <1>5 DEF Next, Writer, WriterStep, WriteShort, Die

LEMMA FilesOrderedStep == TypeInv /\ Ordered /\ InHand /\ FilesOrdered /\ [Next]_vars => FilesOrdered'
<1> SUFFICES ASSUME TypeInv, Ordered, InHand, FilesOrdered, [Next]_vars PROVE FilesOrdered'
  OBVIOUS
<1>0. /\ current \in File \union {NoFile} /\ latest \in File \union {NoFile}
      /\ NoFile = -1 /\ File \subseteq Nat
  BY FileType DEF TypeInv, NoFile
<1> USE DEF ringVars, recvVars, fileVars, writerVars, readerVars
<1>1. CASE ZmqRecv
  <2>1. /\ pulse_id' \in Pulses /\ pulse_id < pulse_id' /\ pulse_id \in PulseOrNone
        /\ UNCHANGED <<current, latest, files>>
    BY <1>1, QueueType DEF ZmqRecv, Ordered, TypeInv
  <2>2. pulse_id \in Nat /\ pulse_id' \in Nat /\ pulse_id <= pulse_id'
    BY <2>1 DEF PulseOrNone
  <2>3. /\ get_filename(pulse_id) <= get_filename(pulse_id')
        /\ get_filename(pulse_id) \in Nat /\ get_filename(pulse_id') \in Nat
    BY <2>2, FilesMonotone
  <2>4. get_filename(pulse_id)' = get_filename(pulse_id')
    BY DEF get_filename
  <2> QED
    BY <1>0, <2>1, <2>3, <2>4 DEF FilesOrdered
<1>2. CASE CloseFile
  <2>1. /\ current # NoFile /\ current # get_filename(pulse_id) /\ pulse_id \in Pulses
        /\ latest' = current /\ current' = NoFile /\ UNCHANGED <<files, pulse_id>>
    BY <1>2 DEF CloseFile, TypeInv
  <2>2. get_filename(pulse_id) \in Nat
    BY <2>1, PlaceType
  <2> QED
    BY <1>0, <2>1, <2>2 DEF FilesOrdered, get_filename
<1>3. CASE CreateFile
  <2>1. \A f \in File : files[f].sized => files'[f].sized
    BY <1>3, FileOpened
  <2> QED
    BY <1>0, <1>3, <2>1 DEF CreateFile, FilesOrdered, get_filename
<1>4. CASE SizeFile
  <2>1. \A f \in File : files[f].sized => files'[f].sized
    BY <1>4, FileOpened
  <2>2. files'[get_filename(pulse_id)].sized
    BY <1>4, FileOpened
  <2>3. /\ current' = get_filename(pulse_id) /\ pulse_id \in Pulses /\ UNCHANGED <<latest, pulse_id>>
    BY <1>4 DEF SizeFile, TypeInv
  <2>4. get_filename(pulse_id) \in File
    BY <2>3, PlaceType
  <2> QED
    BY <1>0, <2>1, <2>2, <2>3, <2>4 DEF FilesOrdered, get_filename
<1>5. CASE WriteFrameMeta \/ WriteFrameData
  <2>1. \A f \in File : files'[f].sized = files[f].sized
    BY <1>5, MetaWritten, DataWritten
  <2>2. UNCHANGED <<current, latest, pulse_id>>
    BY <1>5 DEF WriteFrameMeta, WriteFrameData
  <2> QED
    BY <1>0, <2>1, <2>2 DEF FilesOrdered, get_filename
<1>6. CASE Restart
  BY <1>6 DEF Restart, FilesOrdered, get_filename
<1>7. CASE UNCHANGED <<current, latest, files, pulse_id>>
  BY <1>7 DEF FilesOrdered, get_filename
<1> QED
  BY <1>1, <1>2, <1>3, <1>4, <1>5, <1>6, <1>7
     DEF Next, Writer, WriterStep, WriteShort, Die, StoreMeta, StoreData, Announce, ReadFrameMeta,
         ReadFrameData, KeepFile, WriteFails, Reader, OpenBlock, ReadFrame, EndBlock, vars

LEMMA MetaFirstStep == TypeInv /\ InHand /\ MetaFirst /\ [Next]_vars => MetaFirst'
<1> SUFFICES ASSUME TypeInv, InHand, MetaFirst, [Next]_vars PROVE MetaFirst'
  OBVIOUS
<1> USE DEF fileVars, writerVars
<1>1. CASE WriteFrameMeta
  <2>1. Written(pulse_id)' = [Written(pulse_id) EXCEPT !.meta = file_buff.meta]
    BY <1>1, MetaWritten
  <2>2. Written(pulse_id) \in FileFrame
    BY <1>1, PlaceType DEF WriteFrameMeta, TypeInv, FileContent, Written
  <2>3. file_buff.meta = pulse_id /\ pulse_id' = pulse_id
    BY <1>1 DEF WriteFrameMeta, InHand
  <2>4. Written(pulse_id)'.meta = pulse_id
    BY <2>1, <2>2, <2>3 DEF FileFrame
  <2> QED
    BY <2>3, <2>4 DEF MetaFirst, Written, get_filename, get_file_frame_index
<1>2. CASE wpc' # "pixels"
  BY <1>2 DEF MetaFirst
<1>3. CASE UNCHANGED <<fileVars, writerVars>>
  BY <1>3 DEF MetaFirst, Written, get_filename, get_file_frame_index
<1> QED
  BY <1>1, <1>2, <1>3
     DEF Next, Writer, WriterStep, WriteShort, Die, StoreMeta, StoreData, Announce, ZmqRecv, ReadFrameMeta,
         ReadFrameData, KeepFile, CloseFile, CreateFile, SizeFile, WriteFrameData, WriteFails, Restart,
         Reader, OpenBlock, ReadFrame, EndBlock, vars

\* Only the two writes of a frame change what is in the files.
LEMMA FramesUnchanged ==
    ASSUME TypeInv, [Next]_vars, ~WriteFrameMeta, ~WriteFrameData
    PROVE  \A f \in File : files'[f].frame = files[f].frame
<1>1. CASE CreateFile \/ SizeFile
  BY <1>1, FileOpened
<1>2. CASE UNCHANGED files
  BY <1>2
<1> QED
  BY <1>1, <1>2
     DEF Next, Writer, WriterStep, WriteShort, Die, StoreMeta, StoreData, Announce, ZmqRecv, ReadFrameMeta,
         ReadFrameData, KeepFile, CloseFile, WriteFails, Restart, fileVars,
         Reader, OpenBlock, ReadFrame, EndBlock, vars

LEMMA InPlaceStep == TypeInv /\ InHand /\ FramesInPlace /\ [Next]_vars => FramesInPlace'
<1> SUFFICES ASSUME TypeInv, InHand, FramesInPlace, [Next]_vars PROVE FramesInPlace'
  OBVIOUS
<1>1. CASE WriteFrameMeta
  <2> DEFINE g == get_filename(pulse_id)
             j == get_file_frame_index(pulse_id)
  <2>1. pulse_id \in Pulses /\ file_buff.meta = pulse_id /\ pulse_id' = pulse_id
    BY <1>1 DEF WriteFrameMeta, InHand, TypeInv
  <2>2. g \in File /\ j \in Index /\ pulse_id = g * FILE_MOD + j
    BY <2>1, PlaceType
  <2>3. files[g].frame[j] \in FileFrame
    BY <2>2 DEF TypeInv, FileContent
  <2>4. files'[g].frame[j] = [files[g].frame[j] EXCEPT !.meta = pulse_id]
    BY <1>1, <2>1, MetaWritten DEF Written, get_filename, get_file_frame_index
  <2>5. files'[g].frame[j].meta = pulse_id
    BY <2>3, <2>4 DEF FileFrame
  <2>6. \A f \in File, i \in Index : <<f, i>> # <<g, j>> => files'[f].frame[i] = files[f].frame[i]
    BY <1>1, MetaWritten
  <2> HIDE DEF g, j
  <2> QED
    BY <2>2, <2>5, <2>6 DEF FramesInPlace
<1>2. CASE WriteFrameData
  <2>1. \A f \in File, i \in Index : files'[f].frame[i].meta = files[f].frame[i].meta
    <3>1. pulse_id \in Pulses /\ pulse_id' = pulse_id
      BY <1>2 DEF WriteFrameData, TypeInv
    <3>2. /\ get_filename(pulse_id) \in File /\ get_file_frame_index(pulse_id) \in Index
      BY <3>1, PlaceType
    <3>3. Written(pulse_id) \in FileFrame
      BY <3>2 DEF TypeInv, FileContent, Written
    <3>4. Written(pulse_id)'.meta = Written(pulse_id).meta
      BY <1>2, <3>3, DataWritten DEF FileFrame
    <3>5. files'[get_filename(pulse_id)].frame[get_file_frame_index(pulse_id)].meta
            = files[get_filename(pulse_id)].frame[get_file_frame_index(pulse_id)].meta
      BY <3>1, <3>4 DEF Written, get_filename, get_file_frame_index
    <3> QED
      BY <1>2, <3>5, DataWritten
  <2> QED
    BY <2>1 DEF FramesInPlace
<1>3. CASE ~WriteFrameMeta /\ ~WriteFrameData
  BY <1>3, FramesUnchanged DEF FramesInPlace
<1> QED
  BY <1>1, <1>2, <1>3

\* Another pulse's frame is not touched.
LEMMA OthersUntouched ==
    ASSUME TypeInv, WriteFrameMeta \/ WriteFrameData, NEW p \in Pulses, p # pulse_id
    PROVE  Written(p)' = Written(p)
<1>1. pulse_id \in Pulses
  BY DEF WriteFrameMeta, WriteFrameData, TypeInv
<1>2. <<get_filename(p), get_file_frame_index(p)>> # <<get_filename(pulse_id), get_file_frame_index(pulse_id)>>
  BY <1>1, PlacesDiffer
<1>3. get_filename(p) \in File /\ get_file_frame_index(p) \in Index
  BY PlaceType
<1> QED
  BY <1>2, <1>3, MetaWritten, DataWritten DEF Written, get_filename, get_file_frame_index

LEMMA WholeStep ==
    TypeInv /\ InHand /\ MetaFirst /\ FramesWhole /\ [Next]_vars => FramesWhole'
<1> SUFFICES ASSUME TypeInv, InHand, MetaFirst, FramesWhole, [Next]_vars, NEW p \in Pulses
             PROVE  (\/ Written(p) \in {Hole, Whole(p)}
                     \/ p \in torn \union lapped
                     \/ wpc = "pixels" /\ p = pulse_id)'
  BY DEF FramesWhole
<1>0. \/ Written(p) \in {Hole, Whole(p)}
      \/ p \in torn \union lapped
      \/ wpc = "pixels" /\ p = pulse_id
  BY DEF FramesWhole
<1>1. Hole' = Hole /\ Whole(p)' = Whole(p)
  BY DEF Hole, Whole
<1>2. CASE WriteFrameMeta
  <2>1. wpc' = "pixels" /\ pulse_id' = pulse_id /\ wpc = "write" /\ UNCHANGED <<torn, lapped>>
    BY <1>2 DEF WriteFrameMeta, recvVars
  <2> QED
    BY <1>0, <1>1, <1>2, <2>1, OthersUntouched
<1>3. CASE WriteFrameData
  <2>1. wpc = "pixels" /\ UNCHANGED <<torn, lapped>>
    BY <1>3 DEF WriteFrameData, recvVars
  <2>2. CASE p # pulse_id
    BY <1>0, <1>1, <1>3, <2>1, <2>2, OthersUntouched
  <2>3. CASE p = pulse_id
    <3>1. Written(p) \in FileFrame
      BY PlaceType DEF TypeInv, FileContent, Written
    <3>2. Written(p)' = [Written(p) EXCEPT !.data = file_buff.data]
      <4>1. pulse_id' = pulse_id
        BY <1>3 DEF WriteFrameData
      <4> QED
        BY <1>3, <2>3, <4>1, DataWritten DEF Written, get_filename, get_file_frame_index
    <3>3. Written(p).meta = p
      BY <2>1, <2>3 DEF MetaFirst
    <3>4. Written(p)' = [meta |-> p, data |-> file_buff.data]
      BY <3>1, <3>2, <3>3 DEF FileFrame
    <3>5. file_buff.data = p \/ p \in lapped
      BY <2>1, <2>3 DEF InHand
    <3> QED
      BY <1>1, <2>1, <3>4, <3>5 DEF Whole
  <2> QED
    BY <2>2, <2>3
<1>4. CASE ~WriteFrameMeta /\ ~WriteFrameData
  <2>1. Written(p)' = Written(p)
    BY <1>4, FramesUnchanged, PlaceType DEF Written, get_filename, get_file_frame_index
  <2>2. lapped \subseteq lapped' /\ torn \subseteq torn'
    BY <1>4
       DEF Next, Writer, WriterStep, WriteShort, Die, StoreMeta, StoreData, Announce, ZmqRecv, ReadFrameMeta,
           ReadFrameData, KeepFile, CloseFile, CreateFile, SizeFile, WriteFails, Restart,
           Reader, OpenBlock, ReadFrame, EndBlock, vars, recvVars, writerVars
  <2>3. wpc = "pixels" => (wpc' = "pixels" /\ pulse_id' = pulse_id) \/ pulse_id \in torn'
    BY <1>4
       DEF Next, Writer, WriterStep, WriteShort, Die, StoreMeta, StoreData, Announce, ZmqRecv, ReadFrameMeta,
           ReadFrameData, KeepFile, CloseFile, CreateFile, SizeFile, WriteFails,
           Reader, OpenBlock, ReadFrame, EndBlock, vars, recvVars, writerVars
  <2> QED
    BY <1>0, <1>1, <2>1, <2>2, <2>3
<1> QED
  BY <1>2, <1>3, <1>4

LEMMA FilesStep == TypeInv /\ Ordered /\ RingKeeps /\ FilesInv /\ [Next]_vars => FilesInv'
  BY InHandStep, FilesOrderedStep, MetaFirstStep, InPlaceStep, WholeStep DEF FilesInv

\* The files stay in order and keep what was written, each frame in its place.
THEOREM FilesKept == Spec => []FilesInv
  BY FilesInit, FilesStep, TypesKept, OrderKept, RingKept, PTL DEF Spec

\* Every frame in the files is in the place of its pulse (FramesInPlace), for all pulses,
\* sizes of files and rings, write errors and deaths of jf_buffer_writer.
THEOREM InPlace == Spec => []FramesInPlace
<1>1. FilesInv => FramesInPlace
  BY DEF FilesInv
<1> QED
  BY <1>1, FilesKept, PTL

\* Every frame in the files is whole, but for those that the ring or a death cost
\* (FramesWhole).
THEOREM WholeFrames == Spec => []FramesWhole
<1>1. FilesInv => FramesWhole
  BY DEF FilesInv
<1> QED
  BY <1>1, FilesKept, PTL

\* LATEST names a file that jf_buffer_writer has left for good (LatestIsDone).
THEOREM LatestDone == Spec => []LatestIsDone
<1>1. TypeInv /\ Ordered /\ FilesInv => LatestIsDone
  <2> SUFFICES ASSUME TypeInv, Ordered, FilesInv, latest # NoFile
               PROVE  /\ files[latest].sized
                      /\ current # NoFile => current > latest
                      /\ \A k \in 1 .. Len(queue) : get_filename(queue[k]) > latest
    BY DEF LatestIsDone
  <2>1. files[latest].sized /\ latest < get_filename(pulse_id) /\ latest \in Nat
    BY FileType DEF FilesInv, FilesOrdered, TypeInv
  <2>2. current # NoFile => current > latest
    BY <2>1, FileType DEF FilesInv, FilesOrdered, TypeInv
  <2>3. ASSUME NEW k \in 1 .. Len(queue) PROVE get_filename(queue[k]) > latest
    <3>1. pulse_id \in Nat /\ queue[k] \in Nat /\ pulse_id <= queue[k]
      <4>1. pulse_id \in PulseOrNone
        BY DEF TypeInv
      <4>2. pulse_id \in Nat /\ queue[k] \in Nat /\ pulse_id < queue[k]
        BY <4>1, QueueType DEF Ordered, PulseOrNone
      <4> QED
        BY <4>2
    <3>2. get_filename(pulse_id) <= get_filename(queue[k]) /\ get_filename(queue[k]) \in Nat
          /\ get_filename(pulse_id) \in Nat
      BY <3>1, FilesMonotone
    <3> QED
      BY <2>1, <3>2
  <2> QED
    BY <2>1, <2>2, <2>3
<1> QED
  BY <1>1, TypesKept, OrderKept, FilesKept, PTL

-----------------------------------------------------------------------------
(* The reader. *)

LEMMA ReadsStep == TypeInv /\ Ordered /\ ReadsInv /\ [Next]_vars => ReadsInv'
<1> SUFFICES ASSUME TypeInv, Ordered, ReadsInv, [Next]_vars PROVE ReadsInv'
  OBVIOUS
<1>0. /\ rblock \in Seq(ReadEntry) /\ Len(rblock) \in Nat /\ Len(rblock) <= FILE_MOD
      /\ pulse_id \in Nat
  <2>1. pulse_id \in PulseOrNone /\ rblock \in Seq(ReadEntry) /\ Len(rblock) <= FILE_MOD
    BY DEF TypeInv
  <2> QED
    BY <2>1 DEF PulseOrNone
<1>1. ASSUME NEW k \in 1 .. Len(rblock)
      PROVE  rfile \in File /\ rfile \in Nat /\ k - 1 \in Index /\ rfile * FILE_MOD + k - 1 \in Nat
  <2>1. rblock # <<>>
    BY <1>0
  <2>2. rfile \in File
    BY <2>1 DEF TypeInv
  <2>3. rfile \in Nat
    BY <2>2, FileType
  <2>4. rfile * FILE_MOD \in Nat
    BY <2>3
  <2> QED
    BY <1>0, <2>2, <2>3, <2>4 DEF Index
<1>2. CASE OpenBlock \/ EndBlock
  BY <1>2 DEF OpenBlock, EndBlock, ReadsInv
<1>3. CASE ReadFrame
  <2> DEFINE entry == [frame |-> files[rfile].frame[Len(rblock)],
                       passed |-> Passed(rfile * FILE_MOD + Len(rblock))]
  <2>1. /\ rblock' = rblock \/ rblock' = Append(rblock, entry)
        /\ UNCHANGED <<rfile, files, pulse_id, wpc>>
    BY <1>3 DEF ReadFrame, fileVars, writerVars
  <2>2. \A k \in 1 .. Len(rblock') : \/ k \in 1 .. Len(rblock) /\ rblock'[k] = rblock[k]
                                     \/ k = Len(rblock) + 1 /\ rblock'[k] = entry
    BY <1>0, <2>1
  <2>3. \A p : Passed(p)' = Passed(p)
    BY <2>1 DEF Passed
  <2> SUFFICES ASSUME NEW k \in 1 .. Len(rblock'), rblock'[k].passed
               PROVE  rblock'[k].frame = files[rfile].frame[k - 1] /\ Passed(rfile * FILE_MOD + k - 1)
    BY <2>1, <2>3 DEF ReadsInv, Passed
  <2>4. CASE k \in 1 .. Len(rblock) /\ rblock'[k] = rblock[k]
    BY <2>4 DEF ReadsInv
  <2>5. CASE k = Len(rblock) + 1 /\ rblock'[k] = entry
    <3>1. k - 1 = Len(rblock) /\ rfile * FILE_MOD + k - 1 = rfile * FILE_MOD + Len(rblock)
      <4>1. rfile \in Nat
        BY <1>3, FileType DEF ReadFrame, TypeInv
      <4>2. rfile * FILE_MOD \in Nat
        BY <4>1
      <4> QED
        BY <1>0, <2>5, <4>2
    <3> QED
      BY <2>5, <3>1
  <2> QED
    BY <2>2, <2>4, <2>5
<1>4. CASE WriteFrameMeta \/ WriteFrameData
  <2>1. /\ pulse_id \in Pulses /\ wpc # "recv" /\ UNCHANGED <<rblock, rfile, pulse_id>>
    BY <1>4 DEF WriteFrameMeta, WriteFrameData, readerVars, TypeInv
  <2> SUFFICES ASSUME NEW k \in 1 .. Len(rblock), rblock[k].passed
               PROVE  rblock[k].frame = files'[rfile].frame[k - 1] /\ Passed(rfile * FILE_MOD + k - 1)'
    BY <2>1 DEF ReadsInv
  <2>2. rblock[k].frame = files[rfile].frame[k - 1] /\ rfile * FILE_MOD + k - 1 < pulse_id
    BY <2>1 DEF ReadsInv, Passed
  <2>3. <<rfile, k - 1>> # <<get_filename(pulse_id), get_file_frame_index(pulse_id)>>
    BY <1>0, <1>1, <2>1, <2>2, PlaceType
  <2>4. files'[rfile].frame[k - 1] = files[rfile].frame[k - 1]
    BY <1>1, <1>4, <2>3, MetaWritten, DataWritten
  <2>5. Passed(rfile * FILE_MOD + k - 1)'
    BY <2>1, <2>2 DEF Passed
  <2> QED
    BY <2>2, <2>4, <2>5
<1>5. CASE ~WriteFrameMeta /\ ~WriteFrameData /\ UNCHANGED readerVars
  <2>1. \A f \in File : files'[f].frame = files[f].frame
    BY <1>5, FramesUnchanged
  <2>2. pulse_id' \in Nat /\ pulse_id <= pulse_id' /\ (wpc = "recv" /\ pulse_id = pulse_id' => wpc' = "recv")
    <3>1. CASE ZmqRecv
      BY <3>1, <1>0, QueueType DEF ZmqRecv, Ordered, TypeInv
    <3>2. CASE pulse_id' = pulse_id /\ (wpc = "recv" => wpc' = "recv")
      BY <3>2, <1>0
    <3> QED
      BY <1>5, <3>1, <3>2
         DEF Next, Writer, WriterStep, WriteShort, Die, StoreMeta, StoreData, Announce, ReadFrameMeta,
             ReadFrameData, KeepFile, CloseFile, CreateFile, SizeFile, WriteFails, Restart,
             Reader, OpenBlock, ReadFrame, EndBlock, vars, writerVars
  <2>3. rblock' = rblock /\ rfile' = rfile
    BY <1>5 DEF readerVars
  <2> SUFFICES ASSUME NEW k \in 1 .. Len(rblock), rblock[k].passed
               PROVE  rblock[k].frame = files'[rfile].frame[k - 1] /\ Passed(rfile * FILE_MOD + k - 1)'
    BY <2>3 DEF ReadsInv
  <2>4. rblock[k].frame = files[rfile].frame[k - 1] /\ Passed(rfile * FILE_MOD + k - 1)
    BY DEF ReadsInv
  <2>5. files'[rfile].frame[k - 1] = files[rfile].frame[k - 1]
    BY <1>1, <2>1
  <2>6. Passed(rfile * FILE_MOD + k - 1)'
    BY <1>0, <1>1, <2>2, <2>3, <2>4 DEF Passed
  <2> QED
    BY <2>4, <2>5, <2>6
<1>6. \/ OpenBlock \/ EndBlock \/ ReadFrame \/ WriteFrameMeta \/ WriteFrameData
      \/ UNCHANGED readerVars
  BY DEF Next, Writer, WriterStep, WriteShort, Die, StoreMeta, StoreData, Announce, ZmqRecv, ReadFrameMeta,
         ReadFrameData, KeepFile, CloseFile, CreateFile, SizeFile, WriteFails, Restart, Reader, vars, readerVars
<1> QED
  BY <1>2, <1>3, <1>4, <1>5, <1>6

\* What sf_writer has read of a frame that jf_buffer_writer has passed is final
\* (ReadsAreFinal), also when the writer died since.
THEOREM FinalReads == Spec => []ReadsAreFinal
<1>1. Init => ReadsInv
  BY DEF Init, ReadsInv
<1>2. ReadsInv => ReadsAreFinal
  BY DEF ReadsInv, ReadsAreFinal
<1> QED
  BY <1>1, <1>2, ReadsStep, TypesKept, OrderKept, PTL DEF Spec

=============================================================================
