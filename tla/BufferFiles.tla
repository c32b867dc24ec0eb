----------------------------- MODULE BufferFiles -----------------------------
(***************************************************************************)
(* The binary buffer of one detector module: jf_udp_recv stores a frame in *)
(* the RAM buffer and announces its pulse id; jf_buffer_writer copies the  *)
(* frame out of the ring and writes it to its place in a file of FILE_MOD  *)
(* frames; sf_writer reads the files with no more than the file system     *)
(* between it and the writer.                                              *)
(*                                                                         *)
(* The writer may die, by a signal or by an exception of its own, and is   *)
(* then started again.  The copy of a frame's metadata and that of its     *)
(* pixels are steps of their own, in the ring and in the file.             *)
(***************************************************************************)
EXTENDS Integers, FiniteSets, Sequences, Functions

CONSTANTS
    Pulses,        \* pulse ids the receiver may store
    FILE_MOD,      \* frames of a file, and of the block a reader asks for
    NSlots,        \* RAM_BUFFER_N_SLOTS
    HWM,           \* announcements the SUB socket keeps
    WriteErrors,   \* what write() may do besides writing a frame
    MaxDeaths      \* bound: how often the writer dies

ASSUME FilesAssumption ==
    /\ Pulses \subseteq Nat \ {0} /\ IsFiniteSet(Pulses)
    /\ FILE_MOD \in Nat \ {0} /\ NSlots \in Nat \ {0} /\ HWM \in Nat \ {0}
    /\ WriteErrors \subseteq {"short", "failed"}
    /\ MaxDeaths \in Nat

VARIABLES
    meta_buffer, image_buffer,   \* the ring, see RamBuffer
    storing,       \* the frame the receiver is storing, and how far it is
    announced,     \* the last pulse it announced
    lapped,        \* history: pulses whose slot was reused before the writer was done
    queue,         \* announcements in the writer's SUB socket
    wpc,           \* where the writer is
    pulse_id,      \* the pulse it works on
    file_buff,     \* the frame it copied from the ring
    current,       \* output_file_fd_ and current_output_filename_
    files,         \* file -> whether it exists, whether it has its size, its frames
    latest,        \* the file that LATEST names
    failed,        \* history: pulses whose write() failed unnoticed
    torn,          \* history: pulses on which the writer died half-way
    deaths,
    rpc,           \* where the reader is
    rfile,         \* the file it reads
    rblock         \* the frames it has read, in order

ringVars   == <<meta_buffer, image_buffer>>
recvVars   == <<storing, announced, lapped>>
fileVars   == <<files, latest>>
writerVars == <<wpc, pulse_id, file_buff, current, failed, torn, deaths>>
readerVars == <<rpc, rfile, rblock>>
vars == <<ringVars, recvVars, queue, fileVars, writerVars, readerVars>>

NModules == 1
NPackets == 1
Ram == INSTANCE RamBuffer

NoFile == -1
Idle   == [step |-> "idle", pulse |-> 0]

\* get_filename() and get_file_frame_index()
get_filename(p)         == p \div FILE_MOD
get_file_frame_index(p) == p % FILE_MOD
File  == {get_filename(p) : p \in Pulses}
Index == 0 .. FILE_MOD - 1

\* A frame in a file: the pulses of its metadata and of its pixels, 0 for a hole.
Hole     == [meta |-> 0, data |-> 0]
Whole(p) == [meta |-> p, data |-> p]
Absent   == [exists |-> FALSE, sized |-> FALSE, frame |-> [i \in Index |-> Hole]]

Init ==
    /\ Ram!RamInit
    /\ storing = Idle /\ announced = 0 /\ lapped = {}
    /\ queue = <<>>
    /\ wpc = "recv" /\ pulse_id = 0 /\ file_buff = Hole /\ current = NoFile
    /\ files = [f \in File |-> Absent] /\ latest = NoFile
    /\ failed = {} /\ torn = {} /\ deaths = 0
    /\ rpc = "idle" /\ rfile = NoFile /\ rblock = <<>>

-----------------------------------------------------------------------------
(* The receiver: write_frame() and zmq_send().                              *)

\* The pulses the writer still has to look up, or is looking up.
Pending == Range(queue) \union (IF wpc \in {"meta", "data"} THEN {pulse_id} ELSE {})
LappedBy(p) == {q \in Pending : Ram!SlotOf(q) = Ram!SlotOf(p)}

StoreMeta ==
    /\ storing.step = "idle"
    /\ \E p \in Pulses :
          /\ p > announced
          /\ lapped' = lapped \union LappedBy(p)
          /\ Ram!WriteMeta(0, [Ram!ZeroMeta EXCEPT !.pulse_id = p])
          /\ storing' = [step |-> "data", pulse |-> p]
    /\ UNCHANGED <<announced, queue, fileVars, writerVars, readerVars>>

StoreData ==
    /\ storing.step = "data"
    /\ Ram!WriteData(0, storing.pulse)
    /\ storing' = [storing EXCEPT !.step = "announce"]
    /\ UNCHANGED <<announced, lapped, queue, fileVars, writerVars, readerVars>>

\* Fault: the announcement does not wait for the pixels.
AnnounceEarly ==
    /\ storing.step \in {"data", "announce"}
    /\ announced' = storing.pulse
    /\ storing' = Idle
    /\ queue' = IF Len(queue) < HWM THEN Append(queue, storing.pulse) ELSE queue
    /\ UNCHANGED <<ringVars, lapped, fileVars, writerVars, readerVars>>

Announce ==
    /\ storing.step = "announce"
    /\ announced' = storing.pulse
    /\ storing' = Idle
    /\ queue' = IF Len(queue) < HWM THEN Append(queue, storing.pulse) ELSE queue
    /\ UNCHANGED <<ringVars, lapped, fileVars, writerVars, readerVars>>

-----------------------------------------------------------------------------
(* jf_buffer_writer: the main loop.                                         *)

ZmqRecv ==
    /\ wpc = "recv" /\ queue # <<>>
    /\ pulse_id' = Head(queue)
    /\ queue' = Tail(queue)
    /\ wpc' = "meta"
    /\ UNCHANGED <<ringVars, recvVars, fileVars, file_buff, current, failed, torn, deaths, readerVars>>

\* read_frame(): two copies.
ReadFrameMeta ==
    /\ wpc = "meta"
    /\ file_buff' = [file_buff EXCEPT !.meta = Ram!MetaAt(pulse_id, 0).pulse_id]
    /\ wpc' = "data"
    /\ UNCHANGED <<ringVars, recvVars, queue, fileVars, pulse_id, current, failed, torn, deaths, readerVars>>

\* Fault: the frame is not compared with the pulse asked for.
ReadFrameAny ==
    /\ wpc = "data"
    /\ file_buff' = [file_buff EXCEPT !.data = Ram!DataAt(pulse_id, 0)]
    /\ wpc' = "open"
    /\ UNCHANGED <<ringVars, recvVars, queue, fileVars, pulse_id, current, failed, torn, deaths, readerVars>>

\* A frame of another pulse is passed over.
ReadFrameData ==
    /\ wpc = "data"
    /\ file_buff' = [file_buff EXCEPT !.data = Ram!DataAt(pulse_id, 0)]
    /\ wpc' = IF file_buff.meta # pulse_id THEN "recv" ELSE "open"
    /\ UNCHANGED <<ringVars, recvVars, queue, fileVars, pulse_id, current, failed, torn, deaths, readerVars>>

\* write(): the file of the last frame stays open ...
KeepFile ==
    /\ wpc = "open" /\ current = get_filename(pulse_id)
    /\ wpc' = "write"
    /\ UNCHANGED <<ringVars, recvVars, queue, fileVars, pulse_id, file_buff, current, failed, torn, deaths, readerVars>>

\* Fault: the frame that belongs into the next file is given up when the last is closed.
CloseDropsFrame ==
    /\ wpc = "open" /\ current \notin {NoFile, get_filename(pulse_id)}
    /\ latest' = current
    /\ current' = NoFile
    /\ wpc' = "recv"
    /\ UNCHANGED <<ringVars, recvVars, queue, files, pulse_id, file_buff, failed, torn, deaths, readerVars>>

\* ... or is closed, and named in LATEST, ...
CloseFile ==
    /\ wpc = "open" /\ current \notin {NoFile, get_filename(pulse_id)}
    /\ latest' = current
    /\ current' = NoFile
    /\ UNCHANGED <<ringVars, recvVars, queue, files, wpc, pulse_id, file_buff, failed, torn, deaths, readerVars>>

\* Fault: a file that is there already is emptied (O_TRUNC).
CreateTruncated ==
    /\ wpc = "open" /\ current = NoFile
    /\ files' = [files EXCEPT ![get_filename(pulse_id)] = [Absent EXCEPT !.exists = TRUE]]
    /\ wpc' = "size"
    /\ UNCHANGED <<ringVars, recvVars, queue, latest, pulse_id, file_buff, current, failed, torn, deaths, readerVars>>

\* ... before the next is created, ...
CreateFile ==
    /\ wpc = "open" /\ current = NoFile
    /\ files' = [files EXCEPT ![get_filename(pulse_id)].exists = TRUE]
    /\ wpc' = "size"
    /\ UNCHANGED <<ringVars, recvVars, queue, latest, pulse_id, file_buff, current, failed, torn, deaths, readerVars>>

\* Fault: LATEST is written when a file is opened.
SizeFileLatest ==
    /\ wpc = "size"
    /\ files' = [files EXCEPT ![get_filename(pulse_id)].sized = TRUE]
    /\ current' = get_filename(pulse_id)
    /\ latest' = get_filename(pulse_id)
    /\ wpc' = "write"
    /\ UNCHANGED <<ringVars, recvVars, queue, pulse_id, file_buff, failed, torn, deaths, readerVars>>

\* ... and given the size of a full file.
SizeFile ==
    /\ wpc = "size"
    /\ files' = [files EXCEPT ![get_filename(pulse_id)].sized = TRUE]
    /\ current' = get_filename(pulse_id)
    /\ wpc' = "write"
    /\ UNCHANGED <<ringVars, recvVars, queue, latest, pulse_id, file_buff, failed, torn, deaths, readerVars>>

\* The frame goes to its index: the metadata, then the pixels.
WriteFrameMeta ==
    /\ wpc = "write"
    /\ files' = [files EXCEPT ![get_filename(pulse_id)].frame[get_file_frame_index(pulse_id)].meta
                                = file_buff.meta]
    /\ wpc' = "pixels"
    /\ UNCHANGED <<ringVars, recvVars, queue, latest, pulse_id, file_buff, current, failed, torn, deaths, readerVars>>

WriteFrameData ==
    /\ wpc = "pixels"
    /\ files' = [files EXCEPT ![get_filename(pulse_id)].frame[get_file_frame_index(pulse_id)].data
                                = file_buff.data]
    /\ wpc' = "recv"
    /\ UNCHANGED <<ringVars, recvVars, queue, latest, pulse_id, file_buff, current, failed, torn, deaths, readerVars>>

\* The process ends and is started again with a new socket.
Restart ==
    /\ deaths' = deaths + 1
    /\ queue' = <<>>
    /\ wpc' = "recv" /\ file_buff' = Hole /\ current' = NoFile
    /\ UNCHANGED <<ringVars, recvVars, fileVars, pulse_id, failed, readerVars>>

\* A signal or a failing open, lseek or close ends the process between two calls.
Die == deaths < MaxDeaths /\ wpc # "pixels" /\ Restart /\ UNCHANGED torn

\* Less than a frame is written: the exception ends the process.
WriteShort ==
    /\ "short" \in WriteErrors /\ deaths < MaxDeaths
    /\ wpc = "pixels" /\ Restart
    /\ torn' = torn \union {pulse_id}

\* write() returns -1, which the comparison with sizeof() takes for a large number.
WriteFails ==
    /\ "failed" \in WriteErrors
    /\ wpc = "write"
    /\ failed' = failed \union {pulse_id}
    /\ wpc' = "recv"
    /\ UNCHANGED <<ringVars, recvVars, queue, fileVars, pulse_id, file_buff, current, torn, deaths, readerVars>>

WriterStep == \/ ZmqRecv \/ ReadFrameMeta \/ ReadFrameData
              \/ KeepFile \/ CloseFile \/ CreateFile \/ SizeFile
              \/ WriteFrameMeta \/ WriteFrameData
Writer == WriterStep \/ WriteShort \/ WriteFails \/ Die

-----------------------------------------------------------------------------
(* sf_writer: BufferBinaryReader::get_block().                              *)

OpenBlock ==
    /\ rpc = "idle"
    /\ \E f \in File :
          /\ rfile' = f
          /\ rpc' = IF files[f].exists THEN "read" ELSE "threw"
    /\ rblock' = <<>>
    /\ UNCHANGED <<ringVars, recvVars, queue, fileVars, writerVars>>

Passed(p) == p < pulse_id \/ (p = pulse_id /\ wpc = "recv")

\* One read() of the whole block, frame after frame; there is nothing to read in a
\* file that has no size yet.  passed: the writer was beyond the frame.
ReadFrame ==
    /\ rpc = "read" /\ Len(rblock) < FILE_MOD
    /\ IF files[rfile].sized
       THEN /\ rblock' = Append(rblock,
                            [frame  |-> files[rfile].frame[Len(rblock)],
                             passed |-> Passed(rfile * FILE_MOD + Len(rblock))])
            /\ UNCHANGED rpc
       ELSE rpc' = "threw" /\ UNCHANGED rblock
    /\ UNCHANGED <<ringVars, recvVars, queue, fileVars, writerVars, rfile>>

EndBlock ==
    /\ rpc = "threw" \/ Len(rblock) = FILE_MOD
    /\ rpc' = "idle" /\ rfile' = NoFile /\ rblock' = <<>>
    /\ UNCHANGED <<ringVars, recvVars, queue, fileVars, writerVars>>

Reader == OpenBlock \/ ReadFrame \/ EndBlock

-----------------------------------------------------------------------------

Next == StoreMeta \/ StoreData \/ Announce \/ Writer \/ Reader

Spec == Init /\ [][Next]_vars

\* The writer is a loop that never rests; the receiver completes what it began.
FairSpec == Spec /\ WF_vars(WriterStep) /\ WF_vars(StoreData \/ Announce)

-----------------------------------------------------------------------------
(* Properties. *)

Written(p) == files[get_filename(p)].frame[get_file_frame_index(p)]

\* The metadata found at the place of a pulse, by which a reader judges the frame, are of
\* that pulse, also in files that were written by several processes one after the other
\* and when the ring is lapped.
FramesInPlace ==
    \A f \in File : \A i \in Index :
        files[f].frame[i].meta \in {0, f * FILE_MOD + i}

\* Every frame in the files has the pixels of its own pulse, except the one being
\* written, those a writer died on and those whose slot was reused before the writer
\* was done with it.
FramesWhole ==
    \A p \in Pulses :
        \/ Written(p) \in {Hole, Whole(p)}
        \/ p \in torn \union lapped
        \/ wpc = "pixels" /\ p = pulse_id

\* The file that LATEST names is one to read: it has its size and the writer, also
\* the next one after a death, has left it for good.
LatestIsDone ==
    latest # NoFile =>
        /\ files[latest].sized
        /\ current # NoFile => current > latest
        /\ \A k \in 1 .. Len(queue) : get_filename(queue[k]) > latest

\* What a reader gets of a frame that the writer has passed is final, also when the
\* writer has died since.
ReadsAreFinal ==
    \A k \in 1 .. Len(rblock) :
        rblock[k].passed => rblock[k].frame = files[rfile].frame[k - 1]

\* An announced frame reaches its file, unless its slot is reused first, a write()
\* failed or the writer died.
AnnouncedIsWritten ==
    \A p \in Pulses :
        p \in Range(queue) ~> \/ Written(p) = Whole(p)
                              \/ p \in lapped \union failed
                              \/ deaths > 0
=============================================================================
