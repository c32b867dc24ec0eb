---------------------------- MODULE PacketBuffer ----------------------------
(***************************************************************************)
(* The linear buffer of jfj_udp_recv: recvmmsg() fills the container from  *)
(* its start, the receiver reads on from idx_read.  Neither reset() nor a  *)
(* shorter fill erases anything: behind idx_write are packets of earlier   *)
(* batches.                                                                *)
(***************************************************************************)
EXTENDS Integers, Sequences

CONSTANTS CAPACITY, Blank

Index == 0 .. CAPACITY - 1
NewBuffer == [container |-> [i \in Index |-> Blank], idx_write |-> 0, idx_read |-> 0]

size(b)     == b.idx_write - b.idx_read
is_empty(b) == b.idx_write <= b.idx_read

\* What pop_front() would return, one after the other.
Unread(b) == [k \in 1 .. size(b) |-> b.container[b.idx_read + k - 1]]

\* n times pop_front(), which throws on an empty buffer.
pop_front(b, n) == [b EXCEPT !.idx_read = @ + n]

reset(b) == [b EXCEPT !.idx_write = 0, !.idx_read = 0]

\* receive_many() returns -1 when nothing came.
fill_from(b, n_msgs, msgs) ==
    [container |-> [i \in Index |-> IF i < n_msgs THEN msgs[i + 1] ELSE b.container[i]],
     idx_write |-> IF n_msgs = -1 THEN 0 ELSE n_msgs,
     idx_read  |-> 0]
=============================================================================
