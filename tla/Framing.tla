------------------------------ MODULE Framing -------------------------------
(***************************************************************************)
(* Frames on a byte stream: framing.cpp.                                   *)
(*                                                                         *)
(* A byte stream is a sequence of cells.  A frame is cut into HeaderCells  *)
(* cells of header, as many cells of payload as its length says and        *)
(* TrailerCells cells of trailer; the last cell of the header holds the    *)
(* length.  A cell knows the frame it was cut from and its place in it, so *)
(* that the checksums are an exact test: they reject what is not the cells *)
(* of one frame in their order.  A damaged cell is a cell of a frame that  *)
(* nobody has sent, whose length may be any.                               *)
(***************************************************************************)
EXTENDS Integers, Sequences

CONSTANTS HeaderCells,   \* kFrameHeaderBytes
          TrailerCells,  \* kFrameTrailerBytes
          MaxPayload,    \* kMaxFramePayload
          ReadSize       \* capacity of the buffers handed to recv_some

kFrameOverhead == HeaderCells + TrailerCells

\* A read is no longer than the longest frame: 8192 or 65536 bytes against a
\* payload of 2^20.
ASSUME FramingAssumption ==
    /\ {HeaderCells, TrailerCells, ReadSize} \subseteq Nat \ {0}
    /\ MaxPayload \in Nat
    /\ ReadSize <= MaxPayload + kFrameOverhead

encode_frame(m) ==
    [i \in 1..(kFrameOverhead + m.length) |-> [frame |-> m, at |-> i]]

\* The cells of a damaged frame pass no checksum.
Damaged(n) == [type |-> "Damaged", length |-> n, attempt |-> 0]

\* Mutant of decode_frame: the checksums are not compared.
decode_unchecked(cells) == Len(cells) >= kFrameOverhead

\* The magic number, the two checksums and the bounds of the header agree.
decode_frame(cells) ==
    /\ cells = encode_frame(cells[1].frame)
    /\ cells[1].frame.type # "Damaged"

\* Mutant of push: the bound is one frame, not two.
refuses_second_frame(buffer, n) == Len(buffer) + n > MaxPayload + kFrameOverhead

\* FrameAccumulator::push refuses n more cells.
push_refuses(buffer, n) ==
    \/ n > MaxPayload + kFrameOverhead
    \/ Len(buffer) + n > 2 * (MaxPayload + kFrameOverhead)

None == [status |-> "None"]
Failure == [status |-> "Error"]

\* The frame at the head of the buffer, whose length is n, if it is whole.
Cut(buffer, n) ==
    LET total == kFrameOverhead + n
    IN  IF Len(buffer) < total THEN None
        ELSE IF ~decode_frame(SubSeq(buffer, 1, total)) THEN Failure
        ELSE [status |-> "Frame", frame |-> buffer[1].frame,
              rest |-> SubSeq(buffer, total + 1, Len(buffer))]

\* FrameAccumulator::next.  The length is read, and waited for, before a
\* checksum is.
next(buffer) ==
    LET n == buffer[HeaderCells].frame.length
    IN  IF Len(buffer) < HeaderCells THEN None
        ELSE IF n > MaxPayload THEN Failure
        ELSE Cut(buffer, n)
=============================================================================
