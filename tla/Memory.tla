-------------------------------- MODULE Memory --------------------------------
(***************************************************************************)
(* Input and output in memory: WritableMemory, which writes to a buffer of *)
(* the user or to one that grows, and ReadableMemory; swrite and sread,    *)
(* which turn a short transfer into an exception.                          *)
(***************************************************************************)
EXTENDS Integers, Sequences, FiniteSetsExt

CONSTANTS Chunk  \* by how much a buffer grows (4096 bytes)

ASSUME ChunkAssumption == Chunk \in Nat \ {0}

(* `bytes' are those written (_outward_size is also the offset), `size' is *)
(* that of the buffer.                                                     *)
Growing == [bytes |-> <<>>, size |-> 0, grows |-> TRUE]
Fixed(size) == [bytes |-> <<>>, size |-> size, grows |-> FALSE]

Room(mem) == mem.size - Len(mem.bytes)

(* A buffer grows until the data fits and leaves at least one byte.        *)
RoomForAll(mem, len) == Chunk * (1 + (Len(mem.bytes) + len) \div Chunk)
GrownSize(mem, len) ==
    IF mem.grows THEN Max({mem.size, RoomForAll(mem, len)}) ELSE mem.size

(* What write takes of len bytes, what it leaves, and whether swrite       *)
(* throws as it has taken fewer.                                           *)
AcceptedAll(mem, len) == len
Accepted(mem, len) ==
    IF mem.grows \/ len < Room(mem) THEN len ELSE Room(mem)

Written(mem, bytes) ==
    [mem EXCEPT !.bytes = @ \o SubSeq(bytes, 1, Accepted(mem, Len(bytes))),
                !.size = GrownSize(mem, Len(bytes))]

WriteThrows(mem, bytes) == Accepted(mem, Len(bytes)) < Len(bytes)

-----------------------------------------------------------------------------
(* What is left to read at offset offs, and whether sread throws.  A short *)
(* read has consumed the rest all the same, and nothing more is read.                                *)
Remaining(input, offs) == SubSeq(input, offs + 1, Len(input))
ReadThrows(input, offs, len) == offs + len > Len(input)
=============================================================================
