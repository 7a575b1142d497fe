----------------------------- MODULE RecordsProofs -----------------------------
(***************************************************************************)
(* The memories that records are written to, and the buffers of strings    *)
(* and blobs: theorems about Memory and Records.                           *)
(***************************************************************************)
EXTENDS Records, FiniteSetTheorems, SequenceTheorems, WellFoundedInduction, TLAPS

-----------------------------------------------------------------------------
(* Least and greatest elements.                                            *)

LEMMA LeastExists ==
    ASSUME NEW T \in SUBSET Nat, T # {}
    PROVE  \E m \in T : \A n \in T : m <= n
<1> DEFINE R == {ss \in Nat \X Nat : ss[1] < ss[2]}
<1>1. OpToRel(<, Nat) = R
  BY DEF OpToRel
<1>2. IsWellFoundedOn(R, Nat)
  BY NatLessThanWellFounded, <1>1
<1>3. \A m, n \in Nat : n < m => <<n, m>> \in R
  OBVIOUS
<1> HIDE DEF R
<1>4. PICK m \in T : \A n \in T : ~(<<n, m>> \in R)
  BY <1>2, WFMin
<1>5. \A k, n \in Nat : k <= n \/ n < k
  OBVIOUS
<1> QED
  BY <1>3, <1>4, <1>5

LEMMA LeastIn ==
    ASSUME NEW T \in SUBSET Nat, T # {}
    PROVE  Min(T) \in T
BY LeastExists, Zenon DEF Min

LEMMA GreaterOfTwo ==
    ASSUME NEW a \in Nat, NEW b \in Nat
    PROVE  Max({a, b}) \in Nat /\ Max({a, b}) >= a /\ Max({a, b}) >= b
<1>1. \E x \in {a, b} : \A y \in {a, b} : x >= y
  <2>1. a >= b \/ b >= a
    OBVIOUS
  <2> QED
    BY <2>1
<1>2. Max({a, b}) \in {a, b} /\ \A y \in {a, b} : Max({a, b}) >= y
  BY <1>1, Zenon DEF Max
<1> QED
  BY <1>2

-----------------------------------------------------------------------------
(* Memories.                                                               *)

MemoryType(S) == [bytes: Seq(S), size: Nat, grows: BOOLEAN]

(* What RoomForAll asks for is more than there will be in it.              *)
LEMMA RoomSuffices ==
    ASSUME NEW held \in Nat, NEW len \in Nat, NEW c \in Nat \ {0}
    PROVE  LET room == c * (1 + (held + len) \div c)
           IN  room \in Nat /\ room > held + len
<1> DEFINE n == held + len
<1>1. n \in Nat
  OBVIOUS
<1> HIDE DEF n
<1>2. n \div c \in Nat /\ c * (1 + (n \div c)) > n
  BY <1>1
<1>3. c * (1 + (n \div c)) \in Nat
  BY <1>2
<1> QED
  BY <1>2, <1>3 DEF n

(* WritableMemory never holds more than its buffer has room for, whatever  *)
(* is written to it and in whatever portions, and one that grows takes all *)
(* of it, so that swrite does not throw.                                   *)
THEOREM MemoryNeverOverruns ==
    ASSUME NEW S, NEW m \in MemoryType(S), Len(m.bytes) <= m.size,
           NEW bytes \in Seq(S)
    PROVE  /\ Written(m, bytes) \in MemoryType(S)
           /\ Len(Written(m, bytes).bytes) <= Written(m, bytes).size
           /\ Written(m, bytes).grows = m.grows
           /\ m.grows => ~WriteThrows(m, bytes)
<1> DEFINE held == m.bytes
           h == Len(held)
           n == Len(bytes)
           k == Accepted(m, n)
           size == GrownSize(m, n)
<1>1. /\ held \in Seq(S) /\ m.size \in Nat /\ m.grows \in BOOLEAN
      /\ h \in Nat /\ n \in Nat /\ h <= m.size
  BY DEF MemoryType
<1>2. Written(m, bytes) = [bytes |-> held \o SubSeq(bytes, 1, k), size |-> size,
                           grows |-> m.grows]
  <2>1. m = [bytes |-> m.bytes, size |-> m.size, grows |-> m.grows]
    BY DEF MemoryType
  <2> HIDE DEF k, size
  <2>2. Written(m, bytes) = [m EXCEPT !.bytes = @ \o SubSeq(bytes, 1, k), !.size = size]
    BY DEF Written, k, size
  <2> QED
    BY <2>1, <2>2
<1>3. k \in 0..n /\ (m.grows => k = n)
  BY <1>1 DEF Accepted, Room
<1>4. size \in Nat /\ h + k <= size
  <2>1. CASE m.grows
    <3>1. RoomForAll(m, n) \in Nat /\ RoomForAll(m, n) > h + n
      <4> HIDE DEF h, n
      <4>1. RoomForAll(m, n) = Chunk * (1 + (h + n) \div Chunk)
        BY DEF RoomForAll, h
      <4> QED
        BY <1>1, <4>1, RoomSuffices, ChunkAssumption
    <3>2. size = Max({m.size, RoomForAll(m, n)})
      BY <2>1 DEF GrownSize
    <3> HIDE DEF h, n, k, size
    <3> DEFINE room == RoomForAll(m, n)
    <3> HIDE DEF room
    <3>3. size \in Nat /\ size >= room /\ room \in Nat /\ room > h + n
      BY <1>1, <3>1, <3>2, GreaterOfTwo DEF room
    <3> QED
      BY <1>1, <1>3, <3>3
  <2>2. CASE ~m.grows
    BY <1>1, <2>2 DEF GrownSize, Accepted, Room
  <2> QED
    BY <2>1, <2>2
<1>5. SubSeq(bytes, 1, k) \in Seq(S) /\ Len(SubSeq(bytes, 1, k)) = k
  <2> HIDE DEF k
  <2> QED
    BY <1>1, <1>3
<1>6. /\ held \o SubSeq(bytes, 1, k) \in Seq(S)
      /\ Len(held \o SubSeq(bytes, 1, k)) = h + k
  <2> DEFINE new == SubSeq(bytes, 1, k)
  <2>1. new \in Seq(S) /\ Len(new) = k
    BY <1>5
  <2>1a. held \in Seq(S)
    BY <1>1
  <2> HIDE DEF new, k, held
  <2>2. held \o new \in Seq(S) /\ Len(held \o new) = Len(held) + Len(new)
    BY <2>1, <2>1a, ConcatProperties, Zenon
  <2> QED
    BY <2>1, <2>2 DEF new
<1>7. m.grows => ~WriteThrows(m, bytes)
  BY <1>1, <1>3 DEF WriteThrows
<1> HIDE DEF k, size, held, h
<1> QED
  BY <1>1, <1>2, <1>4, <1>6, <1>7 DEF MemoryType

-----------------------------------------------------------------------------
(* Buffers.                                                                *)

Objects == [class: BlobClasses \cup {"none"}, len: 0..MaxLen, buf: 0..MaxBlocks]

(* A buffer that an object has is allocated and of the object's length,    *)
(* no other object has it, and every block is the buffer of an object.     *)
Owned(objects, blocks) ==
    /\ \A h \in Handles :
          IF objects[h].buf = 0 THEN objects[h].len = 0
          ELSE objects[h].buf \in DOMAIN blocks /\ blocks[objects[h].buf] = objects[h].len
    /\ \A h, g \in Handles : objects[h].buf = objects[g].buf /\ h # g => objects[h].buf = 0
    /\ \A b \in DOMAIN blocks : \E h \in Handles : objects[h].buf = b

(* The inductive invariant.                                                *)
HeapInv ==
    /\ objs \in [Handles -> Objects]
    /\ DOMAIN heap \subseteq 1..MaxBlocks
    /\ ~excused => status # "undefined" /\ Owned(objs, heap)

(* The readers of numbers fail for two reasons.                            *)
LEMMA NumberErrors ==
    ASSUME NEW bytes
    PROVE  /\ read_varuint_ex(bytes).error \in {"none", "eof", "invalid"}
           /\ read_varint(bytes).error \in {"none", "eof", "invalid"}
<1>1. \E c, v : read_varuint_ex(bytes) \in
          {Failed("eof"), Failed("invalid"), [error |-> "none", count |-> c, value |-> v]}
  BY Zenon DEF read_varuint_ex
<1>2. PICK c, v : read_varuint_ex(bytes) \in
          {Failed("eof"), Failed("invalid"), [error |-> "none", count |-> c, value |-> v]}
  BY <1>1
<1>3. read_varuint_ex(bytes).error \in {"none", "eof", "invalid"}
  BY <1>2 DEF Failed
<1> DEFINE Outcomes == {Failed("eof"), Failed("invalid"),
                        [error |-> "none", count |-> c, value |-> v]}
           raw == read_varuint_ex(bytes)
<1>4. \A r \in Outcomes : \A w : [r EXCEPT !.value = w].error = r.error
  BY DEF Failed
<1>5. \E w : read_varint(bytes) \in {raw, [raw EXCEPT !.value = w]}
  BY Zenon DEF read_varint
<1>6. raw \in Outcomes
  BY <1>2
<1> HIDE DEF Outcomes, raw
<1>7. read_varint(bytes).error = raw.error
  BY <1>4, <1>5, <1>6
<1> QED
  BY <1>3, <1>7 DEF raw

(* Nor does a record end in undefined behaviour.                           *)
LEMMA BodyErrors ==
    ASSUME NEW made, NEW bytes, NEW o
    PROVE  Body(made, bytes, o).error \in {"none", "eof", "invalid"}
<1> DEFINE Errors == {"none", "eof", "invalid"}
<1>1. \A n : \E d, c : Bytes(bytes, o, n) \in
          {Refused("eof"), [error |-> "none", data |-> d, count |-> c]}
  BY Zenon DEF Bytes
<1>2. \A n : Bytes(bytes, o, n).error \in Errors
  BY <1>1 DEF Refused
<1>3. \A n, w : [Bytes(bytes, o, n) EXCEPT !.data = w].error \in Errors
  <2> TAKE n, w
  <2>1. PICK d, c : Bytes(bytes, o, n) \in
            {Refused("eof"), [error |-> "none", data |-> d, count |-> c]}
    BY <1>1
  <2>2. \A x : x \in {Refused("eof"), [error |-> "none", data |-> d, count |-> c]}
            => [x EXCEPT !.data = w].error \in Errors
    BY DEF Refused
  <2> QED
    BY <2>1, <2>2, Zenon
<1>4. Number(read_varint(Remaining(bytes, o))).error \in Errors
      /\ Number(read_varuint_ex(Remaining(bytes, o))).error \in Errors
  BY NumberErrors DEF Number
<1>5. LengthAndBytes(bytes, o).error \in Errors
  <2>1. \E d, c : LengthAndBytes(bytes, o) \in
            {Refused(read_varint(Remaining(bytes, o)).error), Refused("invalid"), Refused("eof"),
             [error |-> "none", data |-> d, count |-> c]}
    BY Zenon DEF LengthAndBytes
  <2>2. \A why : Refused(why).error = why
    BY DEF Refused
  <2> QED
    BY <2>1, <2>2, NumberErrors
<1> HIDE DEF Errors
<1>6. made.class = "bool" => Body(made, bytes, o).error = "none"
  BY DEF Body
<1>7. made.class \in {"uint32", "enum"} => \E w : Body(made, bytes, o) = [Bytes(bytes, o, 4) EXCEPT !.data = w]
  BY DEF Body
<1>8. made.class \notin {"bool", "uint32", "enum"} =>
          Body(made, bytes, o) \in
              {Bytes(bytes, o, 2), Number(read_varint(Remaining(bytes, o))),
               Number(read_varuint_ex(Remaining(bytes, o))), LengthAndBytes(bytes, o)}
  BY DEF Body
<1>9. "none" \in Errors
  BY DEF Errors
<1> QED
  <2>1. Body(made, bytes, o).error \in Errors
    BY <1>2, <1>3, <1>4, <1>5, <1>6, <1>7, <1>8, <1>9, Zenon
  <2> QED
    BY <2>1 DEF Errors

LEMMA ParsedDefined ==
    ASSUME NEW bytes, NEW from
    PROVE  Parsed(bytes, from).result # "undefined"
<1> DEFINE Errors == {"none", "eof", "invalid"}
           Results == {"skipped", "read", "structure", "unsupported"}
<1>1. \A o : read_varuint_ex(Remaining(bytes, o)).error \in Errors
  BY NumberErrors
<1>2. \A made, o : Body(made, bytes, o).error \in Errors
  BY BodyErrors
<1>3. \E why \in Errors \cup Results : \E to, record :
          Parsed(bytes, from) = [result |-> why, to |-> to, record |-> record]
  BY <1>1, <1>2 DEF Parsed
<1> QED
  BY <1>3

(* An object without a buffer has an index of its own, and one with a      *)
(* buffer that nobody else has may take another block instead.             *)
LEMMA Reallocated ==
    ASSUME NEW objects \in [Handles -> Objects], NEW blocks,
           DOMAIN blocks \subseteq 1..MaxBlocks, Owned(objects, blocks),
           NEW h \in Handles, NEW len \in 0..MaxLen, NEW o \in Objects,
           NEW b \in 1..MaxBlocks, b \notin DOMAIN blocks \ {objects[h].buf},
           o.len = len, o.buf = b
    PROVE  LET new == [objects EXCEPT ![h] = o]
               left == Allocated(Without(blocks, objects[h].buf), b, len)
           IN  /\ new \in [Handles -> Objects]
               /\ DOMAIN left \subseteq 1..MaxBlocks
               /\ Owned(new, left)
<1> DEFINE new == [objects EXCEPT ![h] = o]
           old == objects[h].buf
           left == Allocated(Without(blocks, old), b, len)
<1>1. /\ new \in [Handles -> Objects] /\ new[h] = o
      /\ \A g \in Handles \ {h} : new[g] = objects[g]
  OBVIOUS
<1>2. /\ DOMAIN left = (DOMAIN blocks \ {old}) \cup {b}
      /\ left[b] = len
      /\ \A c \in DOMAIN blocks \ {old} : left[c] = blocks[c]
  BY DEF Allocated, Without
<1>3. b # 0 /\ 0 \notin DOMAIN blocks
  BY BoundsAssumption
<1>4. \A g \in Handles \ {h} : objects[g].buf # 0 =>
          /\ objects[g].buf \in DOMAIN blocks \ {old} /\ objects[g].buf # b
          /\ blocks[objects[g].buf] = objects[g].len
  BY Zenon DEF Owned
<1>5. \A c \in DOMAIN blocks \ {old} : \E g \in Handles \ {h} : objects[g].buf = c
  BY DEF Owned
<1>6. \A g \in Handles : objects[g].buf = 0 => objects[g].len = 0
  BY DEF Owned
<1>7. \A g, k \in Handles : objects[g].buf = objects[k].buf /\ g # k => objects[g].buf = 0
  BY DEF Owned
<1> HIDE DEF new, left, old
<1>8. \A g \in Handles :
          IF new[g].buf = 0 THEN new[g].len = 0
          ELSE new[g].buf \in DOMAIN left /\ left[new[g].buf] = new[g].len
  <2> TAKE g \in Handles
  <2>1. CASE g = h
    BY <1>1, <1>2, <1>3, <2>1
  <2>2. CASE g # h
    BY <1>1, <1>2, <1>4, <1>6, <2>2
  <2> QED
    BY <2>1, <2>2
<1>9. \A g, k \in Handles : new[g].buf = new[k].buf /\ g # k => new[g].buf = 0
  BY <1>1, <1>3, <1>4, <1>7
<1>10. \A c \in DOMAIN left : \E g \in Handles : new[g].buf = c
  BY <1>1, <1>2, <1>5
<1> QED
  <2>1. Owned(new, left)
    BY <1>8, <1>9, <1>10 DEF Owned
  <2>2. DOMAIN left \subseteq 1..MaxBlocks
    BY <1>2
  <2> QED
    BY <1>1, <2>1, <2>2 DEF new, left, old

(* An object that is dropped leaves nothing behind.                        *)
LEMMA Freed ==
    ASSUME NEW objects \in [Handles -> Objects], NEW blocks,
           DOMAIN blocks \subseteq 1..MaxBlocks, Owned(objects, blocks),
           NEW h \in Handles
    PROVE  LET new == [objects EXCEPT ![h] = NoObject]
               left == Without(blocks, objects[h].buf)
           IN  /\ new \in [Handles -> Objects]
               /\ DOMAIN left \subseteq 1..MaxBlocks
               /\ Owned(new, left)
<1> DEFINE new == [objects EXCEPT ![h] = NoObject]
           old == objects[h].buf
           left == Without(blocks, old)
<1>1. NoObject \in Objects /\ NoObject.buf = 0 /\ NoObject.len = 0
  BY BoundsAssumption DEF NoObject, Objects
<1>2. /\ new \in [Handles -> Objects] /\ new[h] = NoObject
      /\ \A g \in Handles \ {h} : new[g] = objects[g]
  BY <1>1
<1>3. /\ DOMAIN left = DOMAIN blocks \ {old}
      /\ \A c \in DOMAIN blocks \ {old} : left[c] = blocks[c]
  BY DEF Without
<1>4. 0 \notin DOMAIN blocks
  BY BoundsAssumption
<1>5. \A g \in Handles \ {h} : objects[g].buf # 0 =>
          /\ objects[g].buf \in DOMAIN blocks \ {old}
          /\ blocks[objects[g].buf] = objects[g].len
  BY Zenon DEF Owned
<1>6. \A c \in DOMAIN blocks \ {old} : \E g \in Handles \ {h} : objects[g].buf = c
  BY DEF Owned
<1>7. \A g \in Handles : objects[g].buf = 0 => objects[g].len = 0
  BY DEF Owned
<1>8. \A g, k \in Handles : objects[g].buf = objects[k].buf /\ g # k => objects[g].buf = 0
  BY DEF Owned
<1> HIDE DEF new, left, old
<1>9. \A g \in Handles :
          IF new[g].buf = 0 THEN new[g].len = 0
          ELSE new[g].buf \in DOMAIN left /\ left[new[g].buf] = new[g].len
  BY <1>1, <1>2, <1>3, <1>5, <1>7
<1>10. \A g, k \in Handles : new[g].buf = new[k].buf /\ g # k => new[g].buf = 0
  BY <1>1, <1>2, <1>8
<1>11. \A c \in DOMAIN left : \E g \in Handles : new[g].buf = c
  BY <1>2, <1>3, <1>6
<1> QED
  <2>1. Owned(new, left)
    BY <1>9, <1>10, <1>11 DEF Owned
  <2>2. DOMAIN left \subseteq 1..MaxBlocks
    BY <1>3
  <2> QED
    BY <1>2, <2>1, <2>2 DEF new, left, old

(* Every object is usable, and what is read of its fields.                 *)
LEMMA OwnedUsable ==
    ASSUME HeapInv, ~excused, NEW h \in Handles
    PROVE  /\ Usable(objs[h])
           /\ objs[h] \in Objects
           /\ objs[h].len \in 0..MaxLen /\ objs[h].buf \in 0..MaxBlocks
           /\ objs[h].class \in BlobClasses \cup {"none"}
<1>1. objs[h] \in Objects
  BY DEF HeapInv
<1>2. /\ objs[h].len \in 0..MaxLen /\ objs[h].buf \in 0..MaxBlocks
      /\ objs[h].class \in BlobClasses \cup {"none"}
  BY <1>1 DEF Objects
<1>3. IF objs[h].buf = 0 THEN objs[h].len = 0 ELSE objs[h].buf \in DOMAIN heap
  BY DEF HeapInv, Owned
<1> QED
  BY <1>1, <1>2, <1>3 DEF Usable, Live

LEMMA HeapInvInit == Init => HeapInv
<1> SUFFICES ASSUME Init PROVE HeapInv
  OBVIOUS
<1>1. NoObject \in Objects /\ NoObject.buf = 0 /\ NoObject.len = 0
  BY BoundsAssumption DEF NoObject, Objects
<1>2. objs = [h \in Handles |-> NoObject] /\ heap = <<>> /\ status # "undefined"
  BY DEF Init
<1>3. DOMAIN heap = {}
  BY <1>2
<1>4. objs \in [Handles -> Objects] /\ \A h \in Handles : objs[h] = NoObject
  BY <1>1, <1>2
<1>5. Owned(objs, heap)
  BY <1>1, <1>3, <1>4 DEF Owned
<1> QED
  BY <1>2, <1>3, <1>4, <1>5 DEF HeapInv

LEMMA HeapInvStep == HeapInv /\ [Next]_vars => HeapInv'
<1> SUFFICES ASSUME HeapInv, [Next]_vars PROVE HeapInv'
  OBVIOUS
<1> USE DEF heapVars, memoryVars, writerVars, readerVars
<1>1. ASSUME UNCHANGED <<objs, heap>>, ~excused' => ~excused /\ status' # "undefined"
      PROVE  HeapInv'
  BY <1>1 DEF HeapInv, Owned
<1>2. ASSUME NEW h \in Handles, NEW class \in BlobClasses, Create(h, class)
      PROVE  HeapInv'
  <2> DEFINE o == [NoObject EXCEPT !.class = class]
  <2>1. o \in Objects /\ o.buf = 0 /\ o.len = 0
    BY BoundsAssumption DEF NoObject, Objects
  <2> HIDE DEF o
  <2>2. /\ objs[h].buf = 0 /\ objs' = [objs EXCEPT ![h] = o]
        /\ heap' = heap /\ ~excused /\ status' # "undefined"
    BY <1>2 DEF Create, NoObject, o
  <2>3. objs \in [Handles -> Objects] /\ Owned(objs, heap)
    BY <2>2 DEF HeapInv
  <2>4. /\ objs' \in [Handles -> Objects] /\ objs'[h] = o
        /\ \A g \in Handles \ {h} : objs'[g] = objs[g]
    BY <2>1, <2>2, <2>3
  <2>5. \A b \in DOMAIN heap : b # 0
    BY BoundsAssumption DEF HeapInv
  <2>6. Owned(objs', heap')
    BY <2>1, <2>2, <2>3, <2>4, <2>5 DEF Owned
  <2> QED
    BY <2>2, <2>4, <2>6 DEF HeapInv
<1>3. ASSUME NEW h \in Handles, Set(h)
      PROVE  HeapInv'
  <2>1. ~excused /\ status = "writing" /\ UNCHANGED <<excused, status>>
    BY <1>3 DEF Set, Touching
  <2> DEFINE kept == Without(heap, objs[h].buf)
             free == (1..MaxBlocks) \ DOMAIN kept
  <2>2. PICK len \in 0..MaxLen :
            /\ free # {}
            /\ heap' = Allocated(kept, Min(free), len)
            /\ objs' = [objs EXCEPT ![h] = [class |-> @.class, len |-> len, buf |-> Min(free)]]
    BY <1>3, Zenon DEF Set
  <2>3. Min(free) \in 1..MaxBlocks /\ Min(free) \notin DOMAIN heap \ {objs[h].buf}
    <3>1. Min(free) \in free
      BY <2>2, LeastIn, BoundsAssumption
    <3> QED
      BY <3>1 DEF Without
  <2> DEFINE b == Min(free)
             o == [class |-> objs[h].class, len |-> len, buf |-> b]
  <2> HIDE DEF b
  <2>4. o \in Objects /\ o.len = len /\ o.buf = b
    BY <2>1, <2>3, OwnedUsable, BoundsAssumption DEF Objects, b
  <2>5. objs' = [objs EXCEPT ![h] = o]
    BY <2>2 DEF b
  <2> HIDE DEF o
  <2>6. /\ objs \in [Handles -> Objects] /\ DOMAIN heap \subseteq 1..MaxBlocks
        /\ Owned(objs, heap)
    BY <2>1 DEF HeapInv
  <2>7. b \in 1..MaxBlocks /\ b \notin DOMAIN heap \ {objs[h].buf}
    BY <2>3 DEF b
  <2>8. heap' = Allocated(Without(heap, objs[h].buf), b, len)
    BY <2>2 DEF b
  <2>9. /\ objs' \in [Handles -> Objects] /\ DOMAIN heap' \subseteq 1..MaxBlocks
        /\ Owned(objs', heap')
    BY <2>4, <2>5, <2>6, <2>7, <2>8, Reallocated
  <2> QED
    BY <2>1, <2>9 DEF HeapInv
<1>4. ASSUME NEW h \in Handles, SetRefused(h)
      PROVE  HeapInv'
  <2>1. ~excused /\ excused' /\ heap' = Without(heap, objs[h].buf)
    BY <1>4 DEF SetRefused, Touching
  <2>2. PICK len \in 1..MaxLen : objs' = [objs EXCEPT ![h].len = len]
    BY <1>4, Zenon DEF SetRefused
  <2>3. objs' \in [Handles -> Objects]
    <3>1. [objs[h] EXCEPT !.len = len] \in Objects
      BY <2>1, OwnedUsable, BoundsAssumption DEF Objects
    <3> QED
      BY <2>2, <3>1 DEF HeapInv
  <2>4. DOMAIN heap' \subseteq 1..MaxBlocks
    BY <2>1 DEF HeapInv, Without
  <2> QED
    BY <2>1, <2>3, <2>4 DEF HeapInv
<1>5. ASSUME NEW h \in Handles, NEW g \in Handles, Copy(h, g)
      PROVE  HeapInv'
  <2>1. /\ ~excused /\ status = "writing" /\ UNCHANGED <<excused, status>>
        /\ objs[g] = NoObject /\ Free # {}
    BY <1>5 DEF Copy, Touching
  <2>2. /\ objs \in [Handles -> Objects] /\ DOMAIN heap \subseteq 1..MaxBlocks
        /\ Owned(objs, heap)
    BY <2>1 DEF HeapInv
  <2> DEFINE b == Min(Free)
             o == [objs[h] EXCEPT !.buf = b]
             len == objs[h].len
  <2>3. b \in 1..MaxBlocks /\ b \notin DOMAIN heap
    BY <2>1, LeastIn, BoundsAssumption DEF Free
  <2> HIDE DEF b
  <2>4. len \in 0..MaxLen /\ o \in Objects /\ o.len = len /\ o.buf = b
    BY <2>1, <2>3, OwnedUsable, BoundsAssumption DEF Objects
  <2>5. heap' = Allocated(heap, b, len) /\ objs' = [objs EXCEPT ![g] = o]
    BY <1>5, Zenon DEF Copy, CopiedBuffer, b
  <2>6. objs[g].buf = 0 /\ 0 \notin DOMAIN heap
    BY <2>1, <2>2, BoundsAssumption DEF NoObject
  <2>7. heap' = Allocated(Without(heap, objs[g].buf), b, len)
    BY <2>5, <2>6 DEF Allocated, Without
  <2>7b. objs' = [objs EXCEPT ![g] = o]
    BY <2>5
  <2> HIDE DEF o, len
  <2>7a. b \notin DOMAIN heap \ {objs[g].buf}
    BY <2>3
  <2>8. /\ objs' \in [Handles -> Objects] /\ DOMAIN heap' \subseteq 1..MaxBlocks
        /\ Owned(objs', heap')
    BY <2>2, <2>3, <2>4, <2>7, <2>7a, <2>7b, Reallocated
  <2> QED
    BY <2>1, <2>8 DEF HeapInv
<1>6. ASSUME NEW h \in Handles, Drop(h)
      PROVE  HeapInv'
  <2>1. ~excused /\ status = "writing" /\ UNCHANGED <<excused, status>>
    BY <1>6 DEF Drop, Touching
  <2>2. /\ objs \in [Handles -> Objects] /\ DOMAIN heap \subseteq 1..MaxBlocks
        /\ Owned(objs, heap)
    BY <2>1 DEF HeapInv
  <2>3. heap' = Without(heap, objs[h].buf) /\ objs' = [objs EXCEPT ![h] = NoObject]
    BY <1>6 DEF Drop
  <2>4. /\ objs' \in [Handles -> Objects] /\ DOMAIN heap' \subseteq 1..MaxBlocks
        /\ Owned(objs', heap')
    BY <2>2, <2>3, Freed
  <2> QED
    BY <2>1, <2>4 DEF HeapInv
<1>7. ASSUME NEW h \in Handles,
             SetEmptying(h) \/ (\E g \in Handles : CopyRefused(h, g)) \/ WriteUnset(h)
      PROVE  HeapInv'
  BY <1>1, <1>7 DEF SetEmptying, CopyRefused, WriteUnset, Undefined
<1>8. ASSUME NEW h \in Handles, UseGone(h)
      PROVE  HeapInv'
  BY <1>1, <1>8, OwnedUsable DEF UseGone, Undefined
<1>9. ASSUME NEW r, Write(r), UNCHANGED memoryVars
      PROVE  HeapInv'
  BY <1>1, <1>9 DEF Write
<1>10. ASSUME NEW h \in Handles, WriteBlob(h, 1)
       PROVE  HeapInv'
  BY <1>9, <1>10 DEF WriteBlob
<1>11. ASSUME NEW r \in Plain, WritePlain(r)
       PROVE  HeapInv'
  BY <1>9, <1>11 DEF WritePlain
<1>12. ASSUME StartReading \/ StartForeign
       PROVE  HeapInv'
  BY <1>1, <1>12 DEF StartReading, StartForeign
<1>13. ASSUME ReadRecord
       PROVE  HeapInv'
  <2>1. /\ UNCHANGED <<objs, heap, excused>> /\ status = "reading"
        /\ status' = IF Parsed(input, offs).result \in {"read", "skipped"}
                     THEN "reading" ELSE Parsed(input, offs).result
    BY <1>13, Zenon DEF ReadRecord
  <2> QED
    BY <1>1, <2>1, ParsedDefined
<1>14. CASE UNCHANGED vars
  BY <1>1, <1>14 DEF vars, HeapInv
<1> QED
  BY <1>2, <1>3, <1>4, <1>5, <1>6, <1>7, <1>8, <1>10, <1>11, <1>12, <1>13, <1>14
     DEF Next

(* A program that empties no record, is refused no memory and writes no    *)
(* string of no bytes never touches a buffer that is gone; every object    *)
(* has a buffer of its own, of its length, and no buffer is left behind.   *)
(* It is about the allocation and the copies of BlobDataRecord, for any    *)
(* number of records and any size of the heap.                             *)
THEOREM BuffersAlwaysOwned == Spec => []BuffersOwned
<1>1. HeapInv => BuffersOwned
  <2> SUFFICES ASSUME HeapInv, ~excused PROVE BuffersOwned
    BY DEF BuffersOwned
  <2>1. status # "undefined" /\ Owned(objs, heap) /\ DOMAIN heap \subseteq 1..MaxBlocks
    BY DEF HeapInv
  <2>2. ASSUME NEW b \in DOMAIN heap
        PROVE  Cardinality({h \in Handles : objs[h].buf = b}) = 1
    <3>1. b # 0
      BY <2>1, BoundsAssumption
    <3>2. PICK h \in Handles : objs[h].buf = b
      BY <2>1 DEF Owned
    <3>3. {g \in Handles : objs[g].buf = b} = {h}
      BY <2>1, <3>1, <3>2 DEF Owned
    <3> QED
      BY <3>3, FS_Singleton
  <2> QED
    BY <2>1, <2>2 DEF BuffersOwned, Owned, Live
<1> QED
  BY HeapInvInit, HeapInvStep, <1>1, PTL DEF Spec
=============================================================================
