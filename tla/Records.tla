-------------------------------- MODULE Records --------------------------------
(***************************************************************************)
(* Data records: their objects in memory, what they write to a stream, the *)
(* registry that makes objects for what is read, and what these read.      *)
(*                                                                         *)
(* A program keeps string and blob records, whose contents are on the      *)
(* heap, sets, copies and drops them, writes records of all classes to a   *)
(* WritableMemory, and then reads the output as FromBitstream reads the    *)
(* records of a container.  Or it reads bytes of somebody else.            *)
(***************************************************************************)
EXTENDS VarInt, Memory, FiniteSets, TLC

CONSTANTS
    Handles,     \* the string and blob records the program keeps
    MaxBlocks,   \* bound: blocks on the heap
    MaxLen,      \* bound: the length of a string or a blob
    MaxRecords,  \* bound: the records that are written
    Plain,       \* the records of the other classes it writes, by value
    Memories,    \* the memories it writes to
    Registries,  \* the registries it reads with
    Foreign      \* payloads of somebody else

ASSUME BoundsAssumption == MaxBlocks \in Nat /\ MaxLen \in Nat

BlobClasses == {"utf8", "blob", "appblob"}

(* A record as it is written and read: `data' is a sequence of integers,   *)
(* for a string or blob that of its length alone.                          *)
Record(class, id, data) == [class |-> class, id |-> id, data |-> data]

VARIABLES
    objs,        \* the string and blob records; None where there is no object
    heap,        \* the blocks that are allocated, with their sizes
    mem,         \* the WritableMemory
    hosts,       \* whether the writing and the reading host are big-endian
    input,       \* the bytes that are read
    offs,        \* the offset of the ReadableMemory
    registry,    \* the registry of the reader
    forgiving,   \* whether it skips appblobs it does not know
    status,
    got,         \* history: the records that were read
    written,     \* history: the records that were written
    short,       \* history: whether the last one was cut short
    excused      \* history: whether the program has misused a string or blob

heapVars == <<objs, heap>>
memoryVars == <<heapVars, excused>>
writerVars == <<mem, written, short>>
readerVars == <<input, offs, registry, forgiving, got>>
vars == <<memoryVars, writerVars, readerVars, hosts, status>>

-----------------------------------------------------------------------------
(* Record types (static.hpp) and the registry.                             *)

RT_RESERVED == 0
RT_CONTAINER == 1
RT_UINT32 == 2
RT_BOOL_TRUE == 6
RT_BOOL_FALSE == 7
RT_UTF8STRING == 10
RT_BLOB == 11
RT_END_OF_CHILDREN == 12
RT_VARUINT == 13
RT_VARINT == 14
RT_RAW128 == 15
RT_APPBLOB_MIN == 64
RT_APPBLOB_MAX == 95
RT_APP_NOSIZE_MIN == 96

InvalidID == MaxVarUInt

(* record_type of a record, which is all that tells the value of a         *)
(* BoolRecord.  "uint32" stands for the primitive types of the host,       *)
(* "enum" for an EnumRecordTpl of one of these with a type of its own.     *)
RecordType(class, data) ==
    CASE class = "bool" -> IF data = <<1>> THEN RT_BOOL_TRUE ELSE RT_BOOL_FALSE
      [] class = "uint32" -> RT_UINT32
      [] class = "raw128" -> RT_RAW128
      [] class = "varint" -> RT_VARINT
      [] class = "varuint" -> RT_VARUINT
      [] class = "utf8" -> RT_UTF8STRING
      [] class = "blob" -> RT_BLOB
      [] class = "appblob" -> RT_APPBLOB_MIN
      [] class = "enum" -> RT_APP_NOSIZE_MIN

(* What a registry makes for a record type: an object of a class with its  *)
(* initial data, which only create_boolean sets.                           *)
Makes(rt, class, data) == rt :> [class |-> class, data |-> data]

register_defaults ==
    Makes(RT_UINT32, "uint32", <<>>) @@ Makes(RT_UTF8STRING, "utf8", <<>>)
    @@ Makes(RT_BLOB, "blob", <<>>) @@ Makes(RT_RAW128, "raw128", <<>>)
    @@ Makes(RT_BOOL_FALSE, "bool", <<0>>) @@ Makes(RT_BOOL_TRUE, "bool", <<1>>)
    @@ Makes(RT_VARINT, "varint", <<>>) @@ Makes(RT_VARUINT, "varuint", <<>>)

(* The constructor of a registry: the types it is given come after, and in *)
(* the place of, the defaults.                                             *)
Registry(initial, add_defaults) ==
    IF add_defaults THEN initial @@ register_defaults ELSE initial

NoObject == [class |-> "none", len |-> 0, buf |-> 0]

Init ==
    /\ objs = [h \in Handles |-> NoObject]
    /\ heap = <<>>
    /\ mem \in Memories
    /\ hosts \in [writer: BOOLEAN, reader: {FALSE}]
    /\ input = <<>> /\ offs = 0 /\ registry = <<>> /\ forgiving = FALSE
    /\ status = "writing"
    /\ written = <<>> /\ got = <<>> /\ short = FALSE /\ excused = FALSE

-----------------------------------------------------------------------------
(* Strings and blobs in memory (BlobDataRecord).  `buf' is a block, 0 for  *)
(* the null pointer; a string is one longer than what it writes.           *)

Live(b) == b \in DOMAIN heap
Free == (1..MaxBlocks) \ DOMAIN heap
Allocated(blocks, b, size) ==
    [c \in DOMAIN blocks \cup {b} |-> IF c = b THEN size ELSE blocks[c]]
Without(blocks, b) == [c \in DOMAIN blocks \ {b} |-> blocks[c]]

(* The buffer of an object may be read and written.                        *)
Usable(o) == Live(o.buf) \/ (o.buf = 0 /\ o.len = 0)

Undefined ==
    /\ status' = "undefined"
    /\ UNCHANGED <<heapVars, writerVars, readerVars, hosts>>

(* The program goes on until a misuse, and then to where it bites.         *)
Touching(h) == status = "writing" /\ ~excused /\ objs[h] # NoObject

Create(h, class) ==
    /\ status = "writing" /\ ~excused /\ objs[h] = NoObject
    /\ objs' = [objs EXCEPT ![h] = [NoObject EXCEPT !.class = class]]
    /\ UNCHANGED <<heap, excused, writerVars, readerVars, hosts, status>>

(* set: allocate_length leaves a buffer of the same length as it is, else  *)
(* it gets a new one from realloc, which frees the old one.                *)
Set(h) ==
    /\ Touching(h)
    /\ Usable(objs[h])
    /\ \E len \in 0..MaxLen :
          /\ len # objs[h].len
          /\ LET kept == Without(heap, objs[h].buf)
                 b == Min((1..MaxBlocks) \ DOMAIN kept)
             IN  /\ (1..MaxBlocks) \ DOMAIN kept # {}
                 /\ heap' = Allocated(kept, b, len)
                 /\ objs' = [objs EXCEPT ![h] = [class |-> @.class, len |-> len, buf |-> b]]
    /\ UNCHANGED <<excused, writerVars, readerVars, hosts, status>>

(* realloc to size 0 may free the buffer and return null, and then         *)
(* allocate_length frees it again.                                         *)
SetEmptying(h) ==
    /\ Touching(h)
    /\ objs[h].len > 0 /\ Live(objs[h].buf)
    /\ excused' = TRUE
    /\ Undefined

(* realloc fails: the buffer is freed and the length already set; both     *)
(* stay as they are when the exception is thrown.                          *)
SetRefused(h) ==
    /\ Touching(h)
    /\ Usable(objs[h])
    /\ \E len \in 1..MaxLen :
          /\ len # objs[h].len
          /\ objs' = [objs EXCEPT ![h].len = len]
    /\ heap' = Without(heap, objs[h].buf)
    /\ excused' = TRUE
    /\ UNCHANGED <<writerVars, readerVars, hosts, status>>

(* The copy constructor allocates a buffer, of size 0 as well.             *)
CopySharing(o) == o.buf
CopiedBuffer(o) == Min(Free)

Copy(h, g) ==
    /\ Touching(h) /\ objs[g] = NoObject
    /\ Usable(objs[h])
    /\ Free # {}
    /\ LET b == CopiedBuffer(objs[h]) IN
       /\ heap' = Allocated(heap, b, objs[h].len)
       /\ objs' = [objs EXCEPT ![g] = [objs[h] EXCEPT !.buf = b]]
    /\ UNCHANGED <<excused, writerVars, readerVars, hosts, status>>

(* It does not look at what malloc returns.                                *)
CopyRefused(h, g) ==
    /\ Touching(h) /\ objs[g] = NoObject
    /\ Usable(objs[h]) /\ objs[h].len > 0
    /\ excused' = TRUE
    /\ Undefined

(* The destructor frees the buffer.                                        *)
Drop(h) ==
    /\ Touching(h)
    /\ objs[h].buf = 0 \/ Live(objs[h].buf)
    /\ heap' = Without(heap, objs[h].buf)
    /\ objs' = [objs EXCEPT ![h] = NoObject]
    /\ UNCHANGED <<excused, writerVars, readerVars, hosts, status>>

(* Any use of a buffer that is gone, also by the destructor.               *)
UseGone(h) ==
    /\ status = "writing" /\ objs[h] # NoObject
    /\ ~Usable(objs[h])
    /\ UNCHANGED excused
    /\ Undefined

-----------------------------------------------------------------------------
(* Writing.                                                                *)

(* The bytes of a primitive value, given lowest first, in the memory of a  *)
(* host, and what is swapped between there and the stream.                 *)
InMemory(bytes, bigEndian) == IF bigEndian THEN Reverse(bytes) ELSE bytes
NeverSwapped(bytes, bigEndian) == bytes
Swapped(bytes, bigEndian) == IF bigEndian THEN Reverse(bytes) ELSE bytes

Header(r) ==
    write_varuint(RecordType(r.class, r.data)) \o write_varuint(r.id)

Filler(len) == [i \in 1..len |-> 1]

Payload(r) ==
    CASE r.class = "bool" -> <<>>
      [] r.class \in {"uint32", "enum"} -> Swapped(InMemory(r.data, hosts.writer), hosts.writer)
      [] r.class = "raw128" -> r.data
      [] r.class = "varint" -> write_varint(r.data[1])
      [] r.class = "varuint" -> write_varuint(r.data[1])
      [] OTHER -> write_varint(r.data[1]) \o Filler(r.data[1])

Encoded(r) == Header(r) \o Payload(r)

(* swrite throws when the memory takes less than it is given, and nothing  *)
(* is written any more.                                                    *)
Write(r) ==
    LET bytes == Encoded(r) IN
    /\ Len(written) < MaxRecords /\ ~excused
    /\ mem' = Written(mem, bytes)
    /\ written' = Append(written, r)
    /\ short' = WriteThrows(mem, bytes)
    /\ status' = IF short' THEN "short" ELSE "writing"

WritePlain(r) ==
    /\ status = "writing"
    /\ Write(r)
    /\ UNCHANGED <<memoryVars, readerVars, hosts>>

(* A string writes its length without the terminating null character.      *)
WrittenLength(o) == IF o.class = "utf8" THEN o.len - 1 ELSE o.len

WriteBlob(h, id) ==
    /\ Touching(h)
    /\ Usable(objs[h])
    /\ WrittenLength(objs[h]) >= 0
    /\ Write(Record(objs[h].class, id, <<WrittenLength(objs[h])>>))
    /\ UNCHANGED <<memoryVars, readerVars, hosts>>

(* A string of no bytes, as one that was never set, writes -1 bytes.       *)
WriteUnset(h) ==
    /\ Touching(h)
    /\ Usable(objs[h])
    /\ WrittenLength(objs[h]) < 0
    /\ excused' = TRUE
    /\ Undefined

-----------------------------------------------------------------------------
(* Reading.                                                                *)

(* A ReadableMemory is made of what was written, when the program has      *)
(* dropped its records (which bounds the states) ...                       *)
StartReading ==
    /\ status \in {"writing", "short"} /\ ~excused
    /\ objs = [h \in Handles |-> NoObject]
    /\ input' = mem.bytes /\ offs' = 0
    /\ registry' \in Registries /\ forgiving' \in BOOLEAN
    /\ \E b \in BOOLEAN : hosts' = [hosts EXCEPT !.reader = b]
    /\ status' = "reading"
    /\ UNCHANGED <<memoryVars, writerVars, got>>

(* ... or of what somebody else has written for a record.                  *)
StartForeign ==
    /\ status = "writing" /\ written = <<>> /\ objs = [h \in Handles |-> NoObject]
    /\ \E rt \in {RT_VARINT, RT_VARUINT, RT_BLOB, RT_UTF8STRING}, payload \in Foreign :
          input' = write_varuint(rt) \o write_varuint(1) \o payload
    /\ offs' = 0
    /\ registry' = register_defaults /\ forgiving' = FALSE
    /\ status' = "reading"
    /\ UNCHANGED <<memoryVars, writerVars, got, hosts>>

Refused(why) == [error |-> why, data |-> <<>>, count |-> 0]

(* n of the bytes from offset o.                                           *)
Bytes(bytes, o, n) ==
    IF ReadThrows(bytes, o, n) THEN Refused("eof")
    ELSE [error |-> "none", data |-> SubSeq(bytes, o + 1, o + n), count |-> n]

Number(raw) == [error |-> raw.error, data |-> <<raw.value>>, count |-> raw.count]

(* A length, which must not be negative, and as many bytes.                *)
LengthAndBytes(bytes, o) ==
    LET len == read_varint(Remaining(bytes, o)) IN
    IF len.error # "none" THEN Refused(len.error)
    ELSE IF len.value < 0 THEN Refused("invalid")
    ELSE IF ReadThrows(bytes, o + len.count, len.value) THEN Refused("eof")
    ELSE [error |-> "none", data |-> <<len.value>>, count |-> len.count + len.value]

(* read of an object the registry has made.                                *)
Body(made, bytes, o) ==
    CASE made.class = "bool" -> [error |-> "none", data |-> made.data, count |-> 0]
      [] made.class \in {"uint32", "enum"} ->
            LET raw == Bytes(bytes, o, 4) IN
            [raw EXCEPT !.data = InMemory(Swapped(@, hosts.reader), hosts.reader)]
      [] made.class = "raw128" -> Bytes(bytes, o, 2)
      [] made.class = "varint" -> Number(read_varint(Remaining(bytes, o)))
      [] made.class = "varuint" -> Number(read_varuint_ex(Remaining(bytes, o)))
      [] OTHER -> LengthAndBytes(bytes, o)

(* Containers and their ends are not records of data: see FromBitstream.   *)
Structure == {RT_RESERVED, RT_CONTAINER, RT_END_OF_CHILDREN}

SkipsAppblobs(rt) == forgiving /\ rt \in RT_APPBLOB_MIN..RT_APPBLOB_MAX

(* The next record as read_step reads it: its type and id, then what the   *)
(* registry makes for it, or an appblob that may be skipped.               *)
Parsed(bytes, from) ==
    LET rt == read_varuint_ex(Remaining(bytes, from))
        id == read_varuint_ex(Remaining(bytes, from + rt.count))
        o == from + rt.count + id.count
        size == read_varuint_ex(Remaining(bytes, o))
        body == Body(registry[rt.value], bytes, o)
        Fails(why) == [result |-> why, to |-> Len(bytes), record |-> <<>>]
        Skipped(end) == [result |-> "skipped", to |-> end, record |-> <<>>]
        Read(b) == [result |-> "read", to |-> o + b.count,
                    record |-> <<Record(registry[rt.value].class, id.value, b.data)>>]
    IN  IF rt.error # "none" THEN Fails(rt.error)
        ELSE IF rt.value \in Structure THEN Fails("structure")
        ELSE IF id.error # "none" THEN Fails(id.error)
        ELSE IF id.value = InvalidID THEN Fails("invalid")
        ELSE IF rt.value \notin DOMAIN registry
             THEN IF ~SkipsAppblobs(rt.value) THEN Fails("unsupported")
                  ELSE IF size.error # "none" THEN Fails(size.error)
                  ELSE IF ReadThrows(bytes, o + size.count, size.value) THEN Fails("eof")
                  ELSE Skipped(o + size.count + size.value)
        ELSE IF body.error # "none" THEN Fails(body.error)
        ELSE Read(body)

ReadRecord ==
    /\ status = "reading"
    /\ LET p == Parsed(input, offs) IN
       /\ offs' = p.to
       /\ got' = got \o p.record
       /\ status' = IF p.result \in {"read", "skipped"} THEN "reading" ELSE p.result
    /\ UNCHANGED <<memoryVars, writerVars, input, registry, forgiving, hosts>>

-----------------------------------------------------------------------------
Next ==
    \/ \E h \in Handles :
          \/ \E class \in BlobClasses : Create(h, class)
          \/ Set(h) \/ SetEmptying(h) \/ SetRefused(h)
          \/ \E g \in Handles : Copy(h, g) \/ CopyRefused(h, g)
          \/ Drop(h) \/ UseGone(h)
          \/ WriteBlob(h, 1) \/ WriteUnset(h)
    \/ \E r \in Plain : WritePlain(r)
    \/ StartReading \/ StartForeign \/ ReadRecord

Spec == Init /\ [][Next]_vars

-----------------------------------------------------------------------------
(* Properties.                                                             *)

(* Every variable has its type, and a memory holds no more than its buffer *)
(* has room for.                                                           *)
RecordsTypeOK ==
    /\ objs \in [Handles -> [class: BlobClasses \cup {"none"}, len: 0..(MaxLen + 1),
                            buf: 0..MaxBlocks]]
    /\ DOMAIN heap \subseteq 1..MaxBlocks
    /\ Len(mem.bytes) <= mem.size /\ \A i \in 1..Len(mem.bytes) : mem.bytes[i] \in Byte
    /\ offs \in 0..Len(input)
    /\ Len(written) <= MaxRecords
    /\ status \in {"writing", "short", "undefined", "reading",
                   "eof", "invalid", "unsupported", "structure"}

(* A program that empties no record, is refused no memory and writes no    *)
(* string of no bytes never touches a buffer that is gone; every object *)
(* has a buffer of its own, of its length, and no buffer is left behind.   *)
(* It is about the allocation and the copies of BlobDataRecord.            *)
BuffersOwned ==
    LET Owners(b) == {h \in Handles : objs[h].buf = b}
    IN  ~excused =>
            /\ status # "undefined"
            /\ \A h \in Handles : objs[h].buf = 0 => objs[h].len = 0
            /\ \A h \in Handles : objs[h].buf # 0 =>
                   Live(objs[h].buf) /\ heap[objs[h].buf] = objs[h].len
            /\ \A b \in DOMAIN heap : Cardinality(Owners(b)) = 1

(* What has a place in the format, and what a reader does not stop at.     *)
InRange(r) ==
    CASE r.class = "varint" -> r.data[1] \in -MaxVarInt..MaxVarInt
      [] r.class = "varuint" -> r.data[1] \in 0..MaxVarUInt
      [] OTHER -> TRUE
Known(r) == RecordType(r.class, r.data) \in DOMAIN registry
Skippable(r) == SkipsAppblobs(RecordType(r.class, r.data))
Readable(r) == r.id # InvalidID /\ (Known(r) \/ Skippable(r))

(* The records without the one that the memory of the writer has cut short *)
(* are what the reader finds whole.                                        *)
Whole == IF short THEN Front(written) ELSE written

(* A reader gets these records, those known to it, in order up to the      *)
(* first that it cannot read, and nothing else; it comes to the end of the *)
(* input only when it has got all, and stops before only at one that it    *)
(* cannot read.                                                            *)
ReadsAs(records) ==
    LET bad == {i \in DOMAIN records : ~Readable(records[i])}
        end == Min(bad \cup {Len(records) + 1}) - 1
        expected == SelectSeq(SubSeq(records, 1, end), Known)
    IN  /\ IsPrefix(got, expected)
        /\ status = "eof" => got = expected /\ bad = {}
        /\ status # "structure"
        /\ status \in {"invalid", "unsupported"} =>
              got = expected /\ \E i \in DOMAIN written : ~Readable(written[i])

(* A reader gets the records that were written, each with its class, its   *)
(* id and its value, whatever the byte orders of the two hosts, if all     *)
(* numbers have a place in the format; it stops only at an id that has     *)
(* none or a type that is not in its registry.  A record that the memory   *)
(* of the writer has cut short is never taken for a whole one.             *)
ReadsWhatWasWritten ==
    written # <<>> /\ (\A i \in DOMAIN written : InRange(written[i])) => ReadsAs(Whole)

(* "No range-checking is done whether the value can actually be            *)
(* represented as a varint.  Surplus bits will be cut off" (utils.hpp, of  *)
(* write_varuint): an unsigned number out of range is read as what is left *)
(* of it, and the records after it as they were written.                   *)
CutOff(r) ==
    IF r.class = "varuint" THEN [r EXCEPT !.data[1] = @ % (MaxVarUInt + 1)] ELSE r
SurplusBitsCutOff ==
    written # <<>> /\ (\A i \in DOMAIN written : InRange(CutOff(written[i]))) =>
        ReadsAs([i \in DOMAIN Whole |-> CutOff(Whole[i])])

(* What was read, from whomever, can be written again: it takes no more    *)
(* bytes than were read, and is read as the same records.  The readers of  *)
(* numbers take encodings that are longer than necessary and a negative    *)
(* zero, and all values that they return have a place in the format.       *)
ForeignNormalised ==
    LET Again(i) == Parsed(Encoded(got[i]), 0)
    IN  /\ \A i \in 1..Len(got) :
              Again(i).result = "read" /\ Again(i).record = <<got[i]>>
        /\ status = "reading" =>
              FoldLeft(LAMBDA n, r : n + Len(Encoded(r)), 0, got) <= offs
=============================================================================
