----------------------------- MODULE ToBitstream -----------------------------
(***************************************************************************)
(* The bitstream writer (ToBitstream with the hash functions of            *)
(* ToBitstreamHashing): a stack of the containers it has begun and a chain *)
(* of hash pipes over the output.                                          *)
(*                                                                         *)
(* The output is a sequence of units: container headers, records,          *)
(* end-of-children markers and digests.  A digest is the set of the units  *)
(* that were hashed for it.  A write that falls short raises an exception, *)
(* as does a hash function that the registry does not know; both leave     *)
(* behind what was done before.                                            *)
(***************************************************************************)
EXTENDS Integers, Sequences, SequencesExt

CONSTANTS
    Keys,        \* the (record type, id) pairs hash functions are set for
    HashTypes,   \* the hash functions a caller can set
    HT_NONE,     \* no hash function
    Supported    \* the hash functions the global registry `hashes` knows

VARIABLES
    out,         \* the units written
    dest,        \* _dest_h: the hash pipes over the output, outermost first
    stack,       \* _parent_stack; its front, _curr_parent, is the last element
    armor,       \* _default_armor
    functions,   \* _hash_functions; HT_NONE stands for an absent entry
    state        \* "open", "closed" (no _dest), "thrown" or "undefined"

vars == <<out, dest, stack, armor, functions, state>>

Init ==
    /\ out = <<>> /\ dest = <<>> /\ stack = <<>>
    /\ armor = FALSE
    /\ functions = [k \in Keys |-> HT_NONE]
    /\ state = "open"

-----------------------------------------------------------------------------
(* Everything written through a pipe is hashed by it and those below it.   *)
Fed(pipes, n) == [i \in DOMAIN pipes |-> [pipes[i] EXCEPT !.fed = @ \cup {n}]]

Pipe(id) == [id |-> id, fed |-> {}]

(* setup_container: a container without an announced size is armored.      *)
Armored(n) == armor \/ n < 0

ParentInfo(k, n) ==
    [id |-> Len(out) + 1, key |-> k, count |-> n,
     armored |-> Armored(n), hash |-> functions[k]]

Header(f) ==
    [kind |-> "container", size |-> f.count, armored |-> f.armored, hash |-> f.hash]

Throw == state' = "thrown"

(* require_open: every call on a closed writer throws AlreadyClosed and    *)
(* changes nothing.                                                        *)
Open == state = "open"

-----------------------------------------------------------------------------
(* The header is written below the new pipe.                               *)
DestHashingHeader(f) == Fed(Append(dest, Pipe(f.id)), f.id)
DestWithin(f) == Append(Fed(dest, f.id), Pipe(f.id))

StartContainer(k, n) ==
    /\ Open
    /\ LET f == ParentInfo(k, n) IN
       /\ f.hash \in Supported \cup {HT_NONE}
       /\ out' = Append(out, Header(f))
       /\ dest' = IF f.hash = HT_NONE THEN Fed(dest, f.id) ELSE DestWithin(f)
       /\ stack' = Append(stack, f)
    /\ UNCHANGED <<armor, functions, state>>

(* The function is looked up after the header has been written.            *)
StartUnsupported(k, n) ==
    /\ Open
    /\ LET f == ParentInfo(k, n) IN
       /\ f.hash \notin Supported \cup {HT_NONE}
       /\ out' = Append(out, Header(f))
       /\ dest' = Fed(dest, f.id)
    /\ Throw
    /\ UNCHANGED <<stack, armor, functions>>

PushNode ==
    /\ Open
    /\ out' = Append(out, [kind |-> "leaf"])
    /\ dest' = Fed(dest, Len(out) + 1)
    /\ UNCHANGED <<stack, armor, functions, state>>

(* write_container_footer: the marker goes through the pipe of the         *)
(* container, its digest to the pipe below.                                *)
MarkedByDefault(f) == armor
Marked(f) == f.armored

OutMarked(f) == IF Marked(f) THEN Append(out, [kind |-> "eoc"]) ELSE out
DestMarked(f) == IF Marked(f) THEN Fed(dest, Len(out) + 1) ELSE dest

(* The units hashed for the digest of the innermost pipe.                  *)
DigestUnmarked(f) == Last(dest).fed
Digest(f) == Last(DestMarked(f)).fed

Hashed(f) == f.hash # HT_NONE

DestAfter(f) ==
    IF Hashed(f) THEN Fed(Front(DestMarked(f)), Len(OutMarked(f)) + 1)
    ELSE DestMarked(f)

EndContainer ==
    /\ Open /\ stack # <<>>
    /\ LET f == Last(stack) IN
       /\ out' = IF Hashed(f)
                 THEN Append(OutMarked(f), [kind |-> "digest", of |-> Digest(f)])
                 ELSE OutMarked(f)
       /\ dest' = DestAfter(f)
    /\ stack' = Front(stack)
    /\ UNCHANGED <<armor, functions, state>>

(* The marker is written but the digest, for which the pipe has already    *)
(* been removed, is not.                                                   *)
EndWithoutDigest ==
    /\ Open /\ stack # <<>>
    /\ LET f == Last(stack) IN
       /\ Hashed(f)
       /\ out' = OutMarked(f)
       /\ dest' = Front(DestMarked(f))
    /\ stack' = Front(stack)
    /\ Throw
    /\ UNCHANGED <<armor, functions>>

(* Nothing of the event is written.  end_container has removed the         *)
(* container from the stack by then.                                       *)
WriteFails ==
    /\ Open
    /\ \/ UNCHANGED stack
       \/ stack # <<>> /\ Marked(Last(stack)) /\ stack' = Front(stack)
    /\ Throw
    /\ UNCHANGED <<out, dest, armor, functions>>

(* end_of_stream closes the writer: the marker of the root is written.     *)
Close ==
    /\ Open
    /\ out' = Append(out, [kind |-> "eoc"])
    /\ dest' = <<>>
    /\ state' = "closed"
    /\ UNCHANGED <<stack, armor, functions>>

SetArmorDefault(b) ==
    /\ state # "undefined"
    /\ armor' = b
    /\ UNCHANGED <<out, dest, stack, functions, state>>

(* Setting HT_NONE erases the entry without looking whether there is one.  *)
SetHashFunction(k, h) ==
    /\ state # "undefined"
    /\ functions' = [functions EXCEPT ![k] = h]
    /\ state' = IF h = HT_NONE /\ functions[k] = HT_NONE THEN "undefined" ELSE state
    /\ UNCHANGED <<out, dest, stack, armor>>

-----------------------------------------------------------------------------
(* The pipes of the writer are those of the hashed containers that are     *)
(* open, the innermost last, also when armor and hash functions are set    *)
(* within a container.                                                     *)
DestMatchesStack ==
    state = "open" =>
        /\ {p.id : p \in Range(dest)} = {f.id : f \in {g \in Range(stack) : Hashed(g)}}
        /\ \A i, j \in DOMAIN dest : i < j => dest[i].id < dest[j].id

(* The digest of an open container covers all the units since its header.  *)
DigestCoversBody ==
    state = "open" =>
        \A i \in DOMAIN dest : dest[i].fed = (dest[i].id + 1)..Len(out)
=============================================================================
