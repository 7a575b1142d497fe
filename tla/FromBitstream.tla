---------------------------- MODULE FromBitstream ----------------------------
(***************************************************************************)
(* The bitstream reader (class FromBitstream): a stack of open containers, *)
(* a chain of hash pipes over the input, and the API calls read_all,       *)
(* read_next, set_forgiving_for and close.                                 *)
(*                                                                         *)
(* The input is read lazily: a step takes the token the bytes at the       *)
(* current position decode to, so the behaviours cover every input of at   *)
(* most MaxPos units (a unit is a record, a container header, an           *)
(* end-of-children marker or a hash footer).  The sink answers every event *)
(* with a reply: FALSE stands for a refusal (SinkClosed) and for an        *)
(* exception of the sink, which leave the reader in the same state.        *)
(*                                                                         *)
(* read_step, check_end_of_container and end_of_container call each other  *)
(* in tail position only; pc says which of them runs next.                 *)
(***************************************************************************)
EXTENDS Integers, Sequences, SequencesExt

CONSTANTS
    Sizes,       \* the varuints that follow CF_WITH_SIZE
    Int32Half,   \* 2^31 in the code: child_count is an int32_t
    HashTypes,   \* the hash functions a header can name
    HT_NONE,     \* the hash type of a container that is not checked
    Supported,   \* the hash functions the global registry `hashes` knows
    Masks,       \* the sets of Forgiveness flags callers switch on or off
    Resume,      \* whether callers go on after read_next has thrown
    MaxPos       \* bound: the length of the input

NoSize == -1            \* CF_WITH_SIZE is not set
NotHashed == "unhashed" \* CF_HASHED is not set

ASSUME ConstantsAssumption ==
    /\ Sizes \subseteq Nat
    /\ Int32Half \in Nat \ {0}
    /\ MaxPos \in Nat
    /\ Resume \in BOOLEAN
    /\ NotHashed \notin HashTypes
    /\ Supported \subseteq HashTypes \ {HT_NONE}

VARIABLES
    parents,     \* _parent_stack; its front, _curr_parent, is the last element
    source,      \* _source_h: the hash pipes between it and the input
    held,        \* which of _source_h and _sink_h are set
    forgiving,   \* _forgiveness
    pc,          \* the function of the reader that runs next
    api,         \* the API call in progress
    wait,        \* this_len of read_next, 0 before its first read_step is done
    ret,         \* what the running read_step will return
    pos          \* units of the input consumed

readerVars == <<parents, source, held, forgiving, pc, api, wait, ret, pos>>

(* History: what the sink has been told, what the calls asked for.         *)
VARIABLES
    open,        \* the containers the sink has open, innermost last
    phase,       \* "live", "ended" or "cut" (no event is due any more)
    footer,      \* the last ContainerFooter the sink got
    forgiven,    \* every flag that has been set so far
    local        \* of the running read_next: depth at the call, nodes read there

historyVars == <<open, phase, footer, forgiven, local>>
vars == <<readerVars, historyVars>>

Flags == {"ChecksumErrors", "UnknownAppblobs", "PrematureEndOfContainer",
          "UnknownContainerFlags", "UnknownHashFunction"}

ASSUME MasksAssumption == Masks \subseteq SUBSET Flags

-----------------------------------------------------------------------------
(* Frames and hash pipes.                                                  *)

(* The conversion of a varuint to int32_t.                                 *)
ToInt32(n) == ((n + Int32Half) % (2 * Int32Half)) - Int32Half

ChildCount(f) == IF f.size = NoSize THEN -1 ELSE ToInt32(f.size)

(* A frame is a ParentInfo.  A pipe is the sequence of the pipes down to   *)
(* the input, each named by the id of its frame; <<>> is no pipe.  `fed'   *)
(* counts the units hashed by the frame's own pipe.                        *)
RootFrame ==
    [id |-> 0, size |-> NoSize, armored |-> TRUE, hash |-> NotHashed,
     pipe |-> <<>>, fed |-> 0, read |-> 0]

(* A read through `src' feeds every pipe of the chain (HashPipe::read).    *)
Fed(stack, src) ==
    [i \in DOMAIN stack |->
        IF \E k \in DOMAIN src : src[k] = stack[i].id
        THEN [stack[i] EXCEPT !.fed = @ + 1] ELSE stack[i]]

(* _curr_parent->read_child_count++                                        *)
NotCounted(stack) == stack
Counted(stack) == [stack EXCEPT ![Len(stack)].read = @ + 1]

CurrParent == Last(parents)

-----------------------------------------------------------------------------
(* The tokens of the input.                                                *)

Headers == [kind: {"container"}, size: Sizes \cup {NoSize}, armored: BOOLEAN,
            hash: HashTypes \cup {NotHashed}, extra: BOOLEAN]

(* "broken" is a record with an invalid id or a truncated or illegal body. *)
Tokens == Headers \cup [kind: {"reserved", "eoc", "broken", "unknown",
                               "appblob", "leaf"}]

IsHashed(h) == h.hash \notin {NotHashed, HT_NONE}

(* proc_container_flags and end_of_container_header: the conditions under  *)
(* which a container header does not raise an exception.                   *)
HeaderAcceptedAnyHash(h) ==
    /\ h.armored \/ ChildCount(h) # -1
    /\ h.extra => "UnknownContainerFlags" \in forgiving
HeaderAccepted(h) ==
    /\ h.armored \/ ChildCount(h) # -1
    /\ h.extra => "UnknownContainerFlags" \in forgiving
    /\ IsHashed(h) /\ h.hash \notin Supported
         => "UnknownHashFunction" \in forgiving

(* An END_OF_CHILDREN marker is legal in an armored container with all its *)
(* announced children.                                                     *)
EocAcceptedUncounted(f) == f.armored
EocAccepted(f) ==
    /\ f.armored
    /\ \/ ChildCount(f) \in {-1, f.read}
       \/ "PrematureEndOfContainer" \in forgiving

(* An armored container with all its announced children must end here.     *)
NoOverfull(f) == FALSE
Overfull(f) ==
    f.armored /\ ChildCount(f) # -1 /\ ChildCount(f) <= f.read

(* An unarmored container ends with its last announced child.              *)
Full(f) == ~f.armored /\ ChildCount(f) = f.read

(* read_step throws UnsupportedRecordType, UnexpectedEndOfChildren,        *)
(* MissingEndOfChildren, InvalidIDError or what the header raises.         *)
Rejected(t) ==
    \/ t.kind = "reserved"
    \/ t.kind = "eoc" /\ ~EocAccepted(CurrParent)
    \/ t.kind # "eoc" /\ Overfull(CurrParent)
    \/ t.kind \in {"broken", "unknown"}
    \/ t.kind = "appblob" /\ "UnknownAppblobs" \notin forgiving
    \/ t.kind = "container" /\ ~HeaderAccepted(t)

-----------------------------------------------------------------------------
NoFooter == [hash |-> NotHashed, validated |-> FALSE]
NoLocal == [base |-> 0, taken |-> 0]

Init ==
    /\ parents = <<RootFrame>>
    /\ source = <<>>
    /\ held = {"source", "sink"}
    /\ forgiving = {}
    /\ pc = "idle" /\ api = "none" /\ wait = 0 /\ ret = "null"
    /\ pos = 0
    /\ open = <<>> /\ phase = "live"
    /\ footer = NoFooter /\ forgiven = {} /\ local = NoLocal

(* The state cleanup_state leaves.                                         *)
CleanupKeepingPipes ==
    /\ parents' = <<>>
    /\ UNCHANGED source
CleanupKeepingParents ==
    /\ source' = <<>>
    /\ UNCHANGED parents
Cleanup ==
    /\ parents' = <<>>
    /\ source' = <<>>

CallOver ==
    /\ pc' = "idle" /\ api' = "none" /\ wait' = 0 /\ ret' = "null"
    /\ local' = NoLocal

(* An exception leaves the API call: read_all cleans up (and swallows      *)
(* SinkClosed), read_next leaves the stack and the source as they are.     *)
Abort(stack, src) ==
    /\ CallOver
    /\ IF api = "read_all"
       THEN Cleanup /\ held' = held \ {"sink"}
       ELSE parents' = stack /\ source' = src /\ UNCHANGED held
    /\ phase' = IF phase = "live" THEN "cut" ELSE phase
    /\ UNCHANGED <<forgiving, forgiven>>

(* read_step goes on to check_end_of_container and will return r.          *)
ThenCheck(r) ==
    /\ pc' = "check" /\ ret' = r
    /\ UNCHANGED <<held, forgiving, api, wait, phase, forgiven>>

(* The running read_next takes one more node at the depth of the call.     *)
Taken ==
    IF api = "read_next" /\ Len(parents) <= local.base
    THEN [local EXCEPT !.taken = @ + 1] ELSE local

SinkOpen(f) == [id |-> f.id, count |-> ChildCount(f), children |-> 0]
SinkCounted(s) ==
    IF s = <<>> THEN s ELSE [s EXCEPT ![Len(s)].children = @ + 1]

-----------------------------------------------------------------------------
(* The API calls.                                                          *)

CanCall ==
    /\ api = "none"
    /\ phase # "cut" \/ parents = <<>> \/ Resume

ReadAll ==
    /\ CanCall
    /\ api' = "read_all" /\ pc' = "step"
    /\ UNCHANGED <<parents, source, held, forgiving, wait, ret, pos, historyVars>>

ReadNext ==
    /\ CanCall
    /\ api' = "read_next" /\ pc' = "step"
    /\ local' = [base |-> Len(parents), taken |-> 0]
    /\ UNCHANGED <<parents, source, held, forgiving, wait, ret, pos,
                   open, phase, footer, forgiven>>

SetForgivingFor(flags, on) ==
    /\ api = "none"
    /\ forgiving' = IF on THEN forgiving \cup flags ELSE forgiving \ flags
    /\ forgiven' = forgiven \cup forgiving'
    /\ UNCHANGED <<parents, source, held, pc, api, wait, ret, pos,
                   open, phase, footer, local>>

(* A closed reader has no source, but close does not reset                 *)
(* _original_source_h: when close is called again the loop of              *)
(* cleanup_state finds the two different and dereferences a null pointer.  *)
Close ==
    /\ api = "none"
    /\ IF "source" \in held
       THEN /\ Cleanup
            /\ held' = held \ {"sink", "source"}
            /\ phase' = IF phase = "live" THEN "cut" ELSE phase
            /\ UNCHANGED api
       ELSE /\ api' = "crashed"
            /\ UNCHANGED <<parents, source, held, phase>>
    /\ UNCHANGED <<forgiving, pc, wait, ret, pos, open, footer, forgiven, local>>

Crashed == api = "crashed" /\ UNCHANGED vars

-----------------------------------------------------------------------------
(* read_step.                                                              *)

Stepping == pc = "step" /\ parents # <<>>

(* Nothing is read after the end of the stream.                            *)
StepAtEnd ==
    /\ pc = "step" /\ parents = <<>>
    /\ pc' = "return" /\ ret' = "null"
    /\ UNCHANGED <<parents, source, held, forgiving, api, wait, pos, historyVars>>

(* The input ends before or within the record: EndOfStreamError.           *)
ReadEof ==
    /\ Stepping
    /\ Abort(parents, source)
    /\ UNCHANGED <<pos, open, footer>>

Reading == Stepping /\ pos < MaxPos /\ pos' = pos + 1

RejectToken(t) ==
    /\ Reading
    /\ Rejected(t)
    /\ Abort(Fed(parents, source), source)
    /\ UNCHANGED <<open, footer>>

(* end_of_container takes over and read_step returns no node.              *)
ReadEoc(t) ==
    /\ Reading
    /\ t.kind = "eoc" /\ ~Rejected(t)
    /\ parents' = Fed(parents, source)
    /\ pc' = "end" /\ ret' = "null"
    /\ UNCHANGED <<source, held, forgiving, api, wait, historyVars>>

(* A forgiven appblob is skipped and counted, then read_step starts again. *)
SkipAppblob(t) ==
    /\ Reading
    /\ t.kind = "appblob" /\ ~Rejected(t)
    /\ parents' = Counted(Fed(parents, source))
    /\ ThenCheck("again")
    /\ UNCHANGED <<source, open, footer, local>>

PushNode(t, reply) ==
    /\ Reading
    /\ t.kind = "leaf" /\ ~Rejected(t)
    /\ open' = SinkCounted(open)
    /\ IF reply
       THEN /\ parents' = Counted(Fed(parents, source))
            /\ local' = Taken
            /\ ThenCheck("leaf")
            /\ UNCHANGED source
       ELSE Abort(Fed(parents, source), source)
    /\ UNCHANGED footer

(* The header is read below the new pipe, the children through it.         *)
NewFrame(t, below, fed, read) ==
    LET id == pos + 1 IN
    [id |-> id, size |-> t.size, armored |-> t.armored, hash |-> t.hash,
     pipe |-> IF t.hash \in Supported THEN Append(below, id) ELSE <<>>,
     fed |-> fed, read |-> read]

FrameOverInput(t) == NewFrame(t, <<>>, 0, 0)
FrameHashingHeader(t) == NewFrame(t, source, 1, 0)
FrameBelowZero(t) == NewFrame(t, source, 0, -1)
Frame(t) == NewFrame(t, source, 0, 0)

StartContainer(t, reply) ==
    /\ Reading
    /\ t.kind = "container" /\ ~Rejected(t)
    /\ LET f == Frame(t)
           stack == Append(Fed(parents, source), f)
           src == IF f.pipe # <<>> THEN f.pipe ELSE source
       IN  /\ open' = Append(open, SinkOpen(f))
           /\ IF reply
              THEN /\ parents' = stack /\ source' = src
                   /\ local' = Taken
                   /\ ThenCheck("container")
              ELSE Abort(stack, src)
    /\ UNCHANGED footer

-----------------------------------------------------------------------------
(* check_end_of_container and end_of_container.                            *)

ParentFull == parents # <<>> /\ Full(CurrParent)

CheckFull ==
    /\ pc = "check"
    /\ ParentFull
    /\ pc' = "end"
    /\ UNCHANGED <<parents, source, held, forgiving, api, wait, ret, pos, historyVars>>

CheckDone ==
    /\ pc = "check"
    /\ ~ParentFull
    /\ IF ret = "again" THEN pc' = "step" /\ ret' = "null"
                        ELSE pc' = "return" /\ UNCHANGED ret
    /\ UNCHANGED <<parents, source, held, forgiving, api, wait, pos, historyVars>>

(* What can follow the body of a container: no hash at all, a hash that is *)
(* compared, one that is skipped because its function is unknown, or one   *)
(* with an illegal length or cut off.                                      *)
Footers(f) ==
    IF ~IsHashed(f) THEN {"none"}
    ELSE IF f.pipe # <<>> THEN {"match", "mismatch", "bad"}
    ELSE {"skipped", "bad"}

FooterForgiven(foot) == foot # "bad"
FooterAccepted(foot) ==
    /\ foot # "bad"
    /\ foot = "mismatch" => "ChecksumErrors" \in forgiving

(* The pipe of the container is removed before its footer is read.         *)
SourceStillPiped(f) == source
SourceBelow(f) == IF f.pipe # <<>> THEN Front(f.pipe) ELSE source

(* The stack without the container, its footer read by the pipes below.    *)
StackBelow(f) ==
    IF IsHashed(f) THEN Fed(Front(parents), SourceBelow(f)) ELSE Front(parents)

Ending == pc = "end" /\ Len(parents) > 1

RejectFooter(foot) ==
    /\ Ending
    /\ foot \in Footers(CurrParent) /\ ~FooterAccepted(foot)
    /\ pos < MaxPos /\ pos' = pos + 1
    /\ Abort(StackBelow(CurrParent), SourceBelow(CurrParent))
    /\ UNCHANGED <<open, footer>>

(* The input ends before the footer does.                                  *)
FooterEof ==
    /\ Ending
    /\ IsHashed(CurrParent)
    /\ Abort(Front(parents), SourceBelow(CurrParent))
    /\ UNCHANGED <<pos, open, footer>>

EndContainer(foot, reply) ==
    /\ Ending
    /\ foot \in Footers(CurrParent) /\ FooterAccepted(foot)
    /\ IF foot = "none" THEN UNCHANGED pos ELSE pos < MaxPos /\ pos' = pos + 1
    /\ open' = SinkCounted(Front(open))
    /\ footer' = [hash |-> CurrParent.hash, validated |-> foot = "match"]
    /\ IF reply
       THEN /\ parents' = Counted(StackBelow(CurrParent))
            /\ source' = SourceBelow(CurrParent)
            /\ ThenCheck(ret)
            /\ UNCHANGED local
       ELSE Abort(StackBelow(CurrParent), SourceBelow(CurrParent))

(* The root has no footer; its end is the end of the stream.               *)
EndOfStream(reply) ==
    /\ pc = "end" /\ Len(parents) = 1
    /\ parents' = <<>>
    /\ phase' = IF phase = "live" THEN "ended" ELSE phase
    /\ IF reply
       THEN /\ pc' = "check"
            /\ UNCHANGED <<source, held, api, wait, ret, local>>
       ELSE /\ CallOver
            /\ IF api = "read_all"
               THEN source' = <<>> /\ held' = held \ {"sink"}
               ELSE UNCHANGED <<source, held>>
    /\ UNCHANGED <<forgiving, pos, open, footer, forgiven>>

-----------------------------------------------------------------------------
(* The loops of read_all and read_next around read_step.                   *)

LoopUntilThrown ==
    api # "read_all" /\ IF wait = 0 THEN ret # "container" ELSE Len(parents) < wait
LoopOverAfterDepth ==
    IF api = "read_all" THEN parents = <<>>
    ELSE IF wait = 0 THEN ret # "container" ELSE Len(parents) < wait - 1
LoopOver ==
    IF api = "read_all" THEN parents = <<>>
    ELSE IF wait = 0 THEN ret # "container" ELSE Len(parents) < wait

(* read_next notes the depth once its first read_step has returned.        *)
Return ==
    /\ pc = "return"
    /\ IF LoopOver
       THEN CallOver
       ELSE /\ pc' = "step" /\ ret' = "null"
            /\ wait' = IF api = "read_next" /\ wait = 0 THEN Len(parents) ELSE wait
            /\ UNCHANGED <<api, local>>
    /\ UNCHANGED <<parents, source, held, forgiving, pos,
                   open, phase, footer, forgiven>>

-----------------------------------------------------------------------------
Read ==
    \/ StepAtEnd \/ ReadEof
    \/ \E t \in Tokens :
          \/ RejectToken(t) \/ ReadEoc(t) \/ SkipAppblob(t)
          \/ \E reply \in BOOLEAN : PushNode(t, reply) \/ StartContainer(t, reply)
    \/ CheckFull \/ CheckDone
    \/ FooterEof
    \/ \E foot \in {"none", "match", "mismatch", "skipped", "bad"} :
          \/ RejectFooter(foot)
          \/ \E reply \in BOOLEAN : EndContainer(foot, reply)
    \/ \E reply \in BOOLEAN : EndOfStream(reply)
    \/ Return

Call ==
    \/ ReadAll \/ ReadNext \/ Close \/ Crashed
    \/ \E flags \in Masks, on \in BOOLEAN : SetForgivingFor(flags, on)

Next == Read \/ Call

Spec == Init /\ [][Next]_vars

(* A call runs to its end on the thread of its caller.                     *)
FairSpec == Spec /\ WF_vars(Read)

-----------------------------------------------------------------------------
(* Type correctness.                                                       *)

FrameType ==
    [id: Nat, size: Nat \cup {NoSize}, armored: BOOLEAN,
     hash: HashTypes \cup {NotHashed}, pipe: Seq(Nat), fed: Nat, read: Nat]

OpenType == [id: Nat, count: Int, children: Nat]

(* Every variable of the reader holds a value of its type.                 *)
TypeOK ==
    /\ parents \in Seq(FrameType)
    /\ source \in Seq(Nat)
    /\ held \subseteq {"source", "sink"}
    /\ forgiving \subseteq Flags /\ forgiven \subseteq Flags
    /\ pc \in {"idle", "step", "check", "end", "return"}
    /\ api \in {"none", "read_all", "read_next", "crashed"}
    /\ wait \in Nat /\ pos \in Nat
    /\ ret \in {"null", "leaf", "container", "again"}
    /\ open \in Seq(OpenType)
    /\ phase \in {"live", "ended", "cut"}
    /\ footer \in [hash: HashTypes \cup {NotHashed}, validated: BOOLEAN]
    /\ local \in [base: Nat, taken: Nat]

-----------------------------------------------------------------------------
(* Safety.                                                                 *)

HasPipe(f) == f.pipe # <<>>

(* h is the innermost pipe of the first n frames, or the input itself.     *)
InnermostPipe(stack, h, n) ==
    /\ (\A i \in 1..n : ~HasPipe(stack[i])) => h = <<>>
    /\ \A i \in 1..n :
          HasPipe(stack[i]) /\ (\A j \in (i+1)..n : ~HasPipe(stack[j]))
             => h = stack[i].pipe

Chained(stack, h) ==
    /\ InnermostPipe(stack, h, Len(stack))
    /\ \A i \in 1..Len(stack) : HasPipe(stack[i]) =>
          /\ Last(stack[i].pipe) = stack[i].id
          /\ InnermostPipe(stack, Front(stack[i].pipe), i - 1)

(* Whatever exception, refusal or call came before, the chain of hash      *)
(* pipes the reader reads through is the chain of the containers that are  *)
(* open and checked, each pipe on top of the next outer one: no pipe is    *)
(* lost, left behind by a container that ended, or entered twice.          *)
SourceMatchesStack == Chained(parents, source)

Covers(stack, p) ==
    \A i \in 1..Len(stack) :
        HasPipe(stack[i]) => stack[i].fed = p - stack[i].id

(* The digest of an open container covers all of its body read so far and  *)
(* nothing else: not its header, and with the bodies, headers and footers  *)
(* of the containers within.                                               *)
HashCoversBody == Covers(parents, pos)

(* read_step finds a sink and a source wherever it can find a parent, also *)
(* after close, after end_of_stream and after a failed read_all.           *)
NoNullAccess == parents # <<>> => {"source", "sink"} \subseteq held

(* What reads through h feeds the pipes of the first n frames.             *)
Reaches(stack, h, n) ==
    \A i \in 1..n : HasPipe(stack[i]) =>
        /\ Len(stack[i].pipe) \in DOMAIN h
        /\ h[Len(stack[i].pipe)] = stack[i].id

(* The inductive form of the three invariants above: a step that removes a *)
(* container needs to know that the pipe below its own still reaches all   *)
(* the outer containers, and the end of the stream that no pipe is left    *)
(* when only the root is.                                                  *)
ReaderInv ==
    /\ TypeOK
    /\ SourceMatchesStack
    /\ Reaches(parents, source, Len(parents))
    /\ \A i \in 1..Len(parents) :
          HasPipe(parents[i]) => Reaches(parents, Front(parents[i].pipe), i - 1)
    /\ parents # <<>> => ~HasPipe(parents[1])
    /\ HashCoversBody
    /\ NoNullAccess

(* No container is open with more children than it announced, and no       *)
(* record is looked for in an unarmored container that has them all.       *)
ChildCountsBounded ==
    phase = "live" =>
       /\ \A i \in DOMAIN parents :
             ChildCount(parents[i]) >= 0 => parents[i].read <= ChildCount(parents[i])
       /\ pc \in {"step", "idle"} => \A i \in DOMAIN parents : ~Full(parents[i])

(* Reader and sink agree on which containers are open and on the children  *)
(* delivered into each; only forgiven appblobs are counted by the reader   *)
(* and not seen by the sink.                                               *)
SinkInStep ==
    phase # "cut" =>
       /\ Len(open) = IF parents = <<>> THEN 0 ELSE Len(parents) - 1
       /\ \A i \in DOMAIN open :
             /\ open[i].id = parents[i + 1].id
             /\ open[i].children <= parents[i + 1].read
             /\ "UnknownAppblobs" \notin forgiven
                  => open[i].children = parents[i + 1].read

(* A container that carries a digest reaches the sink unvalidated only     *)
(* when a caller has asked for forgiveness of exactly that.                *)
UnvalidatedOnlyIfForgiven ==
    IsHashed(footer) /\ ~footer.validated =>
        forgiven \cap {"ChecksumErrors", "UnknownHashFunction"} # {}

(* read_next reads one node, with everything in it, and no sibling of it   *)
(* (streaming_bitstream.hpp: "Read one node. If the node is a container,   *)
(* also read all child nodes of this container").                          *)
ReadNextReadsOneNode == local.taken <= 1

(* It reads on into siblings only where the depth it keeps to is not that  *)
(* of a container it has opened: that container was empty and had been     *)
(* closed again when the depth was taken, or a forgiven appblob came first. *)
ReadNextKeepsToItsDepth ==
    local.taken > 1 => wait <= local.base \/ "UnknownAppblobs" \in forgiven

(* "A varuint follows which defines the amount of children which are held  *)
(* in the container" (format.rst): a container that ends had as many.      *)
SizeHonoured ==
    [][Len(open') < Len(open) =>
          CurrParent.size \in {NoSize, Last(open).children}]_vars

-----------------------------------------------------------------------------
(* What the sink observes is a stream of StreamProtocol, with the          *)
(* announced counts kept when nothing is forgiven.                         *)
Sink == INSTANCE StreamProtocol WITH
            Containers <- 1..MaxPos,
            Counts <- {-1} \cup {ToInt32(n) : n \in Sizes},
            Exact <- Masks = {}

KeepsProtocol == Sink!Spec

(* Every call returns: each read_step consumes input or closes containers. *)
CallReturns == api \in {"read_all", "read_next"} ~> api = "none"
=============================================================================
