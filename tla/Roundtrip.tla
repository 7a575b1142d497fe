------------------------------ MODULE Roundtrip ------------------------------
(***************************************************************************)
(* A source writes a stream with ToBitstream; what has been written is     *)
(* read back with FromBitstream.                                           *)
(*                                                                         *)
(* The source keeps StreamProtocol exactly.  It may stop at any event, a   *)
(* write may fail, a hash function may be unsupported; the output is read  *)
(* back all the same, as far as it goes.  The reader may know fewer hash   *)
(* functions than the writer, and is then set to forgive that.             *)
(***************************************************************************)
EXTENDS Integers, Sequences, SequencesExt

CONSTANTS
    Keys, HashTypes, HT_NONE,
    WriterSupported,   \* the hash functions of the process that writes
    ReaderSupported,   \* and of the one that reads
    Counts,            \* the child counts the source announces, -1 for none
    MaxUnits,          \* bound: the units of the output
    MaxContainers      \* bound: the containers in it

ASSUME RoundtripAssumption ==
    /\ HT_NONE \notin HashTypes
    /\ WriterSupported \subseteq HashTypes /\ ReaderSupported \subseteq HashTypes
    /\ Counts \subseteq {-1} \cup 0..MaxUnits

VARIABLES
    srcOpen, srcPhase,                                     \* the source
    out, dest, stack, armor, functions, state,             \* the writer
    parents, source, held, forgiving, pc, api, wait, ret, pos,
    open, phase, footer, forgiven, local,                  \* the reader
    reading,     \* whether the output is being read back
    sent, got    \* the events sent to the writer, and got from the reader

source_vars == <<srcOpen, srcPhase>>
writer_vars == <<out, dest, stack, armor, functions, state>>
reader_vars == <<parents, source, held, forgiving, pc, api, wait, ret, pos,
                 open, phase, footer, forgiven, local>>
vars == <<source_vars, writer_vars, reader_vars, reading, sent, got>>

S == INSTANCE StreamProtocol WITH
        Containers <- 1..MaxUnits, Exact <- TRUE, open <- srcOpen, phase <- srcPhase

W == INSTANCE ToBitstream WITH Supported <- WriterSupported

R == INSTANCE FromBitstream WITH
        Sizes <- {n \in Counts : n >= 0}, Int32Half <- MaxUnits + 1,
        Supported <- ReaderSupported, Masks <- {{"UnknownHashFunction"}},
        Resume <- FALSE, MaxPos <- MaxUnits

ASSUME ReaderAssumption == MaxUnits \in Nat /\ R!NotHashed \notin HashTypes

Init ==
    /\ S!Init /\ W!Init /\ R!Init
    /\ reading = FALSE
    /\ sent = <<>> /\ got = <<>>

-----------------------------------------------------------------------------
(* The events, as the source sends them and as the reader delivers them.   *)
Start(n) == [event |-> "start_container", count |-> n]
Node == [event |-> "push_node"]
End == [event |-> "end_container"]
Eos == [event |-> "end_of_stream"]

Send(event) == sent' = Append(sent, event) /\ UNCHANGED <<got, reading, reader_vars>>

(* The event has been answered and the source goes on.                     *)
Live == srcPhase' = "live"

(* An event is sent only if its units fit below the bounds.                *)
Fits(n) == Len(out) + n <= MaxUnits
ContainerFits ==
    Fits(1) /\ Len(SelectSeq(sent, LAMBDA e : e.event = "start_container")) < MaxContainers

SendStart ==
    \E k \in Keys, n \in Counts :
        /\ ContainerFits
        /\ S!StartContainer(Len(out) + 1, n) /\ Live
        /\ W!StartContainer(k, n)
        /\ Send(Start(n))

SendStartUnsupported ==
    \E k \in Keys, n \in Counts :
        /\ ContainerFits
        /\ S!StartContainer(Len(out) + 1, n) /\ srcPhase' = "cut"
        /\ W!StartUnsupported(k, n)
        /\ Send(Start(n))

SendNode ==
    /\ Fits(1)
    /\ S!PushNode /\ Live
    /\ W!PushNode
    /\ Send(Node)

SendEnd ==
    /\ Fits(2)
    /\ S!EndContainer /\ Live
    /\ W!EndContainer
    /\ Send(End)

SendEndWithoutDigest ==
    /\ Fits(1)
    /\ S!EndContainer /\ srcPhase' = "cut"
    /\ W!EndWithoutDigest
    /\ Send(End)

SendEos ==
    /\ Fits(1)
    /\ S!EndOfStream
    /\ W!Close
    /\ Send(Eos)

SendFails ==
    /\ S!Cut
    /\ W!WriteFails
    /\ UNCHANGED <<sent, got, reading, reader_vars>>

Settings ==
    /\ srcPhase = "live" /\ ~reading
    /\ \/ \E b \in BOOLEAN : W!SetArmorDefault(b)
       \/ \E k \in Keys, h \in HashTypes \cup {HT_NONE} :
             W!SetHashFunction(k, h)
    /\ UNCHANGED <<source_vars, reader_vars, reading, sent, got>>

Write ==
    /\ ~reading
    /\ \/ SendStart \/ SendStartUnsupported \/ SendNode
       \/ SendEnd \/ SendEndWithoutDigest \/ SendEos \/ SendFails

-----------------------------------------------------------------------------
(* Reading back.                                                           *)

(* The token the reader finds next.  A digest where a record is due is not *)
(* a record.                                                               *)
Token ==
    LET u == out[pos + 1] IN
    CASE u.kind = "container" ->
            [kind |-> "container", size |-> u.size, armored |-> u.armored,
             hash |-> IF u.hash = HT_NONE THEN R!NotHashed ELSE u.hash,
             extra |-> FALSE]
      [] u.kind = "digest" -> [kind |-> "broken"]
      [] OTHER -> u

(* The footer it finds there: a digest matches if it was computed over the *)
(* units that the pipe of the container has been fed.                      *)
Matches(u) ==
    /\ u.of = (R!CurrParent.id + 1)..pos
    /\ R!CurrParent.fed = pos - R!CurrParent.id

Footer ==
    LET u == out[pos + 1] IN
    IF ~R!IsHashed(R!CurrParent) THEN "none"
    ELSE IF u.kind # "digest" THEN "bad"
    ELSE IF R!CurrParent.pipe = <<>> THEN "skipped"
    ELSE IF Matches(u) THEN "match" ELSE "mismatch"

AtEnd == pos = Len(out)

Got(event) == got' = Append(got, event)
GotNone == UNCHANGED got

ReadToken ==
    /\ ~AtEnd
    /\ \/ R!RejectToken(Token) /\ GotNone
       \/ R!ReadEoc(Token) /\ GotNone
       \/ R!PushNode(Token, TRUE) /\ Got(Node)
       \/ R!StartContainer(Token, TRUE) /\ Got(Start(R!ChildCount(Token)))

ReadFooter ==
    /\ pc = "end" /\ Len(parents) > 1
    /\ R!IsHashed(R!CurrParent) => ~AtEnd
    /\ \/ R!RejectFooter(Footer) /\ GotNone
       \/ R!EndContainer(Footer, TRUE) /\ Got(End)

ReadOther ==
    \/ AtEnd /\ R!ReadEof /\ GotNone
    \/ AtEnd /\ R!FooterEof /\ GotNone
    \/ R!EndOfStream(TRUE) /\ Got(Eos)
    \/ (R!CheckFull \/ R!CheckDone \/ R!Return) /\ GotNone

Begin ==
    /\ ~reading /\ reading' = TRUE
    /\ srcPhase # "live" /\ state # "undefined"
    /\ forgiving' = {"UnknownHashFunction"} /\ forgiven' = forgiving'
    /\ api' = "read_all" /\ pc' = "step"
    /\ UNCHANGED <<source_vars, writer_vars, parents, source, held, wait, ret, pos,
                   open, phase, footer, local, sent, got>>

ReadBack ==
    /\ reading
    /\ ReadToken \/ ReadFooter \/ ReadOther
    /\ UNCHANGED <<source_vars, writer_vars, reading, sent>>

Next == Write \/ Settings \/ Begin \/ ReadBack

Spec == Init /\ [][Next]_vars

-----------------------------------------------------------------------------
(* The events sent, with the end of every container that is still open.    *)
Completed == sent \o [i \in DOMAIN srcOpen |-> End]

(* Whatever stops the source or the writer, reading back delivers the      *)
(* events that were sent, in their order, with the announced counts, and   *)
(* no other event (an unarmored container ends with its last child, before *)
(* its end_container is sent).                                             *)
ReadsWhatWasSent == IsPrefix(got, Completed)

(* A stream that was written to its end is read back to its end, also by a *)
(* reader that does not know all the hash functions ("The length of the    *)
(* hash is prepended so that even implementations which do not support the *)
(* used hash can read beyond the container", format.rst) ...               *)
CompleteIsReadBack ==
    srcPhase = "ended" =>
        /\ phase # "cut"
        /\ phase = "ended" => got = sent

(* ... and one that was not is never taken for complete.                   *)
InterruptedIsNoticed == phase = "ended" => srcPhase = "ended"

(* The pipes of the writer are those of the hashed containers that are     *)
(* open, also when armor and hash functions are set within a container,    *)
(* and each digest covers all the units since the header.                  *)
WriterPipes == W!DestMatchesStack /\ W!DigestCoversBody
=============================================================================
