--------------------------- MODULE StreamProtocol ---------------------------
(***************************************************************************)
(* What every source of stream events (FromBitstream, FromTree) promises   *)
(* the StreamSinkIntf it feeds: the containers it starts and ends are      *)
(* properly nested, every node goes to the innermost open container,       *)
(* end_of_stream comes at most once and only when nothing is open, and     *)
(* nothing at all comes after it or after the stream has been cut (by an   *)
(* error of the source or a sink that refused an event), except that       *)
(* FromTree sends its end_of_stream even then.  An Exact source also keeps *)
(* the child_count it announced in ContainerMeta.                          *)
(***************************************************************************)
EXTENDS Integers, Sequences, SequencesExt

CONSTANTS
    Containers,  \* the identities of the containers
    Counts,      \* values of ContainerMeta::child_count, -1 when not announced
    Exact        \* whether announced counts are kept

VARIABLES
    open,        \* the containers the sink has open, the innermost one last
    phase        \* "live", "ended" (end_of_stream was sent) or "cut"

vars == <<open, phase>>

Opened(c, n) == [id |-> c, count |-> n, children |-> 0]

(* The innermost open container has received one more child.               *)
AddChild(s) ==
    IF s = <<>> THEN s ELSE [s EXCEPT ![Len(s)].children = @ + 1]

(* Only at the top level of the stream is there no container to count in.  *)
Kept(f) == Exact => f.count \in {-1, f.children}

Init == open = <<>> /\ phase = "live"

(* A child is only sent into a container that still misses one.            *)
Room ==
    Exact /\ open # <<>> =>
        Last(open).count = -1 \/ Last(open).children < Last(open).count

(* The sink may refuse any event it gets, which cuts the stream.           *)
StartContainer(c, n) ==
    /\ phase = "live"
    /\ Room
    /\ \A i \in DOMAIN open : open[i].id # c
    /\ open' = Append(open, Opened(c, n))
    /\ phase' \in {"live", "cut"}

PushNode ==
    /\ phase = "live"
    /\ Room
    /\ open' = AddChild(open)
    /\ phase' \in {"live", "cut"}

EndContainer ==
    /\ phase = "live"
    /\ open # <<>>
    /\ Kept(Last(open))
    /\ open' = AddChild(Front(open))
    /\ phase' \in {"live", "cut"}

EndOfStream ==
    /\ phase = "live"
    /\ open = <<>>
    /\ phase' = "ended"
    /\ UNCHANGED open

Cut ==
    /\ phase = "live"
    /\ phase' = "cut"
    /\ UNCHANGED open

Next ==
    \/ \E c \in Containers, n \in Counts : StartContainer(c, n)
    \/ PushNode
    \/ EndContainer
    \/ EndOfStream
    \/ Cut

Spec == Init /\ [][Next]_vars
=============================================================================
