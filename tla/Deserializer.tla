----------------------------- MODULE Deserializer -----------------------------
(***************************************************************************)
(* The deserializers: objects generated from a declaration, nested in each *)
(* other along the containers of the stream, behind a DeserializerSink.    *)
(*                                                                         *)
(* A declaration is a record of its template arguments.  Kind "value" is   *)
(* value_decl, member or member_direct; "struct" is struct_decl; "seq" is  *)
(* iterator, iterable or container; "array" is static_array; "wrap" is     *)
(* member_struct_wrap; "record" is member_record, which keeps a container  *)
(* as the nodes it is made of; "only" is only.  `ids' is an id_selector; a *)
(* node is its id and whether it is a container.  An object in memory is   *)
(* told by the declaration it was generated from; what is stored is told   *)
(* by how often it was stored.                                             *)
(***************************************************************************)
EXTENDS Integers, Sequences, SequencesExt

CONSTANTS
    Decls,       \* the names of the declarations
    Decl,        \* what they declare
    Roots,       \* those a caller deserializes with
    Nodes,       \* the nodes of the stream
    Null,        \* deserializer_null
    MaxEvents,   \* bound: the events of the stream
    MaxOpen      \* bound: the containers that are open at a time

Kinds == {"value", "struct", "seq", "array", "wrap", "record", "only"}

(* only has no selector_t and no record_t, so it can be no member; a value *)
(* is no container.                                                        *)
ASSUME DeclAssumption ==
    /\ Null \notin Decls
    /\ Roots \subseteq {d \in Decls : Decl[d].kind # "value"}
    /\ DOMAIN Decl = Decls
    /\ \A d \in Decls :
          /\ Decl[d].kind \in Kinds
          /\ Decl[d].kind \notin {"value", "record"} =>
                Decl[d].members \in Seq({m \in Decls : Decl[m].kind # "only"})
          /\ Decl[d].kind = "array" =>
                /\ Decl[d].count \in Nat
                /\ Decl[d].all \in BOOLEAN /\ Decl[d].strict \in BOOLEAN
    /\ \A node \in Nodes : node.cont \in BOOLEAN

VARIABLES
    levels,      \* the chain of deserializers, from the child of the sink on
    status,      \* what became of the sink
    events,      \* events so far
    open,        \* history: the open containers, below them the stream itself
    unmet        \* history: those that ended against their requirements

vars == <<levels, status, events, open, unmet>>

-----------------------------------------------------------------------------
(* Declarations.                                                           *)

Kind(d) == IF d = Null THEN "null" ELSE Decl[d].kind

(* The selector accepts the id and the record has the type (dynamic_cast). *)
Matches(d, node) ==
    node.id \in ToSet(Decl[d].ids) /\ node.cont = (Decl[d].kind # "value")

(* What the first matching member, item or object of d is, or Null.  All   *)
(* that comes in a record is of the record.                                *)
Matching(d, node) ==
    IF d = Null THEN {}
    ELSE {i \in DOMAIN Decl[d].members : Matches(Decl[d].members[i], node)}

Found(d, node) ==
    IF Kind(d) = "record" THEN d
    ELSE IF Matching(d, node) = {} THEN Null
    ELSE Decl[d].members[Min(Matching(d, node))]

-----------------------------------------------------------------------------
(* A deserializer; `depth' is 0 when nothing is nested in it.              *)
Level(d) == [decl |-> d, depth |-> 0, found |-> FALSE, thrown |-> FALSE, offs |-> 0]

Handler == Last(levels)

Init ==
    /\ \E d \in Roots :
          /\ levels = <<Level(d)>>
          /\ open = <<[decl |-> d, found |-> 0, foreign |-> FALSE]>>
    /\ status = "live"
    /\ events = 0
    /\ unmet = {}

Live == status = "live" /\ events' = events + 1

(* The reply FALSE asks the source to stop.                                *)
Reply(continue) == status' = IF continue THEN "live" ELSE "refused"

Throw(chain) == levels' = chain /\ status' = "thrown"

(* only and member_struct_wrap take note of the child they have found.     *)
NotingFound(chain) ==
    [chain EXCEPT ![Len(chain)].found = @ \/ Kind(Last(chain).decl) \in {"only", "wrap"}]

(* The truth about the stream.                                             *)
Noted(node) ==
    LET d == Last(open).decl IN
    [open EXCEPT ![Len(open)].found = IF Found(d, node) # Null THEN @ + 1 ELSE @,
                 ![Len(open)].foreign = @ \/ (node.cont /\ Found(d, node) = Null)]

-----------------------------------------------------------------------------
(* static_array stores the next item unless it is full.                    *)
OverflowsLate(l) == Kind(l.decl) = "array" /\ l.offs > Decl[l.decl].count
Overflows(l) == Kind(l.decl) = "array" /\ l.offs >= Decl[l.decl].count

(* _submit_item of the last deserializer of the chain.                     *)
Submitted(chain) ==
    IF Overflows(Last(chain)) THEN chain
    ELSE [chain EXCEPT ![Len(chain)].offs = @ + 1]

SubmitThrows(chain) == Overflows(Last(chain)) /\ Decl[Last(chain).decl].strict

Submit(chain) ==
    IF SubmitThrows(chain) THEN Throw(chain)
    ELSE levels' = Submitted(chain) /\ Reply(TRUE)

(* The deserializer refuses a child with an exception: a wrapper that has  *)
(* its child or does not recognise this one, an only that wants its object *)
(* to be first and has not said so yet.                                    *)
Refuses(l, node) ==
    \/ Kind(l.decl) = "wrap" /\ (l.found \/ Found(l.decl, node) = Null)
    \/ /\ Kind(l.decl) = "only" /\ Decl[l.decl].strict /\ ~l.thrown
       /\ Found(l.decl, node) = Null

RefuseChild(node) ==
    /\ Live
    /\ Refuses(Handler, node)
    /\ Throw(IF Kind(Handler.decl) = "only"
             THEN [levels EXCEPT ![Len(levels)].thrown = TRUE] ELSE levels)
    /\ UNCHANGED <<open, unmet>>

(* A record has its container filled by ToTree.                            *)
Kept(chain) == [chain EXCEPT ![Len(chain)].offs = @ + 1]

(* push_node: the innermost deserializer reads the node or ignores it.     *)
PushNode(node) ==
    /\ Live
    /\ ~node.cont
    /\ ~Refuses(Handler, node)
    /\ LET known == Found(Handler.decl, node) # Null IN
       IF ~known THEN UNCHANGED levels /\ Reply(TRUE)
       ELSE CASE Kind(Handler.decl) \in {"seq", "array"} -> Submit(levels)
              [] Kind(Handler.decl) = "record" -> levels' = Kept(levels) /\ Reply(TRUE)
              [] Kind(Handler.decl) = "only" ->
                    levels' = NotingFound(levels) /\ Reply(FALSE)
              [] OTHER -> levels' = NotingFound(levels) /\ Reply(TRUE)
    /\ open' = Noted(node)
    /\ UNCHANGED unmet

(* Every deserializer that has another one nested passes the event on.     *)
NotDeeper(chain) == chain
Deeper(chain) ==
    [i \in DOMAIN chain |->
        IF chain[i].depth > 0 THEN [chain[i] EXCEPT !.depth = @ + 1] ELSE chain[i]]

Nest(chain, d) == Append([chain EXCEPT ![Len(chain)].depth = 1], Level(d))

(* start_container: the innermost deserializer nests the one that reads    *)
(* the container, deserializer_null for a container it does not know.      *)
(* That and a record have everything in it for themselves.                 *)
StartContainer(node) ==
    /\ Live
    /\ node.cont
    /\ ~Refuses(Handler, node)
    /\ LET d == Found(Handler.decl, node)
           known == IF d = Null THEN levels ELSE NotingFound(levels)
       IN  levels' = CASE Kind(Handler.decl) = "null" -> Deeper(levels)
                       [] Kind(Handler.decl) = "record" -> Kept(Deeper(levels))
                       [] OTHER -> Nest(Deeper(known), d)
    /\ Reply(TRUE)
    /\ open' = Append(Noted(node),
                      [decl |-> Found(Last(open).decl, node), found |-> 0, foreign |-> FALSE])
    /\ UNCHANGED unmet

-----------------------------------------------------------------------------
(* Finalization.                                                           *)

(* finalize of one deserializer finds that a child is missing.             *)
MissingUnchecked(l) == Kind(l.decl) = "wrap" /\ ~l.found
Missing(l) ==
    \/ /\ Kind(l.decl) = "array" /\ Decl[l.decl].all
       /\ l.offs # Decl[l.decl].count
    \/ Kind(l.decl) = "wrap" /\ ~l.found

(* finalize goes on to the nested deserializer, except in static_array and *)
(* member_struct_wrap, which override it.                                  *)
Overrides(l) == Kind(l.decl) \in {"array", "wrap"}

FinalizeThrows(chain, i) ==
    \E k \in i..Len(chain) :
        /\ Missing(chain[k])
        /\ \A j \in i..(k - 1) : ~Overrides(chain[j])

(* The deserializers that are left when the outer ones, down to the first  *)
(* with a depth of 1, have counted an end_container.                       *)
Ending == {i \in DOMAIN levels : levels[i].depth = 1}

ShallowerAll(chain) ==
    [i \in DOMAIN chain |-> [chain[i] EXCEPT !.depth = @ - 1]]
Shallower(chain) ==
    [i \in DOMAIN chain |->
        IF chain[i].depth > 0 THEN [chain[i] EXCEPT !.depth = @ - 1] ELSE chain[i]]

(* The truth about a container that ends.                                  *)
Unmet(o) ==
    CASE Kind(o.decl) = "array" ->
            \/ Decl[o.decl].all /\ o.found < Decl[o.decl].count
            \/ Decl[o.decl].strict /\ o.found > Decl[o.decl].count
      [] Kind(o.decl) = "wrap" -> o.found # 1
      [] Kind(o.decl) = "only" -> o.found = 0
      [] OTHER -> FALSE

(* (What is in a container in a record is in the record.)                  *)
NoteEnd ==
    /\ LET outer == Front(open)
           o == Last(open)
       IN  open' = IF Kind(o.decl) = "record" /\ Last(outer).decl = o.decl
                   THEN [outer EXCEPT ![Len(outer)].found = @ + o.found]
                   ELSE outer
    /\ unmet' = IF Unmet(Last(open)) THEN unmet \cup {Last(open)} ELSE unmet

(* end_container of a container in one nobody knows, or in a record.       *)
EndWithin ==
    /\ Live
    /\ Len(open) > 1
    /\ Ending = {}
    /\ levels' = Shallower(levels)
    /\ Reply(TRUE)
    /\ NoteEnd

(* end_container of the container a deserializer was nested for: that one  *)
(* is finalized; if it throws it stays where it is, at depth 0.            *)
OnlyGoesOn(l) == TRUE
GoesOn(l) == Kind(l.decl) = "only" => ~l.found

EndNested ==
    /\ Live
    /\ Len(open) > 1
    /\ \E i \in Ending :
          /\ \A j \in Ending : i <= j
          /\ IF FinalizeThrows(levels, i + 1) THEN Throw(Shallower(levels))
             ELSE LET chain == SubSeq(Shallower(levels), 1, i) IN
                  IF Kind(chain[i].decl) \in {"seq", "array"} THEN Submit(chain)
                  ELSE levels' = chain /\ Reply(GoesOn(chain[i]))
    /\ NoteEnd

-----------------------------------------------------------------------------
(* The end of the sink.                                                    *)

(* only::finalize throws if there is no object and that has not been said; *)
(* what its own nested deserializer throws is passed on.                   *)
ChildThrows ==
    \/ FinalizeThrows(levels, 1)
    \/ /\ Kind(levels[1].decl) = "only"
       /\ ~levels[1].found /\ ~levels[1].thrown

(* A deserializer that is destroyed with another one still nested in it,   *)
(* as it does not finalize it or has failed to, finalizes that one from    *)
(* its destructor.                                                         *)
DestructorThrows ==
    \E i \in 1..(Len(levels) - 1) :
        /\ FinalizeThrows(levels, i + 1)
        /\ Overrides(levels[i]) \/ FinalizeThrows(levels, 1)

(* FromTree sends end_of_stream also after its sink has refused an event,  *)
(* FromBitstream only at the end of its input.                             *)
EndOfStream ==
    /\ status \in {"live", "refused"}
    /\ Len(open) = 1
    /\ levels' = <<>>
    /\ status' = IF DestructorThrows THEN "terminated"
                 ELSE IF ChildThrows THEN "failed" ELSE "ended"
    /\ unmet' = IF Unmet(open[1]) THEN unmet \cup {open[1]} ELSE unmet
    /\ UNCHANGED <<events, open>>

(* The last handle of the sink goes: at the end, or because the source has *)
(* been given up after an error of its own, a refusal or an exception.  An *)
(* exception that leaves a destructor terminates the program.              *)
Destroy ==
    /\ status \in {"live", "refused", "thrown", "failed", "ended"}
    /\ status' = IF levels # <<>> /\ (ChildThrows \/ DestructorThrows)
                 THEN "terminated" ELSE "destroyed"
    /\ levels' = <<>>
    /\ UNCHANGED <<events, open, unmet>>

Gone == status \in {"terminated", "destroyed"} /\ UNCHANGED vars

-----------------------------------------------------------------------------
Next ==
    \/ /\ events < MaxEvents
       /\ \/ \E node \in Nodes :
                \/ RefuseChild(node)
                \/ PushNode(node)
                \/ Len(open) <= MaxOpen /\ StartContainer(node)
          \/ EndWithin \/ EndNested
    \/ EndOfStream \/ Destroy \/ Gone

Spec == Init /\ [][Next]_vars

-----------------------------------------------------------------------------
LevelType ==
    [decl: Decls \cup {Null}, depth: Nat, found: BOOLEAN, thrown: BOOLEAN, offs: Nat]

OpenType == [decl: Decls \cup {Null}, found: Nat, foreign: BOOLEAN]

(* Every variable holds a value of its type.                               *)
TypeOK ==
    /\ levels \in Seq(LevelType)
    /\ status \in {"live", "refused", "thrown", "failed", "ended",
                   "terminated", "destroyed"}
    /\ events \in Nat
    /\ open \in Seq(OpenType)
    /\ \A o \in unmet : o \in OpenType

(* The deserializer that handles the next event is the one generated for   *)
(* the innermost open container, and none for all that is in a container   *)
(* nobody knows: the depths count the open containers.                     *)
ContainerHandlesItsOwn ==
    status = "live" =>
        /\ Handler.decl = Last(open).decl
        /\ \A i \in 1..(Len(levels) - 1) : levels[i].depth = Len(open) - i

(* A sequence has stored as many items as have been recognised and have    *)
(* ended, an array no more than it has room for; if there was no container *)
(* among them that they do not know.                                       *)
StoredInStep ==
    LET Ended(i) == open[i].found - (IF i < Len(levels) THEN 1 ELSE 0)
        Room(i) == Decl[levels[i].decl].count
    IN  status = "live" =>
            \A i \in DOMAIN levels :
                ~open[i].foreign =>
                    /\ Kind(levels[i].decl) = "seq" => levels[i].offs = Ended(i)
                    /\ Kind(levels[i].decl) = "array" =>
                          levels[i].offs = Min({Ended(i), Room(i)})

(* What has been recognised in the containers from the one at i on.        *)
Inside(i) ==
    LET sum[k \in i..Len(open)] ==
            open[k].found + (IF k = i THEN 0 ELSE sum[k - 1])
    IN  sum[Len(open)]

(* A record has all nodes that are in its container, however deep.         *)
RecordsInStep ==
    status = "live" =>
        \A i \in DOMAIN levels :
            Kind(levels[i].decl) = "record" => levels[i].offs = Inside(i)

(* What has been stored is what has been recognised in the stream.         *)
ItemsInStep == StoredInStep /\ RecordsInStep

(* only stores one object and lets the source stop there.                  *)
OnlyStoresOne ==
    Kind(open[1].decl) = "only" => open[1].found <= 1

(* "A record which was required by a serializer was not found" and "a      *)
(* record which was not expected by the serializer was found" (errors.hpp) *)
(* are reported: no stream is taken to its end with such a record ...      *)
RequirementsReported == status = "ended" => unmet = {}

(* ... unless there was an unknown container in an array.                  *)
KnownRequirementsReported == status = "ended" => \A o \in unmet : o.foreign

(* What a deserializer throws reaches the caller as an exception.          *)
ErrorsReachTheCaller == status # "terminated"
=============================================================================
