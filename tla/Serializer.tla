------------------------------ MODULE Serializer ------------------------------
(***************************************************************************)
(* serialize_to_sink: an object in memory is written to a sink along the   *)
(* declaration it is read with, and the sink is the one that deserializes  *)
(* it (Deserializer).  Or the deserializer is sent any stream.             *)
(*                                                                         *)
(* The object is told by what it is written as: how many items a sequence  *)
(* has, and what a member_record refers to.                                *)
(***************************************************************************)
EXTENDS Deserializer, Functions

CONSTANTS
    Objects,     \* the declarations that objects are written with
    MaxItems,    \* bound: the items of a sequence
    RecordIds    \* the ids of the containers that a member_record refers to

ASSUME ObjectsAssumption ==
    /\ Objects \subseteq Decls
    /\ \A d \in Objects : Decl[d].kind = "only"
    /\ MaxItems \in Nat

(* selector_t::first needs an id_selector with an id; an array, a sequence *)
(* or a wrapper is of one declaration (item_decl, value_decl).             *)
ASSUME WrittenAssumption ==
    \A d \in Decls :
       /\ Decl[d].kind # "only" => Decl[d].ids \in Seq(Int) \ {<<>>}
       /\ Decl[d].kind \in {"seq", "array", "wrap", "only"} => Len(Decl[d].members) = 1

VARIABLES
    sender,      \* "any", or "serializer"
    todo,        \* what is left to write: the rest of the calls of to_sink
    writers,     \* history: what has written the open containers
    misread,     \* history: those a part of which another declaration has read
    lossy        \* history: whether a record that there must be was left out,
                 \* or has another id

writerVars == <<todo, writers, misread, lossy>>

-----------------------------------------------------------------------------
(* A call of to_sink, an end_container that is due, and the calls that     *)
(* FromTree makes for a record.                                            *)
Call(do, d, id) == [do |-> do, decl |-> d, id |-> id]
ToSink(d) == Call("to_sink", d, 0)

(* id_selector::first, the id of all that a serializer makes a node for.   *)
FirstOfChild(d) ==
    Head(Decl[IF Kind(d) = "wrap" THEN Head(Decl[d].members) ELSE d].ids)
First(d) == Head(Decl[d].ids)

Node(d, id) == [id |-> id, cont |-> Kind(d) # "value"]

(* What is written within the container of d: every member in turn, the    *)
(* items of an array or of a sequence, the child of a wrapper.             *)
Repeated(d, n) == [i \in 1..n |-> ToSink(Head(Decl[d].members))]

ContentsOverrun(d) ==
    IF Kind(d) = "array" THEN {Repeated(d, Decl[d].count + 1)}
    ELSE {[i \in DOMAIN Decl[d].members |-> ToSink(Decl[d].members[i])]}
Contents(d) ==
    CASE Kind(d) = "seq" -> {Repeated(d, n) : n \in 0..MaxItems}
      [] Kind(d) = "array" -> {Repeated(d, Decl[d].count)}
      [] OTHER -> {[i \in DOMAIN Decl[d].members |-> ToSink(Decl[d].members[i])]}

(* The nodes within a record: none, a value, or a container with a value.  *)
Push(d) == Call("push_node", d, 1)
Start(d) == Call("start_container", d, 1)
End(d) == Call("end_container", d, 1)

RecordContents(d) == {<<>>, <<Push(d)>>, <<Start(d), Push(d), End(d)>>}

-----------------------------------------------------------------------------
SerializerInit ==
    /\ \/ Init /\ sender = "any" /\ todo = <<>> /\ writers = <<>>
       \/ /\ \E d \in Objects :
                /\ levels = <<Level(d)>>
                /\ open = <<[decl |-> d, found |-> 0, foreign |-> FALSE]>>
                /\ todo = <<ToSink(Head(Decl[d].members))>>
                /\ writers = <<d>>
          /\ status = "live" /\ events = 0 /\ unmet = {}
          /\ sender = "serializer"
    /\ misread = {} /\ lossy = FALSE

Sending == sender = "serializer" /\ todo # <<>> /\ UNCHANGED sender
Calls(do) == Sending /\ Head(todo).do = do

(* The truth about who reads what d has written, the containers around it  *)
(* being read by those that have written them.                             *)
InPlace == writers = [i \in DOMAIN open |-> open[i].decl]

NoteReader(d, node) ==
    misread' = IF InPlace /\ Found(Handler.decl, node) # d
               THEN misread \cup {Last(writers)} ELSE misread

(* A value is one node; the reply of the sink is of no interest.           *)
WriteValue ==
    /\ Calls("to_sink") /\ Kind(Head(todo).decl) = "value"
    /\ LET d == Head(todo).decl
           node == Node(d, First(d))
       IN  (RefuseChild(node) \/ PushNode(node)) /\ NoteReader(d, node)
    /\ todo' = Tail(todo)
    /\ UNCHANGED <<writers, lossy>>

(* start_container of what d is written as.                                *)
WriteStart(d, node, contents) ==
    /\ RefuseChild(node) \/ StartContainer(node)
    /\ NoteReader(d, node)
    /\ todo' = contents \o <<End(d)>> \o Tail(todo)
    /\ writers' = Append(writers, d)

WriteContainer ==
    /\ Calls("to_sink") /\ Kind(Head(todo).decl) \notin {"value", "record"}
    /\ LET d == Head(todo).decl IN
       \E contents \in Contents(d) : WriteStart(d, Node(d, First(d)), contents)
    /\ UNCHANGED lossy

(* member_record has FromTree write the container, under the id it has.    *)
WriteRecord ==
    /\ Calls("to_sink") /\ Kind(Head(todo).decl) = "record"
    /\ LET d == Head(todo).decl IN
       \E id \in RecordIds \cup {First(d)}, contents \in RecordContents(d) :
          /\ WriteStart(d, Node(d, id), contents)
          /\ lossy' = (lossy \/ ~Matches(d, Node(d, id)))

(* What is to be read, whoever wrote it, before d is complete.             *)
Mandatory(d) ==
    Kind(d) \in {"wrap", "only"} \/ (Kind(d) = "array" /\ Decl[d].all)

(* It writes nothing for a null handle, also where the child is mandatory. *)
OmitRecord ==
    /\ Calls("to_sink") /\ Kind(Head(todo).decl) = "record"
    /\ status = "live"
    /\ todo' = Tail(todo)
    /\ lossy' = (lossy \/ Mandatory(Last(writers)))
    /\ UNCHANGED <<vars, writers, misread>>

(* The nodes of a record.                                                  *)
WriteChild ==
    /\ Calls("push_node")
    /\ LET node == [id |-> Head(todo).id, cont |-> FALSE] IN
       (RefuseChild(node) \/ PushNode(node)) /\ NoteReader(Head(todo).decl, node)
    /\ todo' = Tail(todo)
    /\ UNCHANGED <<writers, lossy>>

WriteNested ==
    /\ Calls("start_container")
    /\ LET node == [id |-> Head(todo).id, cont |-> TRUE] IN
       (RefuseChild(node) \/ StartContainer(node)) /\ NoteReader(Head(todo).decl, node)
    /\ todo' = Tail(todo)
    /\ writers' = Append(writers, Head(todo).decl)
    /\ UNCHANGED lossy

WriteEnd ==
    /\ Calls("end_container")
    /\ EndWithin \/ EndNested
    /\ todo' = Tail(todo)
    /\ writers' = Front(writers)
    /\ UNCHANGED <<misread, lossy>>

(* serialize_to_sink returns when all is written or the sink has thrown.   *)
Return ==
    /\ sender = "serializer"
    /\ todo = <<>> \/ status # "live"
    /\ (status # "thrown" /\ EndOfStream) \/ Destroy \/ Gone
    /\ UNCHANGED <<writerVars, sender>>

Receive ==
    /\ sender = "any"
    /\ Next
    /\ UNCHANGED <<writerVars, sender>>

SerializerNext ==
    \/ WriteValue \/ WriteContainer \/ WriteRecord \/ OmitRecord
    \/ WriteChild \/ WriteNested \/ WriteEnd
    \/ Return \/ Receive

SerializerSpec == SerializerInit /\ [][SerializerNext]_<<vars, writerVars, sender>>

-----------------------------------------------------------------------------
(* An earlier member of d may take what a later one is written as.         *)
WrittenIds(d) == IF Kind(d) = "record" THEN ToSet(Decl[d].ids) ELSE {Head(Decl[d].ids)}

Ambiguous(d) ==
    /\ Kind(d) = "struct"
    /\ \E i, j \in DOMAIN Decl[d].members :
          LET m == Decl[d].members[j] IN
          i < j /\ \E id \in WrittenIds(m) : Matches(Decl[d].members[i], Node(m, id))

(* All that an object is written as is read by the declaration that has    *)
(* written it, in the same place, unless its id selects an earlier member  *)
(* of the same struct or a record has an id that its member does not       *)
(* select.                                                                 *)
WrittenIsRecognised ==
    /\ ~lossy => \A d \in misread : Ambiguous(d)
    /\ sender = "serializer" /\ status = "live" /\ ~lossy /\ misread = {} => InPlace

(* An object that has been written is read without an exception, complete  *)
(* and to its end, unless so or a record is null that a wrapper, an array  *)
(* or the stream itself must have.                                         *)
WrittenIsAccepted ==
    sender = "serializer" /\ ~lossy /\ misread = {} =>
        /\ status \notin {"thrown", "failed", "terminated"}
        /\ unmet = {}
        /\ \A i \in DOMAIN open : ~open[i].foreign
        /\ status \in {"refused", "ended", "destroyed"} => todo = <<>>
=============================================================================
