----------------------------- MODULE TreeIterators -----------------------------
(***************************************************************************)
(* The iterators over the nodes below a container.  A NodeTreeIterator is  *)
(* its chain of nested iterators: the position of the outermost one in its *)
(* list of children, the position of the one nested in that child, and so  *)
(* on; an iterator that is not valid is <<>>.                              *)
(***************************************************************************)
EXTENDS NodeTree

Iterators == Seq(Nat \ {0})

NodeAt(c, it) == FoldLeft(LAMBDA n, i : nodes[n].children[i], c, it)

ChildAt(c, it) == nodes[c].children[it[1]]

Begin(c) == IF nodes[c].children = <<>> THEN <<>> ELSE <<1>>

(* ++_cont_iter, and kill at the end of the list.                          *)
NextChild(c, it) == IF it[1] < Len(nodes[c].children) THEN <<it[1] + 1>> ELSE <<>>

(* A plausible slip: a container without children ends the iteration.      *)
PlusEnding(top, from) ==
    LET plus[c \in DOMAIN nodes, it \in Iterators] ==
            LET child == ChildAt(c, it)
                nested == IF Len(it) > 1 THEN plus[child, Tail(it)] ELSE Begin(child)
            IN  IF nested # <<>> THEN <<it[1]>> \o nested
                ELSE IF Len(it) = 1 /\ nodes[child].cont THEN <<>> ELSE NextChild(c, it)
    IN  plus[top, from]

(* operator++: into a container that has children, else to the next node.  *)
Plus(top, from) ==
    LET plus[c \in DOMAIN nodes, it \in Iterators] ==
            LET nested == IF Len(it) > 1 THEN plus[ChildAt(c, it), Tail(it)]
                          ELSE Begin(ChildAt(c, it))
            IN  IF nested # <<>> THEN <<it[1]>> \o nested ELSE NextChild(c, it)
    IN  plus[top, from]

(* skip(): having skipped in the nested iterator, it skips again, until no *)
(* iterator is nested any more.                                            *)
Skip(top, from) ==
    LET skip[c \in DOMAIN nodes, it \in Iterators] ==
            IF Len(it) = 1 THEN NextChild(c, it)
            ELSE skip[c, <<it[1]>> \o skip[ChildAt(c, it), Tail(it)]]
    IN  skip[top, from]

-----------------------------------------------------------------------------
(* FindByID as the filter.                                                 *)
Filter(c, id, it) == nodes[NodeAt(c, it)].id = id

(* advance(): on to the next node the filter lets pass.                    *)
Advance(c, id, from) ==
    LET advance[it \in Iterators] ==
            IF it = <<>> \/ Filter(c, id, it) THEN it ELSE advance[Plus(c, it)]
    IN  advance[from]

(* What a user visits with `for (Find it(c, id); it.valid(); ++it)'.       *)
FindAll(c, id) ==
    LET visits[it \in Iterators] ==
            IF it = <<>> THEN <<>> ELSE <<it>> \o visits[Advance(c, id, Plus(c, it))]
    IN  visits[Advance(c, id, Begin(c))]

(* ++ of FindMostShallow skips what is below a match.                      *)
ShallowPlusInto(c, it) == Plus(c, it)
ShallowPlus(c, it) == IF nodes[NodeAt(c, it)].cont THEN Skip(c, it) ELSE Plus(c, it)

FindMostShallow(c, id) ==
    LET visits[it \in Iterators] ==
            IF it = <<>> THEN <<>> ELSE <<it>> \o visits[Advance(c, id, ShallowPlus(c, it))]
    IN  visits[Advance(c, id, Begin(c))]

-----------------------------------------------------------------------------
(* Reference: the nodes below c in document order.                         *)
DocumentOrder(top) ==
    LET order[c \in DOMAIN nodes] ==
            FlattenSeq([i \in DOMAIN nodes[c].children |->
                <<<<i>>>> \o [k \in DOMAIN order[nodes[c].children[i]] |->
                                 <<i>> \o order[nodes[c].children[i]][k]]])
    IN  order[top]

Matches(c, id) == SelectSeq(DocumentOrder(c), LAMBDA it : Filter(c, id, it))

(* The matches that are not below another one.                             *)
Shallow(c, id) ==
    SelectSeq(Matches(c, id), LAMBDA it :
        \A k \in 1..(Len(it) - 1) : ~Filter(c, id, SubSeq(it, 1, k)))

(* A match that skip passes over: the same child of c has, before it, a    *)
(* match that is a container and not that child itself.                    *)
PassedOver(c, id, it) ==
    \E k \in DOMAIN Shallow(c, id) :
        LET before == Shallow(c, id)[k] IN
        /\ k < SelectInSeq(Shallow(c, id), LAMBDA m : m = it)
        /\ before[1] = it[1] /\ Len(before) > 1
        /\ nodes[NodeAt(c, before)].cont

(* No container is below itself; otherwise a walk does not end.            *)
IsTree(c) == \A n \in Below(nodes, c) \cup {c} : n \notin Below(nodes, n)

Walkable == {c \in alive : nodes[c].cont /\ IsTree(c)}

(* FindAll visits every match below a container, in document order and     *)
(* once, in every tree; also across containers without children and at the *)
(* ends of nested lists.                                                   *)
FindAllVisitsMatches ==
    \A c \in Walkable, id \in Ids : FindAll(c, id) = Matches(c, id)

(* FindMostShallow visits, in document order and once, the matches that    *)
(* are not below another match - except those that skip passes over.       *)
FindMostShallowVisitsShallow ==
    \A c \in Walkable, id \in Ids :
        FindMostShallow(c, id)
          = SelectSeq(Shallow(c, id), LAMBDA it : ~PassedOver(c, id, it))
=============================================================================
