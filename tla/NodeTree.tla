------------------------------- MODULE NodeTree -------------------------------
(***************************************************************************)
(* Nodes in memory: containers with their lists of children and tables by  *)
(* id, the weak handles to their parents, and the handles that keep nodes  *)
(* alive.                                                                  *)
(*                                                                         *)
(* Nodes are numbered as they are created, as deep copies are node by      *)
(* node.  A call that throws (ParentAlreadySet, NotMyChild) does so before *)
(* it has changed anything, and is not a step.                             *)
(***************************************************************************)
EXTENDS Integers, Sequences, FiniteSets, SequencesExt

CONSTANTS
    Ids,           \* the ids of nodes
    MaxNodes,      \* bound: the nodes ever created
    MaxChildren,   \* bound: the children of a container
    MaxHandles     \* bound: the handles the user has at a time

ASSUME NodeTreeAssumption ==
    MaxNodes \in Nat /\ MaxChildren \in Nat /\ MaxHandles \in Nat

VARIABLES
    nodes,       \* the nodes, also those that are gone
    alive,       \* those that are not
    held,        \* those the user has a handle of
    listed       \* history: the children given to a constructor

tree_vars == <<nodes, alive, held, listed>>

Null == 0

-----------------------------------------------------------------------------
(* The handles in the list of children and in the table by id.             *)
Children(ns, c) == ns[c].children
RefersWeakly(ns, c, n) == FALSE
Refers(ns, c, n) == n \in Range(ns[c].children) \cup Range(ns[c].table)

(* What is left of `al' when every node that no handle refers to has been  *)
(* destroyed, and what only such nodes referred to after them: the nodes   *)
(* the user has handles of, and the largest set of others each of which    *)
(* one of them all refers to.                                              *)
Kept(ns, hs, al) ==
    hs \cup UNION {S \in SUBSET (al \ hs) :
                      \A n \in S : \E c \in hs \cup S : Refers(ns, c, n)}

(* _parent.lock(): the handle of a parent that is gone is empty.           *)
ParentOf(n) == IF nodes[n].parent \in alive THEN nodes[n].parent ELSE Null

Gone == [cont |-> FALSE, id |-> Null, parent |-> Null, children |-> <<>>, table |-> <<>>]

(* The end of every step: what no handle is left of is destroyed.          *)
Become(ns, hs) ==
    LET al == Kept(ns, hs, alive \cup (DOMAIN ns \ DOMAIN nodes)) IN
    /\ Cardinality(hs) <= MaxHandles
    /\ alive' = al
    /\ held' = hs
    /\ nodes' = [n \in DOMAIN ns |->
                    IF n \in al THEN ns[n] ELSE Gone]

(* The containers and nodes a user can call an operation on or with.       *)
HeldContainers == {c \in held : nodes[c].cont}
Room(c) == Len(nodes[c].children) < MaxChildren

TreeInit ==
    /\ nodes = <<>>
    /\ alive = {} /\ held = {} /\ listed = {}

-----------------------------------------------------------------------------
(* Creation.                                                               *)

NewNode(cont, id, cs) ==
    [cont |-> cont, id |-> id, parent |-> Null, children |-> cs, table |-> cs]

Added(n) == Len(nodes) < MaxNodes /\ Become(Append(nodes, n), held \cup {Len(nodes) + 1})

(* NodeHandleFactory::create                                               *)
Create(cont, id) ==
    /\ Added(NewNode(cont, id, <<>>))
    /\ UNCHANGED listed

(* NodeHandleFactory::create_with_children: child_add in the constructor,  *)
(* when _self is not set: no child gets a parent.                          *)
CreateWithChildren(id, cs) ==
    /\ \A n \in Range(cs) : ParentOf(n) = Null
    /\ Added(NewNode(TRUE, id, cs))
    /\ listed' = listed \cup Range(cs)

-----------------------------------------------------------------------------
(* Containers.                                                             *)

AddedTo(ns, c, cs, n) ==
    [ns EXCEPT ![c].children = cs, ![c].table = Append(@, n), ![n].parent = c]

ChildAdd(c, n) ==
    /\ Room(c) /\ ParentOf(n) = Null
    /\ Become(AddedTo(nodes, c, Append(nodes[c].children, n), n), held)
    /\ UNCHANGED listed

(* A plausible slip: the parent is not set.                                *)
InsertedUnowned(c, i, n) ==
    [nodes EXCEPT ![c].children = InsertAt(@, i, n), ![c].table = Append(@, n)]
Inserted(c, i, n) == AddedTo(nodes, c, InsertAt(nodes[c].children, i, n), n)

ChildInsertBefore(c, i, n) ==
    /\ Room(c) /\ ParentOf(n) = Null
    /\ Become(Inserted(c, i, n), held)
    /\ UNCHANGED listed

(* child_erase: the child keeps only the handles others have of it.        *)
ErasedKeepingParent(c, i) ==
    LET n == nodes[c].children[i] IN
    [nodes EXCEPT ![c].children = RemoveAt(@, i), ![c].table = RemoveFirst(@, n)]
ErasedKeepingEntry(c, i) ==
    LET n == nodes[c].children[i] IN
    [nodes EXCEPT ![c].children = RemoveAt(@, i), ![n].parent = Null]
Erased(c, i) ==
    LET n == nodes[c].children[i] IN
    [nodes EXCEPT ![c].children = RemoveAt(@, i), ![c].table = RemoveFirst(@, n),
                  ![n].parent = Null]

ChildErase(c, i) ==
    /\ ParentOf(nodes[c].children[i]) = c
    /\ Become(Erased(c, i), held)
    /\ UNCHANGED listed

(* detach_from_parent: child_find finds the first of the children.         *)
DetachFromParent(n) ==
    /\ ParentOf(n) # Null
    /\ LET c == ParentOf(n) IN
       /\ n \in Range(nodes[c].children)
       /\ Become(Erased(c, SelectInSeq(nodes[c].children, LAMBDA m : m = n)), held)
    /\ UNCHANGED listed

-----------------------------------------------------------------------------
(* Copies.                                                                 *)

(* The nodes below a container, over any number of levels: those that no   *)
(* set of nodes with its children, and theirs, leaves out.                 *)
HasBelow(ns, c, S) ==
    /\ Range(ns[c].children) \subseteq S
    /\ \A n \in S : Range(ns[n].children) \subseteq S
Below(ns, c) ==
    {n \in DOMAIN ns : ~\E S \in SUBSET (DOMAIN ns \ {n}) : HasBelow(ns, c, S)}

(* copy(): the nodes `new', of which `top' is the copy of n, are copies of *)
(* the nodes that `of' tells, with the children that `into' tells: each is *)
(* a copy of the child in that place, and is in no other place.  A node    *)
(* that is in two places is copied twice; one that is below itself has no  *)
(* such copy, and copy() does not return.  The children are added by the   *)
(* constructor as in CreateWithChildren.                                   *)
IsCopy(ns, n, top, new, of, into) ==
    /\ of[top] = n
    /\ \A m \in new :
          /\ Len(into[m]) = Len(ns[of[m]].children)
          /\ \A i \in DOMAIN into[m] :
                into[m][i] > m /\ of[into[m][i]] = ns[of[m]].children[i]
    /\ \A m \in new \ {top} :
          Cardinality({p \in new \X (1..MaxChildren) :
                          p[2] \in DOMAIN into[p[1]] /\ into[p[1]][p[2]] = m}) = 1

Copied(ns, k, of, into) ==
    [j \in 1..k |-> LET m == Len(ns) + j IN
                    NewNode(ns[of[m]].cont, ns[of[m]].id, into[m])]

Copy(n) ==
    \E k \in 1..(MaxNodes - Len(nodes)) :
        LET top == Len(nodes) + 1
            new == top..(Len(nodes) + k)
        IN  \E of \in [new -> DOMAIN nodes],
               into \in [new -> BoundedSeq(new \ {top}, MaxChildren)] :
                /\ IsCopy(nodes, n, top, new, of, into)
                /\ Become(nodes \o Copied(nodes, k, of, into), held \cup {top})
                /\ listed' = listed \cup (new \ {top})

(* shallow_copy(): a container without its children.                       *)
ShallowCopied(ns, n) == NewNode(ns[n].cont, ns[n].id, <<>>)
ShallowCopy(n) ==
    /\ Added(ShallowCopied(nodes, n))
    /\ UNCHANGED listed

-----------------------------------------------------------------------------
(* The user's handles.                                                     *)

(* A child out of a list of children, or a parent.                         *)
Take(n) ==
    /\ n \notin held
    /\ \/ \E c \in held : n \in Range(nodes[c].children)
       \/ \E m \in held : ParentOf(m) = n
    /\ Become(nodes, held \cup {n})
    /\ UNCHANGED listed

Drop(n) ==
    /\ Become(nodes, held \ {n})
    /\ UNCHANGED listed

-----------------------------------------------------------------------------
TreeNext ==
    \/ \E cont \in BOOLEAN, id \in Ids : Create(cont, id)
    \/ \E id \in Ids, cs \in BoundedSeq(held, MaxChildren) : CreateWithChildren(id, cs)
    \/ \E c \in HeldContainers, n \in held : ChildAdd(c, n)
    \/ \E c \in HeldContainers, n \in held :
          \E i \in DOMAIN nodes[c].children : ChildInsertBefore(c, i, n)
    \/ \E c \in HeldContainers : \E i \in DOMAIN nodes[c].children : ChildErase(c, i)
    \/ \E n \in held : DetachFromParent(n) \/ Copy(n) \/ ShallowCopy(n) \/ Drop(n)
    \/ \E n \in alive : Take(n)

TreeSpec == TreeInit /\ [][TreeNext]_tree_vars

-----------------------------------------------------------------------------
NodeType ==
    [cont: BOOLEAN, id: Ids \cup {Null}, parent: {Null} \cup DOMAIN nodes,
     children: Seq(DOMAIN nodes), table: Seq(DOMAIN nodes)]

(* Every variable holds a value of its type; a handle is of a node that is *)
(* alive, and only containers have children.                               *)
TreeTypeOK ==
    /\ nodes \in Seq(NodeType)
    /\ held \subseteq alive /\ alive \subseteq DOMAIN nodes
    /\ \A c \in DOMAIN nodes :
          /\ Range(nodes[c].children) \subseteq alive
          /\ nodes[c].children # <<>> => nodes[c].cont /\ c \in alive

Times(s, n) == Cardinality({i \in DOMAIN s : s[i] = n})

(* children_by_id and the list of children show the same nodes: both have  *)
(* a child equally often, whatever was inserted, erased or detached.       *)
TablesAgree ==
    \A c, n \in alive : Times(nodes[c].children, n) = Times(nodes[c].table, n)

(* A parent has its child, so that detach_from_parent finds it (an assert  *)
(* in the code).                                                           *)
ParentsHaveTheirChildren ==
    \A n \in alive : ParentOf(n) # Null => n \in Range(nodes[ParentOf(n)].children)

Places(n) == {p \in alive \X (1..MaxChildren) :
                p[2] \in DOMAIN nodes[p[1]].children /\ nodes[p[1]].children[p[2]] = n}

(* "Raises an ParentAlreadySet exception if the child is already assigned  *)
(* to a parent" (node_container.hpp): a node is the child of one container *)
(* and once only, which its parent tells - unless a constructor has ever   *)
(* been given it as a child.                                               *)
OnePlaceUnlessListed ==
    \A n \in alive \ listed :
        Cardinality(Places(n)) = IF ParentOf(n) = Null THEN 0 ELSE 1

(* A node outlives the handles of the user only in a cycle of containers   *)
(* or below one: nothing else, a stale entry in a table for example, keeps *)
(* it.                                                                     *)
NothingLeaks ==
    \A n \in alive :
        \/ n \in held \/ \E c \in held : n \in Below(nodes, c)
        \/ \E c \in alive : c \in Below(nodes, c) /\ n \in Below(nodes, c)
=============================================================================
