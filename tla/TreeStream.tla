------------------------------ MODULE TreeStream ------------------------------
(***************************************************************************)
(* FromTree streams a tree to a sink: a ToTree, a sink of the user's that  *)
(* derives from SinkTree and may nest another sink in a container, or a    *)
(* SinkChain of both.                                                      *)
(*                                                                         *)
(* subtree_to_sink calls itself; `walk' is the stack of its loops.  The    *)
(* user's sinks answer as they like, by true, false or an exception, which *)
(* covers NullSink and ThrowOnAll.                                         *)
(***************************************************************************)
EXTENDS TreeIterators

CONSTANTS
    Sources      \* the trees that are streamed: their nodes, the root first

(* Numbered so that a child comes after its container; a node that knows a *)
(* parent is a child of it.                                                *)
ASSUME SourcesAssumption ==
    \A s \in Sources :
        /\ s \in Seq([cont: BOOLEAN, id: Ids, parent: 0..MaxNodes,
                     children: Seq(1..MaxNodes), table: Seq(1..MaxNodes)])
        /\ Len(s) \in 1..MaxNodes
        /\ \A c \in DOMAIN s :
              /\ Len(s[c].children) <= MaxChildren
              /\ s[c].cont \/ s[c].children = <<>>
              /\ \A i \in DOMAIN s[c].children :
                    LET n == s[c].children[i] IN
                    n \in (c + 1)..Len(s) /\ s[n].parent \in {Null, c}

VARIABLES
    walk,        \* the containers being streamed, with the next child of each
    phase,       \* "live", "refused", "thrown", "ended", "stopped" (ended after
                 \* a refusal) or "undefined"
    chain,       \* the sinks of the SinkChain, the current one first
    root,        \* _root of ToTree
    stack,       \* _stack of ToTree, the innermost container last
    depth,       \* _depth of SinkTree, 0 when no sink is nested
    source,      \* history: the tree as it was
    open,        \* history: the containers announced and not yet ended
    outer,       \* history: the containers the user's sink has been told of
    nested,      \* history: and those the sink nested in it has been told of
    within,      \* history: the containers open when that sink was nested, or 0
    switched     \* history: the containers open when the chain switched, and the
                 \* next child of the root then

vars == <<tree_vars, walk, phase, chain, root, stack, depth,
          source, open, outer, nested, within, switched>>

toTree == <<tree_vars, root, stack>>
userSinks == <<depth, outer, nested, within>>

CurrParent == Last(stack)
CurrentSink == Head(chain)

(* ToTree builds a tree of its own, or adds to a tree the user has: here   *)
(* the one that is streamed.                                               *)
Init ==
    /\ source \in Sources
    /\ \E own \in BOOLEAN :
          /\ nodes = IF own THEN Append(source, NewNode(TRUE, Null, <<>>)) ELSE source
          /\ root = IF own THEN Len(source) + 1 ELSE 1
    /\ stack = <<root>>
    /\ chain \in {<<"tree">>, <<"user">>, <<"user", "tree">>}
    /\ alive = DOMAIN nodes /\ held = {1, Len(nodes)}
    /\ listed = {n \in 2..Len(source) : source[n].parent = Null}
    /\ walk = <<[cont |-> 1, at |-> 1]>>
    /\ phase = "live"
    /\ depth = 0 /\ outer = 0 /\ nested = 0 /\ within = 0
    /\ switched = [open |-> 0, at |-> 1]
    /\ open = <<>>

-----------------------------------------------------------------------------
(* What FromTree sends next.                                               *)
Streaming == Last(walk)
More == Streaming.at <= Len(nodes[Streaming.cont].children)
Child == nodes[Streaming.cont].children[Streaming.at]
Stepped == [walk EXCEPT ![Len(walk)].at = @ + 1]

(* The containers open, by what has been announced: a child counts in its  *)
(* container when it has ended.                                            *)
AnnouncedDeep(c) ==
    [id |-> c, count |-> Cardinality(Below(nodes, c)), children |-> 0]
Announced(c) == [id |-> c, count |-> Len(nodes[c].children), children |-> 0]
ChildSent(s) == IF s = <<>> THEN s ELSE [s EXCEPT ![Len(s)].children = @ + 1]

-----------------------------------------------------------------------------
(* SinkChain: the sink that refuses is followed by the next of the chain.  *)
RefusedByChain == phase' = "refused" /\ UNCHANGED <<chain, switched>>
NextSink ==
    IF Len(chain) = 1 THEN RefusedByChain
    ELSE /\ chain' = Tail(chain)
         /\ switched' = [open |-> Len(open'), at |-> walk'[1].at]
         /\ UNCHANGED phase

Reply ==
    \/ UNCHANGED <<phase, chain, switched>>
    \/ phase' = "thrown" /\ UNCHANGED <<chain, switched>>
    \/ NextSink

-----------------------------------------------------------------------------
(* ToTree.                                                                 *)

(* A node of another tree is received as a shallow copy, one that has no   *)
(* parent as it is.                                                        *)
NeverCopies(n) == FALSE
Copies(n) == ParentOf(n) \notin {Null, CurrParent}
Received(n) == IF Copies(n) THEN Len(nodes) + 1 ELSE n

(* child_add to a container FromTree iterates over may invalidate the      *)
(* iterator: nothing is claimed from there.                                *)
Invalidates(n) ==
    ParentOf(n) # CurrParent /\ \E i \in DOMAIN walk : walk[i].cont = CurrParent

Receive(n) ==
    IF ParentOf(n) = CurrParent THEN UNCHANGED tree_vars
    ELSE LET ns == IF Copies(n) THEN Append(nodes, ShallowCopied(nodes, n)) ELSE nodes
             m == Received(n)
         IN  /\ nodes' = AddedTo(ns, CurrParent, Append(ns[CurrParent].children, m), m)
             /\ alive' = DOMAIN nodes'
             /\ UNCHANGED <<held, listed>>

TreeReply(undefined) ==
    /\ phase' = IF undefined THEN "undefined" ELSE phase
    /\ UNCHANGED <<root, chain, switched, userSinks>>

(* The parent of what follows is the node that was added.                  *)
EnteredOriginal(c) == c
Entered(c) == Received(c)
PushedUnlessEmpty(c) ==
    IF nodes[c].children = <<>> THEN stack ELSE Append(stack, Entered(c))
Pushed(c) == Append(stack, Entered(c))

TreeStart(c) ==
    /\ CurrentSink = "tree"
    /\ Receive(c)
    /\ stack' = Pushed(c)
    /\ TreeReply(Invalidates(c))

TreeNode(n) ==
    /\ CurrentSink = "tree"
    /\ Receive(n)
    /\ UNCHANGED stack
    /\ TreeReply(Invalidates(n))

(* pop_parent takes the front of the list, also when nothing is left.      *)
NotPopped == stack
Popped == Front(stack)

TreeEnd ==
    /\ CurrentSink = "tree"
    /\ stack' = Popped
    /\ UNCHANGED tree_vars
    /\ TreeReply(Len(stack) = 1)

-----------------------------------------------------------------------------
(* SinkTree: the user's sink, or the one nested in it, which nest has set  *)
(* in the handler of start_container.                                      *)

DeeperUncounted == depth
Deeper == depth + 1

UserStart ==
    /\ CurrentSink = "user"
    /\ \/ /\ depth > 0
          /\ depth' = Deeper /\ nested' = nested + 1
          /\ UNCHANGED <<outer, within>>
       \/ /\ depth = 0
          /\ outer' = outer + 1
          /\ \/ depth' = 1 /\ within' = Len(open')
             \/ UNCHANGED <<depth, within>>
          /\ UNCHANGED nested
    /\ Reply
    /\ UNCHANGED toTree

UserNode ==
    /\ CurrentSink = "user"
    /\ Reply
    /\ UNCHANGED <<toTree, userSinks>>

UserEnd ==
    /\ CurrentSink = "user"
    /\ depth' = IF depth > 0 THEN depth - 1 ELSE 0
    /\ IF depth > 1 THEN nested' = nested - 1 /\ UNCHANGED outer
                    ELSE outer' = outer - 1 /\ UNCHANGED nested
    /\ within' = IF Len(open) = within THEN 0 ELSE within
    /\ Reply
    /\ UNCHANGED toTree

-----------------------------------------------------------------------------
(* FromTree and subtree_to_sink.                                           *)

SendNode ==
    /\ phase = "live" /\ More /\ ~nodes[Child].cont
    /\ walk' = Stepped
    /\ open' = ChildSent(open)
    /\ TreeNode(Child) \/ UserNode
    /\ UNCHANGED source

SendStart ==
    /\ phase = "live" /\ More /\ nodes[Child].cont
    /\ walk' = Append(Stepped, [cont |-> Child, at |-> 1])
    /\ open' = Append(open, Announced(Child))
    /\ TreeStart(Child) \/ UserStart
    /\ UNCHANGED source

SendEnd ==
    /\ phase = "live" /\ ~More /\ Len(walk) > 1
    /\ walk' = Front(walk)
    /\ open' = ChildSent(Front(open))
    /\ TreeEnd \/ UserEnd
    /\ UNCHANGED source

(* end_of_stream goes to the current sink, after a refusal as well; the    *)
(* user's may throw.  None of these sinks changes then.                    *)
EndOfStream ==
    /\ \/ phase = "refused" /\ phase' = "stopped"
       \/ phase = "live" /\ ~More /\ Len(walk) = 1 /\ phase' = "ended"
       \/ /\ phase = "refused" \/ (phase = "live" /\ ~More /\ Len(walk) = 1)
          /\ CurrentSink = "user" /\ phase' = "thrown"
    /\ UNCHANGED <<toTree, walk, chain, userSinks, source, open, switched>>

Next == SendNode \/ SendStart \/ SendEnd \/ EndOfStream

Spec == Init /\ [][Next]_vars

-----------------------------------------------------------------------------
(* What the containers hold, by value.                                     *)
Content(ns, top) ==
    LET content[c \in DOMAIN ns] ==
            [i \in DOMAIN ns[c].children |->
                LET n == ns[c].children[i] IN <<ns[n].id, ns[n].cont, content[n]>>]
    IN  content[top]

(* No node that does not know its parent is twice in one list: ToTree      *)
(* takes the second for a child that it has already received.              *)
ListedOnce ==
    \A c \in DOMAIN source : \A i, j \in DOMAIN source[c].children :
        LET n == source[c].children[i] IN
        source[n].parent = Null /\ n = source[c].children[j] => i = j

(* ToTree of FromTree is a deep copy: once the stream has ended, the tree  *)
(* that was built holds what the source held, in the same order, whether   *)
(* its nodes were copied one by one or taken over as they are; as the      *)
(* later sink of a chain, what was left of the source when the chain       *)
(* switched between two children of the root.                              *)
CopyIsComplete ==
    phase = "ended" /\ chain = <<"tree">> /\ switched.open = 0 /\ ListedOnce =>
        LET sent == Content(source, 1)
            from == IF root = 1 THEN 1 ELSE switched.at
        IN  Content(nodes, root) = SubSeq(sent, from, Len(sent))

(* Every node of the source whose parent is known stays where it is, with  *)
(* its children, through the whole walk, and none of them becomes part of  *)
(* the tree that is built.  A tree streamed into itself does not grow, if  *)
(* the ToTree was not switched to within a container.                      *)
SourceIsUntouched ==
    listed = {} /\ (root = 1 => switched.open = 0) =>
        /\ \A n \in DOMAIN source : nodes[n] = source[n]
        /\ root # 1 => Below(nodes, root) \cap DOMAIN source = {}

(* ToTree has the containers open that have been announced to it, under    *)
(* the names they were announced with.                                     *)
ToTreeInStep ==
    phase = "live" /\ CurrentSink = "tree" =>
        /\ Len(stack) + switched.open = Len(open) + 1
        /\ \A i \in 2..Len(stack) :
              nodes[stack[i]].id = nodes[open[switched.open + i - 1].id].id

(* An iterator is invalidated, or a parent popped that is not there, only  *)
(* when nodes that do not know their parent are streamed or a chain        *)
(* switches to a ToTree within a container.                                *)
DefinedWhenBalanced ==
    phase = "undefined" => listed # {} \/ switched.open > 0

(* A nested sink is told exactly of the containers within the one it was   *)
(* nested in, and the sink around it of those outside and of that one.     *)
NestedSinkInStep ==
    phase = "live" /\ CurrentSink = "user" =>
        /\ outer = IF within = 0 THEN Len(open) ELSE within
        /\ nested = IF within = 0 THEN 0 ELSE Len(open) - within
        /\ depth > 0 <=> within > 0

(* What a sink observes of FromTree is a stream of StreamProtocol with the *)
(* announced counts kept, also when a ToTree adds what it is sent to the   *)
(* tree it comes from; what other sinks might do to that tree is not       *)
(* modelled.  Only the end_of_stream after a refusal is no part of it.     *)
Sink == INSTANCE StreamProtocol WITH
            Containers <- 1..(2 * MaxNodes),
            Counts <- 0..MaxChildren,
            Exact <- TRUE,
            phase <- IF phase \in {"live", "ended"} THEN phase ELSE "cut"

KeepsProtocol == Sink!Spec
=============================================================================
