----------------------------- MODULE MCTreeStream -----------------------------
(***************************************************************************)
(* Trees in memory and their streams on small instances.                   *)
(***************************************************************************)
EXTENDS TreeStream

(* The parents of the nodes 2..n when the nodes are numbered in document   *)
(* order: the node before, or a container that one is in.                  *)
MCParents(n) ==
    LET up[p \in [2..n -> 1..n], m \in 1..n] ==
            IF m = 1 THEN {1} ELSE {m} \cup up[p, p[m]]
    IN  {p \in [2..n -> 1..n] :
            \A m \in 2..n : p[m] < m /\ p[m] \in up[p, m - 1]}

MCChildren(p, n, c) == SetToSortSeq({m \in 2..n : p[m] = c}, LAMBDA a, b : a < b)

MCTree(p, n, ids, conts, known) ==
    [m \in 1..n |->
        LET cs == MCChildren(p, n, m) IN
        [cont |-> m \in conts, id |-> ids[m],
         parent |-> IF m \in known THEN p[m] ELSE Null, children |-> cs, table |-> cs]]

(* The nodes that know their parents: all, none (as in a copy), those in   *)
(* the root only, or the others only.                                      *)
MCKnown(p, n) == {2..n, {}, {m \in 2..n : p[m] = 1}, {m \in 2..n : p[m] # 1}}

(* All trees of n nodes.                                                   *)
MCTrees(n) ==
    UNION {{MCTree(p, n, ids, conts, known) :
              ids \in {f \in [1..n -> Ids] : f[1] = 1},
              conts \in {c \in SUBSET (1..n) : {1} \cup {p[m] : m \in 2..n} \subseteq c},
              known \in MCKnown(p, n)} :
           p \in MCParents(n)}

(* A node that is twice in a list that it was constructed with.            *)
MCTwice ==
    <<[cont |-> TRUE, id |-> 1, parent |-> Null, children |-> <<2, 2>>, table |-> <<2, 2>>],
      [cont |-> TRUE, id |-> 2, parent |-> Null, children |-> <<3>>, table |-> <<3>>],
      [cont |-> FALSE, id |-> 1, parent |-> 2, children |-> <<>>, table |-> <<>>]>>

MCSources == UNION {MCTrees(n) : n \in 1..MaxNodes} \cup {MCTwice}
=============================================================================
