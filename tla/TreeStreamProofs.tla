--------------------------- MODULE TreeStreamProofs ---------------------------
(***************************************************************************)
(* FromTree and its sinks: theorems about TreeStream.                      *)
(***************************************************************************)
EXTENDS TreeStream, SequenceTheorems, WellFoundedInduction, TLAPS

NodeRecord ==
    [cont: BOOLEAN, id: Ids \cup {Null}, parent: Nat,
     children: Seq(Nat), table: Seq(Nat)]

WalkRecord == [cont: Nat, at: Nat]

OpenRecord == [id: Nat, count: Nat, children: Nat]

-----------------------------------------------------------------------------
(* Sequences.                                                              *)

(* Removing the last element of a nonempty sequence.                       *)
LEMMA FrontFacts ==
    ASSUME NEW S, NEW s \in Seq(S), s # <<>>
    PROVE  /\ Front(s) \in Seq(S)
           /\ Len(Front(s)) = Len(s) - 1
           /\ \A i \in 1..(Len(s) - 1) : Front(s)[i] = s[i]
<1>1. Len(s) \in Nat \ {0}
  BY EmptySeq, LenProperties
<1> DEFINE n == Len(s) - 1
<1>2. n \in Nat /\ (\A i \in 1..n : s[i] \in S) /\ n = Len(s) - 1
  BY <1>1
<1>3. Front(s) = SubSeq(s, 1, n)
  BY DEF Front
<1> HIDE DEF n
<1>4. /\ SubSeq(s, 1, n) \in Seq(S)
      /\ Len(SubSeq(s, 1, n)) = IF 1 <= n THEN n - 1 + 1 ELSE 0
      /\ \A i \in 1..(n - 1 + 1) : SubSeq(s, 1, n)[i] = s[1 + i - 1]
  BY <1>2, SubSeqProperties
<1> QED
  BY <1>2, <1>3, <1>4

(* The last element of a nonempty sequence.                                *)
LEMMA LastFacts ==
    ASSUME NEW S, NEW s \in Seq(S), s # <<>>
    PROVE  /\ Len(s) \in Nat \ {0} /\ Len(s) \in DOMAIN s
           /\ Last(s) = s[Len(s)] /\ Last(s) \in S
<1>1. Len(s) \in Nat \ {0}
  BY EmptySeq, LenProperties
<1> QED
  BY <1>1 DEF Last

(* Only the last element of s is another one in t.                         *)
SameBelow(s, t) ==
    Len(t) = Len(s) /\ \A i \in 1..(Len(s) - 1) : t[i] = s[i]

LEMMA LastReplaced ==
    ASSUME NEW S, NEW s \in Seq(S), s # <<>>, NEW v \in S,
           NEW t, t = [s EXCEPT ![Len(s)] = v]
    PROVE  t \in Seq(S) /\ t # <<>> /\ SameBelow(s, t) /\ Last(t) = v
<1>1. Len(s) \in Nat \ {0} /\ Len(s) \in DOMAIN s
  BY LastFacts
<1>2. /\ t \in Seq(S) /\ Len(t) = Len(s)
      /\ \A i \in 1..Len(s) : t[i] = IF i = Len(s) THEN v ELSE s[i]
  BY <1>1
<1>3. t # <<>>
  BY <1>1, <1>2
<1>4. \A i \in 1..(Len(s) - 1) : i \in 1..Len(s) /\ i # Len(s)
  BY <1>1
<1>5. \A i \in 1..(Len(s) - 1) : t[i] = s[i]
  BY <1>2, <1>4
<1>6. Last(t) = v
  BY <1>1, <1>2 DEF Last
<1> QED
  BY <1>2, <1>3, <1>5, <1>6 DEF SameBelow

-----------------------------------------------------------------------------
(* What ToTree does to the nodes.                                          *)

LEMMA NodeChanged ==
    ASSUME NEW r \in NodeRecord, NEW cs \in Seq(Nat), NEW p \in Nat
    PROVE  /\ LET new == [r EXCEPT !.children = cs]
              IN  /\ new \in NodeRecord /\ new.cont = r.cont /\ new.id = r.id
                  /\ new.table = r.table /\ new.children = cs /\ new.parent = r.parent
           /\ LET new == [r EXCEPT !.table = cs]
              IN  /\ new \in NodeRecord /\ new.cont = r.cont /\ new.id = r.id
                  /\ new.children = r.children /\ new.parent = r.parent
           /\ LET new == [r EXCEPT !.parent = p]
              IN  /\ new \in NodeRecord /\ new.cont = r.cont /\ new.id = r.id
                  /\ new.children = r.children /\ new.parent = p
BY DEF NodeRecord

LEMMA NodeFields ==
    ASSUME NEW r \in NodeRecord
    PROVE  /\ r.table \in Seq(Nat) /\ r.children \in Seq(Nat)
           /\ r.parent \in Nat /\ r.cont \in BOOLEAN
BY DEF NodeRecord

(* A node that is added to a container: the lists of the container and the *)
(* parent of the node change, and nothing else.                            *)
OneAdded(ns, c, cs, n, new) ==
    /\ new \in Seq(NodeRecord) /\ Len(new) = Len(ns)
    /\ new[c].children = cs /\ new[n].parent = c
    /\ \A k \in 1..Len(ns) :
          /\ new[k].cont = ns[k].cont /\ new[k].id = ns[k].id
          /\ k # n => new[k].parent = ns[k].parent
          /\ k # c => new[k].children = ns[k].children
          /\ k \notin {c, n} => new[k] = ns[k]

LEMMA AddedFacts ==
    ASSUME NEW ns \in Seq(NodeRecord), NEW c \in 1..Len(ns), NEW n \in 1..Len(ns),
           NEW cs \in Seq(Nat)
    PROVE  OneAdded(ns, c, cs, n, AddedTo(ns, c, cs, n))
<1> DEFINE cNew == [ns[c] EXCEPT !.children = cs]
           ns1 == [ns EXCEPT ![c] = cNew]
           cNew2 == [ns1[c] EXCEPT !.table = Append(ns1[c].table, n)]
           ns2 == [ns1 EXCEPT ![c] = cNew2]
           nNew == [ns2[n] EXCEPT !.parent = c]
           ns3 == [ns2 EXCEPT ![n] = nNew]
<1>1. AddedTo(ns, c, cs, n) = ns3
  BY Zenon DEF AddedTo
<1>2. /\ ns[c] \in NodeRecord /\ cNew \in NodeRecord /\ cNew.cont = ns[c].cont
      /\ cNew.id = ns[c].id /\ cNew.children = cs /\ cNew.parent = ns[c].parent
  <2>1. ns[c] \in NodeRecord /\ c \in Nat
    OBVIOUS
  <2> QED
    BY <2>1, NodeChanged, Zenon
<1> HIDE DEF cNew
<1>3. /\ ns1 \in Seq(NodeRecord) /\ Len(ns1) = Len(ns)
      /\ ns1[c] = cNew /\ \A k \in 1..Len(ns) : k # c => ns1[k] = ns[k]
  BY <1>2, ExceptSeq
<1> HIDE DEF ns1
<1>4. /\ cNew2 \in NodeRecord /\ cNew2.cont = ns[c].cont /\ cNew2.id = ns[c].id
      /\ cNew2.children = cs /\ cNew2.parent = ns[c].parent
  <2>1. /\ ns1[c] \in NodeRecord /\ ns1[c].cont = ns[c].cont /\ ns1[c].id = ns[c].id
        /\ ns1[c].children = cs /\ ns1[c].parent = ns[c].parent
    BY <1>2, <1>3
  <2>2. Append(ns1[c].table, n) \in Seq(Nat)
    <3>1. ns1[c].table \in Seq(Nat) /\ n \in Nat
      BY <2>1, NodeFields
    <3> QED
      BY <3>1, AppendProperties
  <2> QED
    <3> c \in Nat
      OBVIOUS
    <3>1. /\ cNew2 \in NodeRecord /\ cNew2.cont = ns1[c].cont /\ cNew2.id = ns1[c].id
          /\ cNew2.children = ns1[c].children /\ cNew2.parent = ns1[c].parent
      BY <2>1, <2>2, NodeChanged, Zenon
    <3> QED
      BY <2>1, <3>1
<1> HIDE DEF cNew2
<1>5. /\ ns2 \in Seq(NodeRecord) /\ Len(ns2) = Len(ns)
      /\ ns2[c] = cNew2 /\ \A k \in 1..Len(ns) : k # c => ns2[k] = ns[k]
  BY <1>3, <1>4, ExceptSeq
<1> HIDE DEF ns2
<1>6. /\ nNew \in NodeRecord /\ nNew.cont = ns2[n].cont /\ nNew.id = ns2[n].id
      /\ nNew.children = ns2[n].children /\ nNew.parent = c
  <2>1. ns2[n] \in NodeRecord /\ c \in Nat
    BY <1>5
  <2> QED
    BY <2>1, NodeChanged, Zenon
<1> HIDE DEF nNew
<1>7. /\ ns3 \in Seq(NodeRecord) /\ Len(ns3) = Len(ns)
      /\ ns3[n] = nNew /\ \A k \in 1..Len(ns) : k # n => ns3[k] = ns2[k]
  BY <1>5, <1>6, ExceptSeq
<1> HIDE DEF ns3
<1>8. ASSUME NEW k \in 1..Len(ns)
      PROVE  /\ ns3[k].cont = ns[k].cont /\ ns3[k].id = ns[k].id
             /\ k # n => ns3[k].parent = ns[k].parent
             /\ k # c => ns3[k].children = ns[k].children
             /\ k \notin {c, n} => ns3[k] = ns[k]
  <2>1. ns2[k].cont = ns[k].cont /\ ns2[k].id = ns[k].id /\ (k # c => ns2[k] = ns[k])
        /\ ns2[k].parent = ns[k].parent
    BY <1>4, <1>5
  <2> QED
    BY <1>6, <1>7, <2>1
<1>9. ns3[c].children = cs /\ ns3[n].parent = c
  BY <1>4, <1>5, <1>6, <1>7
<1> QED
  BY <1>1, <1>7, <1>8, <1>9 DEF OneAdded

(* What receiving the node n does to the nodes: a copy may be appended;    *)
(* the current parent gets a child; the node, or its copy, a parent.       *)
LEMMA ReceiveFacts ==
    ASSUME nodes \in Seq(NodeRecord), alive = DOMAIN nodes,
           CurrParent \in 1..Len(nodes), NEW n \in 1..Len(nodes), Receive(n)
    PROVE  /\ nodes' \in Seq(NodeRecord) /\ Len(nodes') >= Len(nodes)
           /\ alive' = DOMAIN nodes' /\ listed' = listed
           /\ Received(n) \in 1..Len(nodes') /\ nodes'[Received(n)].id = nodes[n].id
           /\ nodes'[Received(n)].cont = nodes[n].cont
           /\ Received(n) = IF Copies(n) THEN Len(nodes) + 1 ELSE n
           /\ ParentOf(n) = CurrParent => nodes' = nodes
           /\ ParentOf(n) # CurrParent =>
                 /\ nodes'[CurrParent].children = Append(nodes[CurrParent].children, Received(n))
                 /\ nodes'[Received(n)].parent = CurrParent
           /\ Copies(n) => /\ Len(nodes') = Len(nodes) + 1
                           /\ nodes'[Len(nodes) + 1].children = <<>>
           /\ ~Copies(n) => Len(nodes') = Len(nodes)
           /\ \A k \in 1..Len(nodes) :
                 /\ nodes'[k].cont = nodes[k].cont /\ nodes'[k].id = nodes[k].id
                 /\ k # Received(n) => nodes'[k].parent = nodes[k].parent
                 /\ k # CurrParent => nodes'[k].children = nodes[k].children
                 /\ k \notin {CurrParent, Received(n)} => nodes'[k] = nodes[k]
<1>1. Received(n) = IF Copies(n) THEN Len(nodes) + 1 ELSE n
  BY DEF Received
<1>2. CASE ParentOf(n) = CurrParent
  <2>1. UNCHANGED tree_vars
    BY <1>2 DEF Receive
  <2>2. ~Copies(n)
    BY <1>2 DEF Copies
  <2> QED
    BY <1>1, <1>2, <2>1, <2>2 DEF tree_vars
<1>3. CASE ParentOf(n) # CurrParent
  <2> DEFINE ns == IF Copies(n) THEN Append(nodes, ShallowCopied(nodes, n)) ELSE nodes
             m == Received(n)
             c == CurrParent
             cs == Append(ns[c].children, m)
  <2>1. nodes' = AddedTo(ns, c, cs, m) /\ alive' = DOMAIN nodes' /\ listed' = listed
    BY <1>3, Zenon DEF Receive
  <2>2. nodes[n] \in NodeRecord
    OBVIOUS
  <2>3. /\ ShallowCopied(nodes, n) \in NodeRecord /\ ShallowCopied(nodes, n).id = nodes[n].id
        /\ ShallowCopied(nodes, n).cont = nodes[n].cont
        /\ ShallowCopied(nodes, n).children = <<>>
    <3> DEFINE r == nodes[n]
    <3>1. r.cont \in BOOLEAN /\ r.id \in Ids \cup {Null}
      BY <2>2 DEF NodeRecord
    <3>2. <<>> \in Seq(Nat) /\ Null \in Nat
      BY EmptySeq DEF Null
    <3>3. ShallowCopied(nodes, n) = NewNode(r.cont, r.id, <<>>)
      BY DEF ShallowCopied
    <3> HIDE DEF r
    <3>4. /\ NewNode(r.cont, r.id, <<>>) \in NodeRecord
          /\ NewNode(r.cont, r.id, <<>>).id = r.id /\ NewNode(r.cont, r.id, <<>>).cont = r.cont
          /\ NewNode(r.cont, r.id, <<>>).children = <<>>
      BY <3>1, <3>2 DEF NewNode, NodeRecord
    <3> QED
      BY <3>3, <3>4 DEF r
  <2>4. /\ ns \in Seq(NodeRecord) /\ Len(ns) >= Len(nodes) /\ m \in 1..Len(ns)
        /\ ns[m].id = nodes[n].id /\ ns[m].cont = nodes[n].cont
        /\ \A k \in 1..Len(nodes) : ns[k] = nodes[k]
        /\ Copies(n) => Len(ns) = Len(nodes) + 1 /\ ns[Len(nodes) + 1].children = <<>>
        /\ ~Copies(n) => Len(ns) = Len(nodes)
    <3>1. CASE Copies(n)
      <4> DEFINE r == ShallowCopied(nodes, n)
      <4>1. r \in NodeRecord /\ r.id = nodes[n].id /\ r.children = <<>> /\ r.cont = nodes[n].cont
        BY <2>3
      <4> HIDE DEF r
      <4>2. /\ Append(nodes, r) \in Seq(NodeRecord) /\ Len(Append(nodes, r)) = Len(nodes) + 1
            /\ Append(nodes, r)[Len(nodes) + 1] = r
            /\ \A k \in 1..Len(nodes) : Append(nodes, r)[k] = nodes[k]
        BY <4>1, AppendProperties
      <4>3. ns = Append(nodes, r) /\ m = Len(nodes) + 1 /\ Len(nodes) \in Nat
        BY <1>1, <3>1 DEF r
      <4> HIDE DEF ns, m
      <4> QED
        BY <3>1, <4>1, <4>2, <4>3
    <3>2. CASE ~Copies(n)
      BY <1>1, <3>2
    <3> QED
      BY <3>1, <3>2
  <2> HIDE DEF ns, m, c
  <2>5. c \in 1..Len(ns) /\ cs \in Seq(Nat)
    <3>1. c \in 1..Len(ns)
      BY <2>4 DEF c
    <3>2. ns[c].children \in Seq(Nat)
      BY <2>4, <3>1, NodeFields
    <3> QED
      <4>1. m \in Nat
        BY <2>4
      <4> QED
        BY <3>1, <3>2, <4>1, AppendProperties
  <2> HIDE DEF cs
  <2> DEFINE new == AddedTo(ns, c, cs, m)
  <2>6. /\ new \in Seq(NodeRecord) /\ Len(new) = Len(ns)
        /\ new[c].children = cs /\ new[m].parent = c
        /\ \A k \in 1..Len(ns) :
              /\ new[k].cont = ns[k].cont /\ new[k].id = ns[k].id
              /\ k # m => new[k].parent = ns[k].parent
              /\ k # c => new[k].children = ns[k].children
              /\ k \notin {c, m} => new[k] = ns[k]
    <3>1. ns \in Seq(NodeRecord) /\ m \in 1..Len(ns)
      BY <2>4
    <3>2. OneAdded(ns, c, cs, m, new)
      BY <2>5, <3>1, AddedFacts
    <3> HIDE DEF new
    <3> QED
      BY <3>2 DEF OneAdded
  <2>7. nodes' = new
    BY <2>1
  <2> HIDE DEF new
  <2>8. \A k \in 1..Len(nodes) : k \in 1..Len(ns)
    BY <2>4
  <2>9. nodes'[c].children = Append(nodes[c].children, m)
    <3>1. ns[c] = nodes[c]
      BY <2>4 DEF c
    <3> QED
      BY <2>6, <2>7, <3>1 DEF cs
  <2>10. Copies(n) => /\ Len(nodes') = Len(nodes) + 1
                      /\ nodes'[Len(nodes) + 1].children = <<>>
    <3> SUFFICES ASSUME Copies(n)
                 PROVE  /\ Len(nodes') = Len(nodes) + 1
                        /\ nodes'[Len(nodes) + 1].children = <<>>
      OBVIOUS
    <3> DEFINE k == Len(nodes) + 1
    <3>1. Len(ns) = k /\ ns[k].children = <<>> /\ k \in 1..Len(ns) /\ k # c
      BY <2>4 DEF c
    <3> QED
      BY <2>6, <2>7, <3>1
  <2> QED
    BY <1>1, <1>3, <2>1, <2>4, <2>6, <2>7, <2>8, <2>9, <2>10 DEF m, c
<1> QED
  BY <1>2, <1>3

-----------------------------------------------------------------------------
(* The inductive invariant.                                                *)

(* The nodes: those of the source keep what they hold until something      *)
(* undefined happens, and all of it if they know their parents; those of   *)
(* another tree then have none of the source among their children.         *)
NodesInv ==
    /\ source \in Sources
    /\ nodes \in Seq(NodeRecord) /\ Len(source) <= Len(nodes)
    /\ alive = DOMAIN nodes
    /\ root \in {1, Len(source) + 1} /\ root <= Len(nodes)
    /\ listed = {n \in 2..Len(source) : source[n].parent = Null}
    /\ \A c \in 1..Len(source) : nodes[c].cont = source[c].cont /\ nodes[c].id = source[c].id
    /\ phase # "undefined" =>
          \A c \in 1..Len(source) : nodes[c].children = source[c].children
    /\ listed = {} /\ (root = 1 => switched.open = 0) =>
          \A c \in 1..Len(source) : nodes[c] = source[c]
    /\ listed = {} /\ root # 1 =>
          \A c \in (Len(source) + 1)..Len(nodes) :
              nodes[c].children \in Seq((Len(source) + 1)..Len(nodes))

(* The loops of subtree_to_sink over a tree: a path down from the root,    *)
(* each loop just behind the container of the next.                        *)
Path(w, src) ==
    /\ w \in Seq(WalkRecord) /\ w # <<>>
    /\ w[1].cont = 1
    /\ \A i \in 1..Len(w) :
          /\ w[i].cont \in 1..Len(src)
          /\ w[i].at \in 1..(Len(src[w[i].cont].children) + 1)
    /\ \A i \in 1..(Len(w) - 1) : w[i].at > 1
    /\ \A i, j \in 1..Len(w) : i < j => w[i].cont < w[j].cont

(* What has been announced is what the loops are in, and a loop that is in *)
(* a container has not yet sent it as a whole.                             *)
Announcing(os, w, src) ==
    /\ os \in Seq(OpenRecord) /\ Len(os) = Len(w) - 1
    /\ \A i \in 1..Len(os) :
          /\ os[i].id = w[i + 1].cont
          /\ os[i].count = Len(src[w[i + 1].cont].children)
          /\ os[i].children = IF i = Len(os) THEN w[i + 1].at - 1 ELSE w[i + 1].at - 2

(* The walk w but for the loop it is in, which has stepped on.             *)
SteppedOn(w, t) ==
    /\ t \in Seq(WalkRecord) /\ t # <<>> /\ Len(t) = Len(w)
    /\ t[Len(w)].cont = w[Len(w)].cont /\ t[Len(w)].at = w[Len(w)].at + 1
    /\ \A i \in 1..(Len(w) - 1) : t[i] = w[i]

-----------------------------------------------------------------------------
(* Walks.                                                                  *)

LEMMA SteppedFacts ==
    ASSUME NEW w \in Seq(WalkRecord), w # <<>>,
           NEW t, t = [w EXCEPT ![Len(w)].at = @ + 1]
    PROVE  SteppedOn(w, t)
<1> DEFINE n == Len(w)
           e == [w[n] EXCEPT !.at = w[n].at + 1]
<1>1. n \in Nat \ {0} /\ n \in DOMAIN w /\ w[n] \in WalkRecord
  BY LastFacts
<1>2. e \in WalkRecord /\ e.cont = w[n].cont /\ e.at = w[n].at + 1
  BY <1>1 DEF WalkRecord
<1>3. t = [w EXCEPT ![n] = e]
  OBVIOUS
<1> HIDE DEF e
<1>4. t \in Seq(WalkRecord) /\ t # <<>> /\ SameBelow(w, t) /\ Last(t) = e
  BY <1>2, <1>3, LastReplaced
<1>5. t[n] = e
  BY <1>4 DEF Last, SameBelow
<1> QED
  BY <1>2, <1>4, <1>5 DEF SteppedOn, SameBelow

LEMMA PathFacts ==
    ASSUME NEW w, NEW src, Path(w, src)
    PROVE  /\ w \in Seq(WalkRecord) /\ w # <<>> /\ Len(w) \in Nat \ {0}
           /\ Last(w) = w[Len(w)]
           /\ w[Len(w)].cont \in 1..Len(src)
           /\ w[Len(w)].at \in 1..(Len(src[w[Len(w)].cont].children) + 1)
<1>1. w \in Seq(WalkRecord) /\ w # <<>>
  BY DEF Path
<1>2. Len(w) \in Nat \ {0}
  BY <1>1, EmptySeq, LenProperties
<1>3. Len(w) \in 1..Len(w)
  BY <1>2
<1> QED
  BY <1>1, <1>2, <1>3 DEF Path, Last

LEMMA PathStepped ==
    ASSUME NEW w, NEW src, Path(w, src), NEW t, SteppedOn(w, t),
           Len(src[w[Len(w)].cont].children) \in Nat,
           w[Len(w)].at <= Len(src[w[Len(w)].cont].children)
    PROVE  Path(t, src) /\ t[Len(t)].at > 1
<1> DEFINE n == Len(w)
<1>1. n \in Nat \ {0} /\ w[n].at \in Nat \ {0}
  BY PathFacts
<1>2. /\ t \in Seq(WalkRecord) /\ t # <<>> /\ Len(t) = n
      /\ t[n].cont = w[n].cont /\ t[n].at = w[n].at + 1
      /\ \A i \in 1..(n - 1) : t[i] = w[i]
  BY DEF SteppedOn
<1>3. \A i \in 1..n : t[i].cont = w[i].cont
  BY <1>1, <1>2
<1>4. \A i \in 1..n : /\ w[i].cont \in 1..Len(src)
                      /\ w[i].at \in 1..(Len(src[w[i].cont].children) + 1)
  BY DEF Path
<1>5. /\ w[1].cont = 1
      /\ \A i \in 1..(n - 1) : w[i].at > 1
      /\ \A i, j \in 1..n : i < j => w[i].cont < w[j].cont
  BY DEF Path
<1> HIDE DEF n
<1>6. \A i \in 1..n : t[i].at \in 1..(Len(src[t[i].cont].children) + 1)
  <2> TAKE i \in 1..n
  <2>1. CASE i = n
    BY <1>1, <1>2, <2>1 DEF n
  <2>2. CASE i # n
    <3>1. t[i] = w[i]
      BY <1>1, <1>2, <2>2
    <3>2. w[i].at \in 1..(Len(src[w[i].cont].children) + 1)
      BY <1>4
    <3> QED
      BY <3>1, <3>2
  <2> QED
    BY <2>1, <2>2
<1>7. t[1].cont = 1
  BY <1>1, <1>3, <1>5
<1>8. \A i \in 1..(n - 1) : t[i].at > 1
  BY <1>2, <1>5
<1>9. \A i, j \in 1..n : i < j => t[i].cont < t[j].cont
  BY <1>3, <1>5
<1>10. t[n].at > 1
  BY <1>1, <1>2
<1> QED
  BY <1>2, <1>3, <1>4, <1>6, <1>7, <1>8, <1>9, <1>10 DEF Path

LEMMA PathEntered ==
    ASSUME NEW t, NEW src, Path(t, src), t[Len(t)].at > 1, Len(src) \in Nat,
           NEW c \in 1..Len(src), c > t[Len(t)].cont, Len(src[c].children) \in Nat
    PROVE  Path(Append(t, [cont |-> c, at |-> 1]), src)
<1> DEFINE n == Len(t)
           e == [cont |-> c, at |-> 1]
           u == Append(t, e)
<1>1. /\ n \in Nat \ {0} /\ t \in Seq(WalkRecord)
      /\ t[n].at > 1 /\ c > t[n].cont /\ t[n].cont \in Nat
  BY PathFacts
<1>2. e \in WalkRecord /\ e.cont = c /\ e.at = 1
  BY DEF WalkRecord
<1> HIDE DEF e
<1>3. /\ u \in Seq(WalkRecord) /\ Len(u) = n + 1 /\ u[n + 1] = e
      /\ \A i \in 1..n : u[i] = t[i]
  BY <1>1, <1>2, AppendProperties
<1>4. /\ t[1].cont = 1
      /\ \A i \in 1..n : /\ t[i].cont \in 1..Len(src)
                         /\ t[i].at \in 1..(Len(src[t[i].cont].children) + 1)
      /\ \A i \in 1..(n - 1) : t[i].at > 1
      /\ \A i, j \in 1..n : i < j => t[i].cont < t[j].cont
  BY DEF Path
<1> HIDE DEF n, u
<1>5. u # <<>>
  BY <1>1, <1>3, EmptySeq
<1>6. \A i \in 1..(n + 1) : /\ u[i].cont \in 1..Len(src)
                            /\ u[i].at \in 1..(Len(src[u[i].cont].children) + 1)
  <2> TAKE i \in 1..(n + 1)
  <2>1. CASE i = n + 1
    BY <1>2, <1>3, <2>1
  <2>2. CASE i \in 1..n
    BY <1>3, <1>4, <2>2
  <2> QED
    BY <1>1, <2>1, <2>2
<1>7. \A i \in 1..n : u[i].at > 1
  <2> TAKE i \in 1..n
  <2>1. i \in 1..(n - 1) \/ i = n
    BY <1>1
  <2> QED
    BY <1>1, <1>3, <1>4, <2>1
<1>8. \A i, j \in 1..(n + 1) : i < j => u[i].cont < u[j].cont
  <2> TAKE i, j \in 1..(n + 1)
  <2>1. i \in 1..n => t[i].cont <= t[n].cont
    <3>1. n \in 1..n /\ (i \in 1..n => i < n \/ i = n)
      BY <1>1
    <3>2. \A k \in 1..n : t[k].cont \in Int
      BY <1>4
    <3>3. \A k, m \in 1..n : k < m => t[k].cont < t[m].cont
      BY <1>4
    <3>4. CASE i = n
      BY <3>1, <3>2, <3>4
    <3>5. CASE i \in 1..n /\ i < n
      <4>1. t[i].cont < t[n].cont /\ t[i].cont \in Int /\ t[n].cont \in Int
        BY <3>1, <3>2, <3>3, <3>5
      <4> QED
        BY <4>1
    <3> QED
      BY <3>1, <3>4, <3>5
  <2>2. CASE i < j /\ j = n + 1
    <3>1. i \in 1..n
      BY <1>1, <2>2
    <3>2. u[i] = t[i] /\ u[j] = e
      BY <1>3, <2>2, <3>1
    <3>3. t[i].cont \in Nat /\ t[n].cont \in Nat /\ c \in Nat
      BY <1>1, <1>4, <3>1
    <3>4. t[i].cont <= t[n].cont /\ t[n].cont < c
      BY <1>1, <2>1, <3>1
    <3>5. t[i].cont < c
      BY <3>3, <3>4
    <3> QED
      BY <1>2, <3>2, <3>5
  <2>3. CASE i < j /\ j # n + 1
    <3>1. i \in 1..n /\ j \in 1..n
      BY <1>1, <2>3
    <3> QED
      BY <1>3, <1>4, <2>3, <3>1
  <2> QED
    BY <2>2, <2>3
<1>9. n = (n + 1) - 1 /\ 1 \in 1..n
  BY <1>1
<1> QED
  <2>1. Path(u, src)
    BY <1>3, <1>4, <1>5, <1>6, <1>7, <1>8, <1>9 DEF Path
  <2> QED
    BY <2>1 DEF u, e

LEMMA PathLeft ==
    ASSUME NEW w, NEW src, Path(w, src), Len(w) > 1
    PROVE  Path(Front(w), src)
<1> DEFINE n == Len(w)
           v == Front(w)
<1>1. n \in Nat /\ n > 1 /\ w \in Seq(WalkRecord) /\ w # <<>>
  BY PathFacts
<1>2. /\ v \in Seq(WalkRecord) /\ Len(v) = n - 1
      /\ \A i \in 1..(n - 1) : v[i] = w[i]
  BY <1>1, FrontFacts
<1>3. /\ w[1].cont = 1
      /\ \A i \in 1..n : /\ w[i].cont \in 1..Len(src)
                         /\ w[i].at \in 1..(Len(src[w[i].cont].children) + 1)
      /\ \A i \in 1..(n - 1) : w[i].at > 1
      /\ \A i, j \in 1..n : i < j => w[i].cont < w[j].cont
  BY DEF Path
<1> HIDE DEF n, v
<1>4. v # <<>> /\ 1 \in 1..(n - 1)
  BY <1>1, <1>2, EmptySeq
<1>5. \A i \in 1..(n - 1) : i \in 1..n
  BY <1>1
<1>6. \A i \in 1..(Len(v) - 1) : i \in 1..(n - 1)
  BY <1>1, <1>2
<1> QED
  BY <1>2, <1>3, <1>4, <1>5, <1>6 DEF Path, v

-----------------------------------------------------------------------------
(* What has been announced.                                                *)

LEMMA OneMore ==
    ASSUME NEW r \in OpenRecord, NEW e, e = [r EXCEPT !.children = r.children + 1]
    PROVE  /\ e \in OpenRecord /\ e.id = r.id /\ e.count = r.count
           /\ e.children = r.children + 1
BY DEF OpenRecord

LEMMA ChildSentFacts ==
    ASSUME NEW os \in Seq(OpenRecord), os # <<>>
    PROVE  LET s == ChildSent(os)
               n == Len(os)
           IN  /\ s \in Seq(OpenRecord) /\ s # <<>> /\ Len(s) = n
               /\ s[n].id = os[n].id /\ s[n].count = os[n].count
               /\ s[n].children = os[n].children + 1
               /\ \A i \in 1..(n - 1) : s[i] = os[i]
<1> DEFINE n == Len(os)
           e == [os[n] EXCEPT !.children = os[n].children + 1]
           s == ChildSent(os)
<1>1. n \in Nat \ {0} /\ os[n] \in OpenRecord
  BY LastFacts
<1>2. /\ e \in OpenRecord /\ e.id = os[n].id /\ e.count = os[n].count
      /\ e.children = os[n].children + 1
  <2>1. e = [os[n] EXCEPT !.children = os[n].children + 1]
    OBVIOUS
  <2> HIDE DEF e
  <2> QED
    BY <1>1, <2>1, OneMore
<1>3. s = [os EXCEPT ![Len(os)] = e]
  BY DEF ChildSent
<1> HIDE DEF e
<1>4. /\ s \in Seq(OpenRecord) /\ Len(s) = n
      /\ \A i \in 1..n : s[i] = IF i = n THEN e ELSE os[i]
  BY <1>1, <1>2, <1>3
<1> HIDE DEF n, s
<1>5. n \in 1..n /\ s # <<>>
  BY <1>1, <1>4, EmptySeq
<1>6. s[n] = e /\ \A i \in 1..(n - 1) : s[i] = os[i]
  BY <1>1, <1>4
<1> QED
  BY <1>2, <1>4, <1>5, <1>6 DEF s, n

LEMMA AnnouncingStepped ==
    ASSUME NEW w, NEW src, Path(w, src), NEW os, Announcing(os, w, src),
           NEW t, SteppedOn(w, t)
    PROVE  Announcing(ChildSent(os), t, src)
<1> DEFINE n == Len(w)
           s == ChildSent(os)
<1>1. n \in Nat \ {0} /\ w[n].at \in Nat
  BY PathFacts
<1>2. /\ Len(t) = n /\ t[n].cont = w[n].cont /\ t[n].at = w[n].at + 1
      /\ \A i \in 1..(n - 1) : t[i] = w[i]
  BY DEF SteppedOn
<1>3. /\ os \in Seq(OpenRecord) /\ Len(os) = n - 1
      /\ \A i \in 1..(n - 1) :
            /\ os[i].id = w[i + 1].cont
            /\ os[i].count = Len(src[w[i + 1].cont].children)
            /\ os[i].children = IF i = n - 1 THEN w[i + 1].at - 1 ELSE w[i + 1].at - 2
  BY DEF Announcing
<1> HIDE DEF n
<1>4. CASE os = <<>>
  <2>1. n = 1 /\ ChildSent(os) = os
    BY <1>1, <1>3, <1>4, EmptySeq DEF ChildSent
  <2> QED
    BY <1>2, <1>3, <2>1 DEF Announcing
<1>5. CASE os # <<>>
  <2>1. /\ s \in Seq(OpenRecord) /\ Len(s) = n - 1
        /\ s[n - 1].id = os[n - 1].id /\ s[n - 1].count = os[n - 1].count
        /\ s[n - 1].children = os[n - 1].children + 1
        /\ \A i \in 1..(n - 2) : s[i] = os[i]
    <3> DEFINE k == Len(os)
    <3>1. k = n - 1 /\ k - 1 = n - 2 /\ os \in Seq(OpenRecord)
      BY <1>1, <1>3
    <3>2. /\ s \in Seq(OpenRecord) /\ Len(s) = k
          /\ s[k].id = os[k].id /\ s[k].count = os[k].count
          /\ s[k].children = os[k].children + 1
          /\ \A i \in 1..(k - 1) : s[i] = os[i]
      BY <1>5, <3>1, ChildSentFacts
    <3> HIDE DEF k, s
    <3> QED
      BY <3>1, <3>2
  <2>2. n - 1 \in 1..(n - 1)
    BY <1>1, <1>3, <1>5, LastFacts
  <2> HIDE DEF s
  <2>3. ASSUME NEW i \in 1..(n - 1)
        PROVE  /\ s[i].id = t[i + 1].cont
               /\ s[i].count = Len(src[t[i + 1].cont].children)
               /\ s[i].children = IF i = n - 1 THEN t[i + 1].at - 1 ELSE t[i + 1].at - 2
    <3>1. CASE i = n - 1
      <4>1. i + 1 = n
        BY <1>1, <3>1
      <4>2. /\ os[i].id = w[n].cont /\ os[i].children = w[n].at - 1
            /\ os[i].count = Len(src[w[n].cont].children)
        BY <1>3, <3>1, <4>1
      <4> QED
        BY <1>1, <1>2, <2>1, <3>1, <4>1, <4>2
    <3>2. CASE i # n - 1
      <4>1. i \in 1..(n - 2) /\ i + 1 \in 1..(n - 1)
        BY <1>1, <3>2
      <4>2. s[i] = os[i] /\ t[i + 1] = w[i + 1]
        BY <1>2, <2>1, <4>1
      <4> QED
        BY <1>3, <3>2, <4>2
    <3> QED
      BY <3>1, <3>2
  <2> QED
    BY <1>2, <2>1, <2>3 DEF Announcing, s
<1> QED
  BY <1>4, <1>5

LEMMA AnnouncingEntered ==
    ASSUME NEW w, NEW src, Path(w, src), NEW os, Announcing(os, w, src),
           NEW t, SteppedOn(w, t), NEW c \in Nat, Len(src[c].children) \in Nat
    PROVE  Announcing(Append(os, [id |-> c, count |-> Len(src[c].children), children |-> 0]),
                      Append(t, [cont |-> c, at |-> 1]), src)
<1> DEFINE n == Len(w)
           e == [cont |-> c, at |-> 1]
           u == Append(t, e)
           o == [id |-> c, count |-> Len(src[c].children), children |-> 0]
           s == Append(os, o)
<1>1. n \in Nat \ {0} /\ w[n].at \in Nat
  BY PathFacts
<1>2. /\ t \in Seq(WalkRecord) /\ Len(t) = n
      /\ t[n].cont = w[n].cont /\ t[n].at = w[n].at + 1
      /\ \A i \in 1..(n - 1) : t[i] = w[i]
  BY DEF SteppedOn
<1>3. /\ os \in Seq(OpenRecord) /\ Len(os) = n - 1
      /\ \A i \in 1..(n - 1) :
            /\ os[i].id = w[i + 1].cont
            /\ os[i].count = Len(src[w[i + 1].cont].children)
            /\ os[i].children = IF i = n - 1 THEN w[i + 1].at - 1 ELSE w[i + 1].at - 2
  BY DEF Announcing
<1>4. e \in WalkRecord /\ e.cont = c /\ e.at = 1
  BY DEF WalkRecord
<1>5. /\ o \in OpenRecord /\ o.id = c /\ o.count = Len(src[c].children)
      /\ o.children = 0
  BY DEF OpenRecord
<1> HIDE DEF n, e, o
<1>6. /\ Len(u) = n + 1 /\ u[n + 1] = e
      /\ \A i \in 1..n : u[i] = t[i]
  BY <1>2, <1>4, AppendProperties
<1>7. /\ s \in Seq(OpenRecord) /\ Len(s) = n /\ s[n] = o
      /\ \A i \in 1..(n - 1) : s[i] = os[i]
  <2>1. (n - 1) + 1 = n
    BY <1>1
  <2> QED
    BY <1>3, <1>5, <2>1, AppendProperties
<1> HIDE DEF u, s
<1>8. ASSUME NEW i \in 1..n
      PROVE  /\ s[i].id = u[i + 1].cont
             /\ s[i].count = Len(src[u[i + 1].cont].children)
             /\ s[i].children = IF i = n THEN u[i + 1].at - 1 ELSE u[i + 1].at - 2
  <2>1. CASE i = n
    BY <1>4, <1>5, <1>6, <1>7, <2>1
  <2>2. CASE i = n - 1
    <3>1. i + 1 = n /\ i \in 1..(n - 1) /\ i + 1 \in 1..n /\ i # n
      BY <1>1, <2>2
    <3>2. s[i] = os[i] /\ u[i + 1] = t[n]
      BY <1>6, <1>7, <3>1
    <3>3. /\ os[i].id = w[n].cont /\ os[i].children = w[n].at - 1
          /\ os[i].count = Len(src[w[n].cont].children)
      BY <1>3, <2>2, <3>1
    <3> QED
      BY <1>1, <1>2, <3>1, <3>2, <3>3
  <2>3. CASE i # n /\ i # n - 1
    <3>1. i \in 1..(n - 1) /\ i + 1 \in 1..(n - 1) /\ i + 1 \in 1..n
      BY <1>1, <2>3
    <3>2. s[i] = os[i] /\ u[i + 1] = w[i + 1]
      BY <1>2, <1>6, <1>7, <3>1
    <3> QED
      BY <1>3, <2>3, <3>1, <3>2
  <2> QED
    BY <2>1, <2>2, <2>3
<1>9. (n + 1) - 1 = n
  BY <1>1
<1>10. Announcing(s, u, src)
  BY <1>6, <1>7, <1>8, <1>9 DEF Announcing
<1> QED
  BY <1>10 DEF s, u, o, e

LEMMA AnnouncingLeft ==
    ASSUME NEW w, NEW src, Path(w, src), NEW os, Announcing(os, w, src), Len(w) > 1
    PROVE  /\ Announcing(ChildSent(Front(os)), Front(w), src)
           /\ os # <<>> /\ Len(ChildSent(Front(os))) = Len(os) - 1
<1> DEFINE n == Len(w)
           v == Front(w)
           f == Front(os)
           s == ChildSent(f)
<1>1. n \in Nat /\ n > 1 /\ w \in Seq(WalkRecord) /\ w # <<>>
  BY PathFacts
<1>2. Len(v) = n - 1 /\ \A i \in 1..(n - 1) : v[i] = w[i]
  BY <1>1, FrontFacts
<1>3. /\ os \in Seq(OpenRecord) /\ Len(os) = n - 1
      /\ \A i \in 1..(n - 1) :
            /\ os[i].id = w[i + 1].cont
            /\ os[i].count = Len(src[w[i + 1].cont].children)
            /\ os[i].children = IF i = n - 1 THEN w[i + 1].at - 1 ELSE w[i + 1].at - 2
  BY DEF Announcing
<1>4. \A i \in 1..n : w[i].at \in Nat
  BY DEF Path
<1> HIDE DEF n
<1>5. os # <<>>
  BY <1>1, <1>3, EmptySeq
<1>6. /\ f \in Seq(OpenRecord) /\ Len(f) = n - 2
      /\ \A i \in 1..(n - 2) : f[i] = os[i]
  <2> DEFINE k == Len(os)
  <2>1. k - 1 = n - 2 /\ os \in Seq(OpenRecord)
    BY <1>1, <1>3
  <2>2. f \in Seq(OpenRecord) /\ Len(f) = k - 1 /\ \A i \in 1..(k - 1) : f[i] = os[i]
    BY <1>5, <2>1, FrontFacts
  <2> HIDE DEF k, f
  <2> QED
    BY <2>1, <2>2
<1> HIDE DEF v, f
<1>7. CASE f = <<>>
  <2>1. n = 2 /\ s = f
    BY <1>1, <1>6, <1>7, EmptySeq DEF ChildSent
  <2>2. Announcing(s, v, src)
    BY <1>2, <1>6, <2>1 DEF Announcing
  <2> QED
    BY <1>3, <1>5, <1>6, <2>1, <2>2 DEF v, f
<1>8. CASE f # <<>>
  <2>1. /\ s \in Seq(OpenRecord) /\ Len(s) = n - 2
        /\ s[n - 2].id = f[n - 2].id /\ s[n - 2].count = f[n - 2].count
        /\ s[n - 2].children = f[n - 2].children + 1
        /\ \A i \in 1..(n - 3) : s[i] = f[i]
    <3> DEFINE k == Len(f)
    <3>1. k = n - 2 /\ k - 1 = n - 3
      BY <1>1, <1>6
    <3>2. /\ s \in Seq(OpenRecord) /\ Len(s) = k
          /\ s[k].id = f[k].id /\ s[k].count = f[k].count
          /\ s[k].children = f[k].children + 1
          /\ \A i \in 1..(k - 1) : s[i] = f[i]
      BY <1>6, <1>8, ChildSentFacts
    <3> HIDE DEF k, s
    <3> QED
      BY <3>1, <3>2
  <2>2. n - 2 \in 1..(n - 2)
    BY <1>1, <1>6, <1>8, LastFacts
  <2> HIDE DEF s
  <2>3. ASSUME NEW i \in 1..(n - 2)
        PROVE  /\ s[i].id = v[i + 1].cont
               /\ s[i].count = Len(src[v[i + 1].cont].children)
               /\ s[i].children = IF i = n - 2 THEN v[i + 1].at - 1 ELSE v[i + 1].at - 2
    <3>1. /\ i \in 1..(n - 1) /\ i + 1 \in 1..(n - 1) /\ i + 1 \in 1..n
          /\ i # n - 1
      BY <1>1
    <3>2. v[i + 1] = w[i + 1] /\ f[i] = os[i]
      BY <1>2, <1>6, <3>1
    <3>3. /\ f[i].id = v[i + 1].cont /\ f[i].children = v[i + 1].at - 2
          /\ f[i].count = Len(src[v[i + 1].cont].children)
          /\ v[i + 1].at \in Nat
      BY <1>3, <1>4, <3>1, <3>2
    <3>4. CASE i = n - 2
      BY <2>1, <3>3, <3>4
    <3>5. CASE i # n - 2
      <4>1. i \in 1..(n - 3)
        BY <1>1, <3>5
      <4> QED
        BY <2>1, <3>3, <3>5, <4>1
    <3> QED
      BY <3>4, <3>5
  <2>4. (n - 1) - 1 = n - 2
    BY <1>1
  <2>5. Announcing(s, v, src)
    BY <1>2, <2>1, <2>3, <2>4 DEF Announcing
  <2> QED
    BY <1>3, <1>5, <2>1, <2>4, <2>5 DEF s, v, f
<1> QED
  BY <1>7, <1>8

-----------------------------------------------------------------------------
(* The sinks.                                                              *)

Chains == {<<"tree">>, <<"user">>, <<"user", "tree">>}

(* The containers a ToTree has open are those the loops are in, from where *)
(* the chain has switched to it: the nodes of the source themselves or     *)
(* copies of them with the same id.  Where the nodes know their parents,   *)
(* a ToTree with a tree of its own holds copies only, and one that adds to *)
(* the tree that is streamed just those nodes.                             *)
TreeInv ==
    /\ stack \in Seq(Nat) /\ stack # <<>>
    /\ Len(stack) + switched.open = Len(walk)
    /\ stack[1] = root
    /\ \A i \in 2..Len(stack) :
          /\ stack[i] \in 1..Len(nodes)
          /\ nodes[stack[i]].id = source[walk[switched.open + i].cont].id
          /\ stack[i] > Len(source) \/ stack[i] = walk[switched.open + i].cont
          /\ listed = {} /\ root # 1 => stack[i] > Len(source)
          /\ listed = {} /\ root = 1 /\ switched.open = 0 => stack[i] = walk[i].cont

(* A nested sink has open what was announced from where it was nested.     *)
UserInv ==
    /\ stack = <<root>> /\ switched.open = 0
    /\ within \in 0..Len(open)
    /\ depth = IF within = 0 THEN 0 ELSE Len(open) - within + 1
    /\ outer = IF within = 0 THEN Len(open) ELSE within
    /\ nested = IF within = 0 THEN 0 ELSE Len(open) - within

WalkInv == Path(walk, source) /\ Announcing(open, walk, source)

SinksInv ==
    /\ chain \in Chains /\ switched.open \in Nat
    /\ CurrentSink = "tree" => TreeInv
    /\ CurrentSink = "user" => UserInv

StreamInv ==
    /\ NodesInv
    /\ phase = "live" => WalkInv /\ SinksInv
    /\ DefinedWhenBalanced

-----------------------------------------------------------------------------
(* The tree that is streamed.                                              *)

LEMMA SourceFacts ==
    ASSUME NEW src \in Sources
    PROVE  /\ src \in Seq(NodeRecord) /\ Len(src) \in Nat \ {0} /\ Len(src) <= MaxNodes
           /\ \A c \in 1..Len(src) :
                 /\ src[c].children \in Seq(Nat) /\ Len(src[c].children) \in 0..MaxChildren
                 /\ \A i \in 1..Len(src[c].children) :
                       LET n == src[c].children[i] IN
                       n \in (c + 1)..Len(src) /\ src[n].parent \in {Null, c}
<1> DEFINE Typed == [cont: BOOLEAN, id: Ids, parent: 0..MaxNodes,
                     children: Seq(1..MaxNodes), table: Seq(1..MaxNodes)]
<1>1. /\ src \in Seq(Typed) /\ Len(src) \in 1..MaxNodes
      /\ \A c \in DOMAIN src :
            /\ Len(src[c].children) <= MaxChildren
            /\ \A i \in DOMAIN src[c].children :
                  LET n == src[c].children[i] IN
                  n \in (c + 1)..Len(src) /\ src[n].parent \in {Null, c}
  BY SourcesAssumption
<1>2. MaxNodes \in Nat /\ MaxChildren \in Nat
  BY NodeTreeAssumption
<1>3. \A r \in Typed : r \in NodeRecord
  <2>1. \A q \in Seq(1..MaxNodes) : q \in Seq(Nat)
    BY <1>2, SeqMonotonic
  <2> QED
    BY <1>2, <2>1 DEF NodeRecord
<1> HIDE DEF Typed
<1>4. src \in Seq(NodeRecord) /\ DOMAIN src = 1..Len(src)
  BY <1>1, <1>3
<1>5. \A c \in 1..Len(src) : src[c].children \in Seq(Nat)
  BY <1>4, NodeFields
<1>6. \A c \in 1..Len(src) : /\ DOMAIN src[c].children = 1..Len(src[c].children)
                             /\ Len(src[c].children) \in Nat
  BY <1>5
<1>7. ASSUME NEW c \in 1..Len(src)
      PROVE  /\ src[c].children \in Seq(Nat) /\ Len(src[c].children) \in 0..MaxChildren
             /\ \A i \in 1..Len(src[c].children) :
                   LET n == src[c].children[i] IN
                   n \in (c + 1)..Len(src) /\ src[n].parent \in {Null, c}
  <2>1. /\ c \in DOMAIN src /\ DOMAIN src[c].children = 1..Len(src[c].children)
        /\ src[c].children \in Seq(Nat) /\ Len(src[c].children) \in Nat
    BY <1>4, <1>5, <1>6
  <2>2. /\ Len(src[c].children) <= MaxChildren
        /\ \A i \in DOMAIN src[c].children :
              LET n == src[c].children[i] IN
              n \in (c + 1)..Len(src) /\ src[n].parent \in {Null, c}
    BY <1>1, <2>1
  <2>3. Len(src[c].children) \in 0..MaxChildren
    BY <1>2, <2>1, <2>2
  <2> QED
    BY <2>1, <2>2, <2>3
<1>8. Len(src) \in Nat \ {0} /\ Len(src) <= MaxNodes
  BY <1>1, <1>2
<1> QED
  BY <1>4, <1>7, <1>8

(* The child that FromTree sends next comes after everything it is in.     *)
LEMMA ChildFacts ==
    ASSUME NodesInv, phase = "live", Path(walk, source), More
    PROVE  LET c == walk[Len(walk)].cont
               at == walk[Len(walk)].at
           IN  /\ c \in 1..Len(source) /\ at \in Nat \ {0}
               /\ at <= Len(source[c].children) /\ Len(source[c].children) \in Nat
               /\ Child \in 1..Len(source) /\ Child > c /\ Child \in 2..Len(source)
               /\ source[Child].parent \in {Null, c}
               /\ \A i \in 1..Len(walk) : walk[i].cont < Child
<1> DEFINE c == walk[Len(walk)].cont
           at == walk[Len(walk)].at
           n == Len(walk)
<1>1. /\ n \in Nat \ {0} /\ Last(walk) = walk[n]
      /\ c \in 1..Len(source) /\ at \in 1..(Len(source[c].children) + 1)
  BY PathFacts
<1>2. nodes[c].children = source[c].children /\ source \in Sources
  BY <1>1 DEF NodesInv
<1>3. at <= Len(source[c].children) /\ Child = source[c].children[at]
  BY <1>1, <1>2 DEF More, Child, Streaming
<1>4. /\ Len(source) \in Nat \ {0}
      /\ source[c].children \in Seq(Nat) /\ Len(source[c].children) \in Nat
      /\ \A i \in 1..Len(source[c].children) :
            LET m == source[c].children[i] IN
            m \in (c + 1)..Len(source) /\ source[m].parent \in {Null, c}
  <2> DEFINE s == source
  <2>1. s \in Sources /\ c \in 1..Len(s)
    BY <1>1, <1>2
  <2> HIDE DEF c
  <2>2. /\ Len(s) \in Nat \ {0}
        /\ s[c].children \in Seq(Nat) /\ Len(s[c].children) \in 0..MaxChildren
        /\ \A i \in 1..Len(s[c].children) :
              LET m == s[c].children[i] IN
              m \in (c + 1)..Len(s) /\ s[m].parent \in {Null, c}
    BY <2>1, SourceFacts
  <2> QED
    BY <2>2, NodeTreeAssumption
<1>5. at \in 1..Len(source[c].children)
  <2> DEFINE l == Len(source[c].children)
  <2>1. l \in Nat /\ at \in 1..(l + 1) /\ at <= l
    BY <1>1, <1>3, <1>4
  <2> HIDE DEF l, at
  <2>2. at \in 1..l
    BY <2>1
  <2> QED
    BY <2>2 DEF l
<1>6. Child \in (c + 1)..Len(source) /\ source[Child].parent \in {Null, c}
  BY <1>3, <1>4, <1>5
<1>7. \A i \in 1..n : walk[i].cont \in Nat /\ (i < n => walk[i].cont < c)
  BY <1>1 DEF Path
<1> HIDE DEF c, at, n
<1>8. Child \in 1..Len(source) /\ Child > c /\ Child \in 2..Len(source)
  BY <1>1, <1>4, <1>6
<1>9. \A i \in 1..n : walk[i].cont < Child
  <2> TAKE i \in 1..n
  <2>1. i < n \/ i = n
    BY <1>1
  <2>2. CASE i = n
    BY <1>8, <2>2 DEF c, n
  <2>3. CASE i < n
    BY <1>1, <1>4, <1>7, <1>8, <2>3
  <2> QED
    BY <2>1, <2>2, <2>3
<1>10. at \in Nat \ {0} /\ at <= Len(source[c].children)
  BY <1>1, <1>3, <1>4, <1>5
<1> QED
  BY <1>1, <1>4, <1>6, <1>8, <1>9, <1>10 DEF c, at, n

-----------------------------------------------------------------------------
(* What FromTree has announced stays in step with its loops.               *)

LEMMA NodeWalks ==
    ASSUME NodesInv, WalkInv, phase = "live", More,
           walk' = Stepped, open' = ChildSent(open), source' = source
    PROVE  WalkInv' /\ Len(walk') = Len(walk) /\ SteppedOn(walk, walk')
<1>1. Path(walk, source) /\ Announcing(open, walk, source)
  BY DEF WalkInv
<1>2. SteppedOn(walk, walk')
  BY <1>1, SteppedFacts, PathFacts DEF Stepped
<1>3. Path(walk', source) /\ Announcing(open', walk', source)
  BY <1>1, <1>2, ChildFacts, PathStepped, AnnouncingStepped
<1> QED
  BY <1>2, <1>3 DEF WalkInv, SteppedOn

LEMMA StartWalks ==
    ASSUME NodesInv, WalkInv, phase = "live", More,
           walk' = Append(Stepped, [cont |-> Child, at |-> 1]),
           open' = Append(open, Announced(Child)), source' = source
    PROVE  /\ WalkInv' /\ Len(walk') = Len(walk) + 1 /\ Len(open') = Len(open) + 1
           /\ walk'[Len(walk) + 1].cont = Child
           /\ \A i \in 1..Len(walk) : walk'[i].cont = walk[i].cont
<1> DEFINE t == Stepped
           e == [cont |-> Child, at |-> 1]
<1>1. Path(walk, source) /\ Announcing(open, walk, source)
  BY DEF WalkInv
<1>2. SteppedOn(walk, t)
  BY <1>1, SteppedFacts, PathFacts DEF Stepped
<1>3. /\ Child \in 1..Len(source) /\ Child > walk[Len(walk)].cont
      /\ Len(source[walk[Len(walk)].cont].children) \in Nat
      /\ walk[Len(walk)].at <= Len(source[walk[Len(walk)].cont].children)
  BY <1>1, ChildFacts
<1>4. Path(t, source) /\ t[Len(t)].at > 1
  BY <1>1, <1>2, <1>3, PathStepped
<1>5. /\ Len(source) \in Nat /\ Len(source[Child].children) \in Nat
      /\ nodes[Child].children = source[Child].children
  BY <1>3, SourceFacts DEF NodesInv
<1>6. Len(t) = Len(walk) /\ t[Len(t)].cont = walk[Len(walk)].cont
      /\ t \in Seq(WalkRecord) /\ \A i \in 1..(Len(walk) - 1) : t[i] = walk[i]
  BY <1>2 DEF SteppedOn
<1>7. Path(Append(t, e), source)
  <2>1. Child > t[Len(t)].cont
    BY <1>3, <1>6
  <2> QED
    BY <1>3, <1>4, <1>5, <2>1, PathEntered
<1>8. Announcing(open', Append(t, e), source)
  <2>1. Announced(Child) = [id |-> Child, count |-> Len(source[Child].children), children |-> 0]
    BY <1>5 DEF Announced
  <2>2. Child \in Nat
    BY <1>3
  <2> QED
    BY <1>1, <1>2, <1>5, <2>1, <2>2, AnnouncingEntered
<1>9. WalkInv'
  BY <1>7, <1>8 DEF WalkInv
<1> HIDE DEF t
<1> DEFINE n == Len(walk)
<1>10. n \in Nat \ {0}
  BY <1>1, PathFacts
<1>11. e \in WalkRecord
  BY <1>3 DEF WalkRecord
<1>12. e.cont = Child
  OBVIOUS
<1> HIDE DEF e
<1>13. /\ Len(Append(t, e)) = n + 1 /\ Append(t, e)[n + 1] = e
       /\ \A i \in 1..n : Append(t, e)[i] = t[i]
  BY <1>6, <1>11, AppendProperties
<1>14. walk' = Append(t, e)
  BY DEF t, e
<1>15. \A i \in 1..n : t[i].cont = walk[i].cont
  BY <1>6, <1>10
<1>16. Len(walk') = n + 1 /\ walk'[n + 1].cont = Child
       /\ \A i \in 1..n : walk'[i].cont = walk[i].cont
  BY <1>12, <1>13, <1>14, <1>15
<1>17. Len(open') = Len(open) + 1
  BY <1>1 DEF Announcing
<1> QED
  BY <1>9, <1>16, <1>17

LEMMA EndWalks ==
    ASSUME NodesInv, WalkInv, Len(walk) > 1,
           walk' = Front(walk), open' = ChildSent(Front(open)), source' = source
    PROVE  /\ WalkInv' /\ Len(walk') = Len(walk) - 1
           /\ open # <<>> /\ Len(open) \in Nat \ {0} /\ Len(open') = Len(open) - 1
           /\ \A i \in 1..(Len(walk) - 1) : walk'[i] = walk[i]
<1>1. Path(walk, source) /\ Announcing(open, walk, source)
  BY DEF WalkInv
<1>2. Path(walk', source)
  BY <1>1, PathLeft
<1>3. Announcing(open', walk', source) /\ open # <<>> /\ Len(open') = Len(open) - 1
  BY <1>1, AnnouncingLeft
<1>4. Len(walk') = Len(walk) - 1 /\ \A i \in 1..(Len(walk) - 1) : walk'[i] = walk[i]
  BY <1>1, PathFacts, FrontFacts
<1>5. Len(open) \in Nat \ {0}
  BY <1>1, <1>3, LastFacts DEF Announcing
<1> QED
  BY <1>2, <1>3, <1>4, <1>5 DEF WalkInv

-----------------------------------------------------------------------------
(* What the sinks do with what they are told.                              *)

(* The container ToTree adds to: it has it, and if it is of the source     *)
(* then one of the loops is in it.                                         *)
LEMMA CurrParentFacts ==
    ASSUME NodesInv, Path(walk, source), TreeInv, switched.open \in Nat
    PROVE  /\ Len(stack) \in Nat \ {0} /\ CurrParent = stack[Len(stack)]
           /\ CurrParent \in 1..Len(nodes)
           /\ CurrParent <= Len(source) => \E i \in 1..Len(walk) : walk[i].cont = CurrParent
           /\ listed = {} /\ root # 1 => CurrParent > Len(source)
           /\ listed = {} /\ root = 1 /\ switched.open = 0 =>
                 CurrParent = walk[Len(walk)].cont
<1> DEFINE n == Len(stack)
           o == switched.open
           m == Len(walk)
<1>1. n \in Nat \ {0} /\ CurrParent = stack[n]
  BY EmptySeq, LenProperties DEF TreeInv, CurrParent, Last
<1>2. /\ m = n + o /\ o \in Nat /\ stack[1] = root
      /\ \A i \in 2..n :
            /\ stack[i] \in 1..Len(nodes)
            /\ stack[i] > Len(source) \/ stack[i] = walk[o + i].cont
            /\ listed = {} /\ root # 1 => stack[i] > Len(source)
            /\ listed = {} /\ root = 1 /\ o = 0 => stack[i] = walk[i].cont
  BY DEF TreeInv
<1>3. /\ Len(source) \in Nat \ {0} /\ Len(nodes) \in Nat
      /\ root \in {1, Len(source) + 1} /\ root <= Len(nodes)
  BY SourceFacts DEF NodesInv
<1>4. walk[1].cont = 1
  BY DEF Path
<1> HIDE DEF n, o, m
<1>5. CASE n = 1
  <2>1. CurrParent = root /\ 1 \in 1..m /\ (o = 0 => m = 1)
    BY <1>1, <1>2, <1>5
  <2>2. \E i \in 1..m : walk[i].cont = 1
    BY <1>4, <2>1
  <2>3. CurrParent \in 1..Len(nodes)
    BY <1>3, <2>1
  <2> QED
    BY <1>1, <1>2, <1>3, <1>4, <2>1, <2>2, <2>3 DEF n, o, m
<1>6. CASE n # 1
  <2>1. n \in 2..n /\ o + n \in 1..m /\ (o = 0 => m = n)
    BY <1>1, <1>2, <1>6
  <2>2. /\ CurrParent \in 1..Len(nodes)
        /\ CurrParent > Len(source) \/ CurrParent = walk[o + n].cont
        /\ listed = {} /\ root # 1 => CurrParent > Len(source)
        /\ listed = {} /\ root = 1 /\ o = 0 => CurrParent = walk[n].cont
    BY <1>1, <1>2, <2>1
  <2>3. CurrParent <= Len(source) => CurrParent = walk[o + n].cont
    BY <1>3, <2>2
  <2> QED
    BY <1>1, <2>1, <2>2, <2>3 DEF n, o, m
<1> QED
  BY <1>5, <1>6

(* Whether the nodes know their parents decides which nodes are copied.    *)
LEMMA KnownChild ==
    ASSUME NodesInv, phase = "live", Path(walk, source), More, listed = {},
           root = 1 => switched.open = 0
    PROVE  ParentOf(Child) = walk[Len(walk)].cont
<1> DEFINE c == walk[Len(walk)].cont
<1>1. /\ Child \in 2..Len(source) /\ Child \in 1..Len(source) /\ c \in 1..Len(source)
      /\ source[Child].parent \in {Null, c}
  BY ChildFacts
<1>2. /\ nodes[Child] = source[Child] /\ alive = DOMAIN nodes
      /\ nodes \in Seq(NodeRecord) /\ Len(source) <= Len(nodes)
      /\ listed = {k \in 2..Len(source) : source[k].parent = Null}
  BY <1>1 DEF NodesInv
<1>3. Len(source) \in Nat
  BY SourceFacts DEF NodesInv
<1> HIDE DEF c
<1>4. source[Child].parent = c
  BY <1>1, <1>2
<1>5. c \in alive
  BY <1>1, <1>2, <1>3
<1> QED
  BY <1>2, <1>4, <1>5 DEF ParentOf, c

(* The nodes once ToTree has received the next child.                      *)
LEMMA TreeReceives ==
    ASSUME NodesInv, phase = "live", Path(walk, source), More, TreeInv,
           switched.open \in Nat, Receive(Child),
           phase' = IF Invalidates(Child) THEN "undefined" ELSE phase,
           root' = root, source' = source, switched' = switched
    PROVE  /\ NodesInv'
           /\ Received(Child) \in 1..Len(nodes')
           /\ nodes'[Received(Child)].id = source[Child].id
           /\ Received(Child) > Len(source) \/ Received(Child) = Child
           /\ listed' = listed /\ Len(nodes') >= Len(nodes)
           /\ listed = {} /\ root # 1 => Received(Child) > Len(source)
           /\ listed = {} /\ root = 1 /\ switched.open = 0 => Received(Child) = Child
           /\ \A k \in 1..Len(nodes) : nodes'[k].id = nodes[k].id
           /\ phase' = "undefined" => listed # {} \/ switched.open > 0
<1> DEFINE p == CurrParent
           m == Received(Child)
           c == walk[Len(walk)].cont
           len == Len(source)
           kept == listed = {} /\ (root = 1 => switched.open = 0)
<1>1. /\ p \in 1..Len(nodes)
      /\ p <= len => \E i \in 1..Len(walk) : walk[i].cont = p
      /\ listed = {} /\ root # 1 => p > len
      /\ listed = {} /\ root = 1 /\ switched.open = 0 => p = c
  BY CurrParentFacts
<1>2. Child \in 1..len /\ c \in 1..len
  BY ChildFacts
<1>3. /\ len \in Nat \ {0} /\ nodes \in Seq(NodeRecord) /\ len <= Len(nodes)
      /\ alive = DOMAIN nodes /\ Len(nodes) \in Nat
      /\ root \in {1, len + 1} /\ root <= Len(nodes)
      /\ \A k \in 1..len : nodes[k].cont = source[k].cont /\ nodes[k].id = source[k].id
      /\ \A k \in 1..len : nodes[k].children = source[k].children
      /\ kept => \A k \in 1..len : nodes[k] = source[k]
  BY SourceFacts DEF NodesInv
<1> DEFINE apart == listed = {} /\ root # 1
<1>4. apart => \A k \in (len + 1)..Len(nodes) :
                    nodes[k].children \in Seq((len + 1)..Len(nodes))
  BY DEF NodesInv
<1>5. Child \in 1..Len(nodes)
  BY <1>2, <1>3
<1>6. /\ nodes' \in Seq(NodeRecord) /\ Len(nodes') >= Len(nodes)
      /\ alive' = DOMAIN nodes' /\ listed' = listed
      /\ m \in 1..Len(nodes') /\ nodes'[m].id = nodes[Child].id
      /\ m = IF Copies(Child) THEN Len(nodes) + 1 ELSE Child
      /\ ParentOf(Child) = p => nodes' = nodes
      /\ ParentOf(Child) # p => nodes'[p].children = Append(nodes[p].children, m)
      /\ Copies(Child) => /\ Len(nodes') = Len(nodes) + 1
                          /\ nodes'[Len(nodes) + 1].children = <<>>
      /\ \A k \in 1..Len(nodes) :
            /\ nodes'[k].cont = nodes[k].cont /\ nodes'[k].id = nodes[k].id
            /\ k # p => nodes'[k].children = nodes[k].children
            /\ k \notin {p, m} => nodes'[k] = nodes[k]
  BY <1>1, <1>3, <1>5, ReceiveFacts
<1>7. m > len \/ m = Child
  BY <1>3, <1>6
<1>8. Copies(Child) <=> ParentOf(Child) \notin {Null, p}
  BY DEF Copies
<1>9. kept => ParentOf(Child) = c /\ c # Null
  BY <1>2, KnownChild DEF Null
<1>10. Invalidates(Child) <=> ParentOf(Child) # p /\ \E i \in 1..Len(walk) : walk[i].cont = p
  BY DEF Invalidates, Path
<1>11. \A i \in 1..Len(walk) : walk[i].cont \in 1..len
  BY DEF Path
<1>12. Len(nodes') \in Nat
  BY <1>6, LenProperties
<1>13. source' = source /\ source \in Sources /\ root' = root /\ switched' = switched
       /\ listed = {n \in 2..len : source[n].parent = Null}
  BY DEF NodesInv
<1>14. phase' = IF Invalidates(Child) THEN "undefined" ELSE "live"
  OBVIOUS
<1> HIDE DEF p, m, c, len
(* Copies where the nodes know their parents and the tree is another.      *)
<1>15. kept /\ root # 1 => p > len /\ m > len
  BY <1>1, <1>2, <1>3, <1>6, <1>8, <1>9
<1>16. kept /\ root = 1 => ParentOf(Child) = p /\ m = Child
  BY <1>1, <1>6, <1>8, <1>9
<1>17. phase' = "undefined" => ~kept
  <2>1. CASE root # 1
    BY <1>2, <1>3, <1>10, <1>11, <1>14, <1>15, <2>1
  <2>2. CASE root = 1
    BY <1>10, <1>14, <1>16, <2>2
  <2> QED
    BY <2>1, <2>2
<1>18. kept => \A k \in 1..len : nodes'[k] = source[k]
  <2>1. CASE kept /\ root # 1
    <3>1. \A k \in 1..len : k \in 1..Len(nodes) /\ k \notin {p, m}
      BY <1>2, <1>3, <1>15, <2>1
    <3> QED
      BY <1>3, <1>6, <2>1, <3>1
  <2>2. CASE kept /\ root = 1
    BY <1>3, <1>6, <1>16, <2>2
  <2> QED
    BY <2>1, <2>2
<1>19. phase' # "undefined" => \A k \in 1..len : nodes'[k].children = source[k].children
  <2>1. CASE ParentOf(Child) = p
    BY <1>3, <1>6, <2>1
  <2>2. CASE ParentOf(Child) # p /\ phase' # "undefined"
    <3>1. p > len
      BY <1>1, <1>3, <1>10, <1>14, <2>2
    <3>2. \A k \in 1..len : k \in 1..Len(nodes) /\ k # p
      BY <1>3, <3>1
    <3> QED
      BY <1>3, <1>6, <3>2
  <2> QED
    BY <2>1, <2>2
<1>20. \A k \in 1..len : nodes'[k].cont = source[k].cont /\ nodes'[k].id = source[k].id
  <2>1. \A k \in 1..len : k \in 1..Len(nodes)
    BY <1>3
  <2> QED
    BY <1>3, <1>6, <2>1
<1>21. len <= Len(nodes') /\ root <= Len(nodes')
  BY <1>3, <1>6, <1>12
<1>22. ASSUME apart, NEW k \in (len + 1)..Len(nodes')
       PROVE  nodes'[k].children \in Seq((len + 1)..Len(nodes'))
  <2> DEFINE S == (len + 1)..Len(nodes)
             T == (len + 1)..Len(nodes')
             l == Len(nodes)
  <2>1. /\ p \in S /\ ParentOf(Child) # p /\ Copies(Child) /\ m = l + 1
        /\ Len(nodes') = l + 1 /\ l \in Nat /\ len <= l
    BY <1>1, <1>2, <1>3, <1>6, <1>8, <1>9, <1>22
  <2>2. S \subseteq T /\ m \in T
    BY <1>3, <2>1
  <2>3. CASE k = l + 1
    <3>1. nodes'[k].children = <<>>
      BY <1>6, <2>1, <2>3
    <3> QED
      BY <3>1, EmptySeq
  <2>4. CASE k = p
    <3>1. nodes[p].children \in Seq(S)
      BY <1>4, <1>22, <2>1
    <3>2. nodes[p].children \in Seq(T)
      BY <2>2, <3>1, SeqMonotonic
    <3>3. nodes'[p].children = Append(nodes[p].children, m)
      BY <1>6, <2>1
    <3> QED
      BY <2>2, <2>4, <3>2, <3>3, AppendProperties
  <2>5. CASE k # l + 1 /\ k # p
    <3>1. k \in S /\ k \in 1..Len(nodes)
      BY <1>3, <2>1, <2>5
    <3>2. nodes[k].children \in Seq(S) /\ nodes'[k].children = nodes[k].children
      BY <1>4, <1>6, <1>22, <2>5, <3>1
    <3> QED
      BY <2>2, <3>2, SeqMonotonic
  <2> QED
    BY <2>3, <2>4, <2>5
<1>23. NodesInv'
  BY <1>3, <1>6, <1>13, <1>18, <1>19, <1>20, <1>21, <1>22 DEF NodesInv, len
<1>24. nodes'[m].id = source[Child].id
  BY <1>2, <1>3, <1>6
<1>25. phase' = "undefined" => listed # {} \/ switched.open > 0
  BY <1>17
<1> QED
  BY <1>6, <1>7, <1>15, <1>16, <1>24, <1>25, <1>23 DEF m, len

(* A ToTree stays in step when it is sent a node, ...                      *)
LEMMA NodeKeepsTree ==
    ASSUME NodesInv, phase = "live", WalkInv, More, TreeInv, switched.open \in Nat,
           walk' = Stepped, open' = ChildSent(open), source' = source, TreeNode(Child)
    PROVE  NodesInv' /\ WalkInv' /\ TreeInv' /\ DefinedWhenBalanced'
<1> DEFINE o == switched.open
           n == Len(stack)
           m == Len(walk)
<1>1. /\ Receive(Child) /\ stack' = stack /\ root' = root /\ switched' = switched
      /\ phase' = IF Invalidates(Child) THEN "undefined" ELSE phase
  BY DEF TreeNode, TreeReply
<1>2. Path(walk, source)
  BY DEF WalkInv
<1>3. WalkInv' /\ Len(walk') = Len(walk) /\ SteppedOn(walk, walk')
  BY NodeWalks
<1>4. /\ NodesInv' /\ listed' = listed /\ Len(nodes') >= Len(nodes)
      /\ \A k \in 1..Len(nodes) : nodes'[k].id = nodes[k].id
      /\ phase' = "undefined" => listed # {} \/ o > 0
  BY <1>1, <1>2, TreeReceives
<1>5. /\ stack \in Seq(Nat) /\ stack # <<>> /\ stack[1] = root /\ n + o = m
      /\ \A i \in 2..n :
            /\ stack[i] \in 1..Len(nodes)
            /\ nodes[stack[i]].id = source[walk[o + i].cont].id
            /\ stack[i] > Len(source) \/ stack[i] = walk[o + i].cont
            /\ listed = {} /\ root # 1 => stack[i] > Len(source)
            /\ listed = {} /\ root = 1 /\ o = 0 => stack[i] = walk[i].cont
  BY DEF TreeInv
<1>6. \A i \in 1..Len(walk) : walk'[i].cont = walk[i].cont
  <2>1. Len(walk) \in Nat \ {0}
    BY <1>2, PathFacts
  <2> QED
    BY <1>3, <2>1 DEF SteppedOn
<1>7. Len(nodes) \in Nat /\ Len(nodes') \in Nat
  BY <1>4, LenProperties DEF NodesInv
<1>8. switched'.open = o
  BY <1>1
<1>9. n \in Nat /\ m \in Nat /\ o \in Nat /\ n + o = m
  BY <1>2, <1>5, LenProperties, PathFacts
<1> HIDE DEF o, n, m
<1>10. ASSUME NEW i \in 2..n
      PROVE  /\ stack[i] \in 1..Len(nodes')
             /\ nodes'[stack[i]].id = source[walk'[o + i].cont].id
             /\ stack[i] > Len(source) \/ stack[i] = walk'[o + i].cont
             /\ listed = {} /\ root # 1 => stack[i] > Len(source)
             /\ listed = {} /\ root = 1 /\ o = 0 => stack[i] = walk'[i].cont
  <2>1. o + i \in 1..m /\ (o = 0 => i \in 1..m)
    BY <1>9
  <2>2. walk'[o + i].cont = walk[o + i].cont /\ (o = 0 => walk'[i].cont = walk[i].cont)
    BY <1>6, <2>1 DEF m
  <2>3. stack[i] \in 1..Len(nodes)
    BY <1>5
  <2>4. stack[i] \in 1..Len(nodes') /\ nodes'[stack[i]].id = nodes[stack[i]].id
    BY <1>4, <1>7, <2>3
  <2> QED
    BY <1>5, <2>2, <2>4
<1>11. TreeInv'
  BY <1>1, <1>3, <1>4, <1>5, <1>8, <1>10 DEF TreeInv, n, m
<1>12. DefinedWhenBalanced'
  BY <1>4, <1>8 DEF DefinedWhenBalanced
<1> QED
  BY <1>3, <1>4, <1>11, <1>12

(* ... a container, ...                                                    *)
LEMMA StartKeepsTree ==
    ASSUME NodesInv, phase = "live", WalkInv, More, TreeInv, switched.open \in Nat,
           walk' = Append(Stepped, [cont |-> Child, at |-> 1]),
           open' = Append(open, Announced(Child)), source' = source, TreeStart(Child)
    PROVE  NodesInv' /\ WalkInv' /\ TreeInv' /\ DefinedWhenBalanced'
<1> DEFINE o == switched.open
           m == Received(Child)
           n == Len(stack)
           l == Len(walk)
<1>1. /\ Receive(Child) /\ stack' = Append(stack, m)
      /\ root' = root /\ switched' = switched
      /\ phase' = IF Invalidates(Child) THEN "undefined" ELSE phase
  BY DEF TreeStart, TreeReply, Pushed, Entered
<1>2. Path(walk, source)
  BY DEF WalkInv
<1>3. /\ WalkInv' /\ Len(walk') = Len(walk) + 1
      /\ walk'[Len(walk) + 1].cont = Child
      /\ \A i \in 1..Len(walk) : walk'[i].cont = walk[i].cont
  BY StartWalks
<1>4. /\ NodesInv' /\ listed' = listed /\ Len(nodes') >= Len(nodes)
      /\ m \in 1..Len(nodes') /\ nodes'[m].id = source[Child].id
      /\ m > Len(source) \/ m = Child
      /\ listed = {} /\ root # 1 => m > Len(source)
      /\ listed = {} /\ root = 1 /\ o = 0 => m = Child
      /\ \A k \in 1..Len(nodes) : nodes'[k].id = nodes[k].id
      /\ phase' = "undefined" => listed # {} \/ o > 0
  BY <1>1, <1>2, TreeReceives
<1>5. /\ stack \in Seq(Nat) /\ stack # <<>> /\ stack[1] = root
      /\ n + o = Len(walk)
      /\ \A i \in 2..n :
            /\ stack[i] \in 1..Len(nodes)
            /\ nodes[stack[i]].id = source[walk[o + i].cont].id
            /\ stack[i] > Len(source) \/ stack[i] = walk[o + i].cont
            /\ listed = {} /\ root # 1 => stack[i] > Len(source)
            /\ listed = {} /\ root = 1 /\ o = 0 => stack[i] = walk[i].cont
  BY DEF TreeInv
<1>6. n \in Nat \ {0} /\ l \in Nat /\ o \in Nat /\ n + o = l
  BY <1>2, <1>5, LastFacts, PathFacts
<1>7. Len(nodes) \in Nat /\ Len(nodes') \in Nat
  BY <1>4, LenProperties DEF NodesInv
<1>8. switched'.open = o
  BY <1>1
<1>9. m \in Nat
  BY <1>4
<1> HIDE DEF o, m, n, l
<1>10. /\ stack' \in Seq(Nat) /\ Len(stack') = n + 1 /\ stack'[n + 1] = m
       /\ \A i \in 1..n : stack'[i] = stack[i]
  <2>1. Len(stack) = n
    BY DEF n
  <2> QED
    BY <1>1, <1>5, <1>9, <2>1, AppendProperties
<1>11. stack' # <<>> /\ stack'[1] = root
  BY <1>5, <1>6, <1>10, EmptySeq
<1>12. ASSUME NEW i \in 2..(n + 1)
       PROVE  /\ stack'[i] \in 1..Len(nodes')
              /\ nodes'[stack'[i]].id = source[walk'[o + i].cont].id
              /\ stack'[i] > Len(source) \/ stack'[i] = walk'[o + i].cont
              /\ listed = {} /\ root # 1 => stack'[i] > Len(source)
              /\ listed = {} /\ root = 1 /\ o = 0 => stack'[i] = walk'[i].cont
  <2>1. CASE i = n + 1
    <3>1. o + i = l + 1 /\ (o = 0 => i = l + 1)
      BY <1>6, <2>1
    <3>2. stack'[i] = m /\ walk'[o + i].cont = Child /\ (o = 0 => walk'[i].cont = Child)
      BY <1>3, <1>10, <2>1, <3>1 DEF l
    <3> QED
      BY <1>4, <3>2
  <2>2. CASE i # n + 1
    <3>1. i \in 2..n /\ i \in 1..n /\ o + i \in 1..Len(walk) /\ (o = 0 => i \in 1..Len(walk))
      BY <1>6, <2>2 DEF l
    <3>2. /\ stack'[i] = stack[i] /\ walk'[o + i].cont = walk[o + i].cont
          /\ o = 0 => walk'[i].cont = walk[i].cont
      BY <1>3, <1>10, <3>1
    <3>3. stack[i] \in 1..Len(nodes)
      BY <1>5, <3>1
    <3>4. stack[i] \in 1..Len(nodes') /\ nodes'[stack[i]].id = nodes[stack[i]].id
      BY <1>4, <1>7, <3>3
    <3> QED
      BY <1>5, <3>1, <3>2, <3>4
  <2> QED
    BY <2>1, <2>2
<1>13. Len(stack') + o = Len(walk')
  <2> DEFINE s2 == Len(stack')
             l2 == Len(walk')
  <2>1. s2 = n + 1 /\ l2 = l + 1
    BY <1>3, <1>10 DEF l
  <2> HIDE DEF s2, l2
  <2>2. s2 + o = l2
    BY <1>6, <2>1
  <2> QED
    BY <2>2 DEF s2, l2
<1>14. TreeInv'
  <2>1. \A i \in 2..Len(stack') :
           /\ stack'[i] \in 1..Len(nodes')
           /\ nodes'[stack'[i]].id = source[walk'[o + i].cont].id
           /\ stack'[i] > Len(source) \/ stack'[i] = walk'[o + i].cont
           /\ listed = {} /\ root # 1 => stack'[i] > Len(source)
           /\ listed = {} /\ root = 1 /\ o = 0 => stack'[i] = walk'[i].cont
    BY <1>10, <1>12
  <2> QED
    BY <1>1, <1>4, <1>8, <1>10, <1>11, <1>13, <2>1 DEF TreeInv
<1>15. DefinedWhenBalanced'
  BY <1>4, <1>8 DEF DefinedWhenBalanced
<1> QED
  BY <1>3, <1>4, <1>14, <1>15

(* ... and the end of one, unless it has none open.                        *)
LEMMA EndKeepsTree ==
    ASSUME NodesInv, phase = "live", WalkInv, Len(walk) > 1, TreeInv, switched.open \in Nat,
           walk' = Front(walk), open' = ChildSent(Front(open)), source' = source, TreeEnd
    PROVE  NodesInv' /\ WalkInv' /\ (phase' = "live" => TreeInv') /\ DefinedWhenBalanced'
<1> DEFINE o == switched.open
           n == Len(stack)
<1>1. /\ stack' = Front(stack) /\ UNCHANGED tree_vars
      /\ root' = root /\ switched' = switched
      /\ phase' = IF n = 1 THEN "undefined" ELSE phase
  BY DEF TreeEnd, TreeReply, Popped
<1>2. /\ WalkInv' /\ Len(walk') = Len(walk) - 1
      /\ \A i \in 1..(Len(walk) - 1) : walk'[i] = walk[i]
  BY EndWalks
<1>3. NodesInv'
  BY <1>1 DEF NodesInv, tree_vars
<1>4. /\ stack \in Seq(Nat) /\ stack # <<>> /\ stack[1] = root
      /\ n + o = Len(walk)
      /\ \A i \in 2..n :
            /\ stack[i] \in 1..Len(nodes)
            /\ nodes[stack[i]].id = source[walk[o + i].cont].id
            /\ stack[i] > Len(source) \/ stack[i] = walk[o + i].cont
            /\ listed = {} /\ root # 1 => stack[i] > Len(source)
            /\ listed = {} /\ root = 1 /\ o = 0 => stack[i] = walk[i].cont
  BY DEF TreeInv
<1>5. n \in Nat \ {0} /\ Len(walk) \in Nat /\ o \in Nat
  BY <1>4, LastFacts, PathFacts DEF WalkInv
<1>6. /\ stack' \in Seq(Nat) /\ Len(stack') = n - 1
      /\ \A i \in 1..(n - 1) : stack'[i] = stack[i]
  BY <1>1, <1>4, FrontFacts
<1>7. switched'.open = o /\ listed' = listed /\ nodes' = nodes
  BY <1>1 DEF tree_vars
<1> HIDE DEF o, n
<1>8. DefinedWhenBalanced'
  BY <1>1, <1>4, <1>5, <1>7 DEF DefinedWhenBalanced
<1>9. ASSUME phase' = "live"
      PROVE  TreeInv'
  <2>1. n > 1
    BY <1>1, <1>5, <1>9
  <2>2. stack' # <<>> /\ stack'[1] = root
    <3>1. 1 \in 1..(n - 1) /\ n - 1 # 0
      BY <1>5, <2>1
    <3> QED
      BY <1>4, <1>6, <3>1, EmptySeq
  <2>3. ASSUME NEW i \in 2..(n - 1)
        PROVE  /\ stack'[i] \in 1..Len(nodes)
               /\ nodes[stack'[i]].id = source[walk'[o + i].cont].id
               /\ stack'[i] > Len(source) \/ stack'[i] = walk'[o + i].cont
               /\ listed = {} /\ root # 1 => stack'[i] > Len(source)
               /\ listed = {} /\ root = 1 /\ o = 0 => stack'[i] = walk'[i].cont
    <3>1. i \in 2..n /\ i \in 1..(n - 1) /\ o + i \in 1..(Len(walk) - 1)
          /\ (o = 0 => i \in 1..(Len(walk) - 1))
      BY <1>4, <1>5
    <3>2. /\ stack'[i] = stack[i] /\ walk'[o + i] = walk[o + i]
          /\ o = 0 => walk'[i] = walk[i]
      BY <1>2, <1>6, <3>1
    <3> QED
      BY <1>4, <3>1, <3>2
  <2>4. Len(stack') + o = Len(walk')
    BY <1>2, <1>4, <1>5, <1>6
  <2> QED
    BY <1>1, <1>6, <1>7, <2>2, <2>3, <2>4 DEF TreeInv
<1> QED
  BY <1>2, <1>3, <1>8, <1>9

(* A sink that is not a ToTree leaves the tree alone; the chain may switch *)
(* to a ToTree, which has nothing open yet.                                *)
LEMMA UserReplies ==
    ASSUME StreamInv, phase = "live", CurrentSink = "user", WalkInv',
           Reply, UNCHANGED toTree, source' = source
    PROVE  /\ NodesInv' /\ DefinedWhenBalanced' /\ chain' \in Chains /\ switched'.open \in Nat
           /\ CurrentSink' = "tree" => TreeInv'
           /\ phase' = "live" /\ CurrentSink' = "user" => switched'.open = 0 /\ stack' = <<root'>>
<1>1. /\ NodesInv /\ chain \in Chains /\ stack = <<root>> /\ switched.open = 0
  BY DEF StreamInv, SinksInv, UserInv
<1>2. /\ nodes' = nodes /\ alive' = alive /\ listed' = listed /\ root' = root /\ stack' = stack
  BY DEF toTree, tree_vars
<1>3. phase' \in {"live", "thrown", "refused"}
  BY DEF Reply, NextSink, RefusedByChain
<1>4. NodesInv'
  BY <1>1, <1>2, <1>3 DEF NodesInv
<1>5. DefinedWhenBalanced'
  BY <1>3 DEF DefinedWhenBalanced
<1>6. chain \in {<<"user">>, <<"user", "tree">>}
  BY <1>1 DEF Chains, CurrentSink
<1>7. /\ root \in Nat /\ Len(source) \in Nat /\ root \in {1, Len(source) + 1}
  BY <1>1, SourceFacts DEF NodesInv
<1>8. CASE UNCHANGED <<chain, switched>>
  BY <1>1, <1>2, <1>4, <1>5, <1>6, <1>8 DEF CurrentSink
<1>9. CASE ~UNCHANGED <<chain, switched>>
  <2>1. /\ Len(chain) # 1 /\ chain' = Tail(chain)
        /\ switched' = [open |-> Len(open'), at |-> walk'[1].at]
    BY <1>9 DEF Reply, NextSink, RefusedByChain
  <2>2. chain' = <<"tree">> /\ chain' \in Chains /\ CurrentSink' = "tree"
    <3>1. chain = <<"user", "tree">>
      BY <1>6, <2>1
    <3>2. chain' = <<"tree">>
      BY <2>1, <3>1
    <3> QED
      BY <3>2 DEF Chains, CurrentSink
  <2>3. /\ Len(open') = Len(walk') - 1 /\ Len(walk') \in Nat \ {0}
        /\ walk'[1].cont = 1
    BY PathFacts DEF WalkInv, Announcing, Path
  <2>4. switched'.open = Len(walk') - 1
    BY <2>1, <2>3
  <2>5. /\ stack' \in Seq(Nat) /\ stack' # <<>> /\ Len(stack') = 1 /\ stack'[1] = root'
    BY <1>1, <1>2, <1>7
  <2>6. TreeInv'
    <3>1. Len(stack') + switched'.open = Len(walk')
      BY <2>3, <2>4, <2>5
    <3>2. \A i \in 2..Len(stack') : FALSE
      BY <2>5
    <3> QED
      BY <2>5, <3>1, <3>2 DEF TreeInv
  <2>7. switched'.open \in Nat
    BY <2>3, <2>4
  <2> QED
    BY <1>4, <1>5, <2>2, <2>6, <2>7
<1> QED
  BY <1>8, <1>9

-----------------------------------------------------------------------------
(* The invariant holds.                                                    *)

(* Sinks of the user's, as they nest and count.                            *)
LEMMA UserNodeKeeps ==
    ASSUME UserInv, Len(open') = Len(open), CurrentSink = "user",
           switched'.open = 0, stack' = <<root'>>, UserNode
    PROVE  UserInv'
BY DEF UserInv, UserNode, userSinks

LEMMA UserStartKeeps ==
    ASSUME UserInv, Len(open) \in Nat, Len(open') = Len(open) + 1,
           switched'.open = 0, stack' = <<root'>>, UserStart
    PROVE  UserInv'
<1> DEFINE n == Len(open)
           m == Len(open')
<1>1. /\ within \in 0..n
      /\ depth = IF within = 0 THEN 0 ELSE n - within + 1
      /\ outer = IF within = 0 THEN n ELSE within
      /\ nested = IF within = 0 THEN 0 ELSE n - within
  BY DEF UserInv
<1>2. n \in Nat /\ m = n + 1
  OBVIOUS
<1>3. \/ depth > 0 /\ depth' = depth + 1 /\ nested' = nested + 1 /\ outer' = outer /\ within' = within
      \/ depth = 0 /\ outer' = outer + 1 /\ depth' = 1 /\ within' = m /\ nested' = nested
      \/ depth = 0 /\ outer' = outer + 1 /\ depth' = depth /\ within' = within /\ nested' = nested
  BY DEF UserStart, Deeper
<1> HIDE DEF n, m
<1>4. /\ within' \in 0..m
      /\ depth' = IF within' = 0 THEN 0 ELSE m - within' + 1
      /\ outer' = IF within' = 0 THEN m ELSE within'
      /\ nested' = IF within' = 0 THEN 0 ELSE m - within'
  BY <1>1, <1>2, <1>3
<1> QED
  BY <1>4 DEF UserInv, m

LEMMA UserEndKeeps ==
    ASSUME UserInv, Len(open) \in Nat \ {0}, Len(open') = Len(open) - 1,
           switched'.open = 0, stack' = <<root'>>, UserEnd
    PROVE  UserInv'
<1> DEFINE n == Len(open)
           m == Len(open')
<1>1. /\ within \in 0..n
      /\ depth = IF within = 0 THEN 0 ELSE n - within + 1
      /\ outer = IF within = 0 THEN n ELSE within
      /\ nested = IF within = 0 THEN 0 ELSE n - within
  BY DEF UserInv
<1>2. n \in Nat \ {0} /\ m = n - 1
  OBVIOUS
<1>3. /\ depth' = IF depth > 0 THEN depth - 1 ELSE 0
      /\ \/ depth > 1 /\ nested' = nested - 1 /\ outer' = outer
         \/ ~(depth > 1) /\ outer' = outer - 1 /\ nested' = nested
      /\ within' = IF n = within THEN 0 ELSE within
  BY DEF UserEnd
<1> HIDE DEF n, m
<1>4. /\ within' \in 0..m
      /\ depth' = IF within' = 0 THEN 0 ELSE m - within' + 1
      /\ outer' = IF within' = 0 THEN m ELSE within'
      /\ nested' = IF within' = 0 THEN 0 ELSE m - within'
  <2>1. CASE within = 0
    BY <1>1, <1>2, <1>3, <2>1
  <2>2. CASE within # 0 /\ within = n
    BY <1>1, <1>2, <1>3, <2>2
  <2>3. CASE within # 0 /\ within # n
    BY <1>1, <1>2, <1>3, <2>3
  <2> QED
    BY <2>1, <2>2, <2>3
<1> QED
  BY <1>4 DEF UserInv, m

LEMMA OpenLength ==
    ASSUME WalkInv
    PROVE  Len(open) = Len(walk) - 1 /\ Len(walk) \in Nat \ {0} /\ Len(open) \in Nat
BY PathFacts DEF WalkInv, Announcing

LEMMA InitStream == Init => StreamInv
<1> SUFFICES ASSUME Init PROVE StreamInv
  OBVIOUS
<1> DEFINE own == Append(source, NewNode(TRUE, Null, <<>>))
           len == Len(source)
<1>1. source \in Sources /\ source \in Seq(NodeRecord) /\ len \in Nat \ {0}
  BY SourceFacts DEF Init
<1>2. /\ \/ nodes = own /\ root = len + 1
         \/ nodes = source /\ root = 1
      /\ stack = <<root>> /\ chain \in Chains /\ alive = DOMAIN nodes
      /\ listed = {n \in 2..len : source[n].parent = Null}
      /\ walk = <<[cont |-> 1, at |-> 1]>> /\ phase = "live"
      /\ depth = 0 /\ outer = 0 /\ nested = 0 /\ within = 0
      /\ switched = [open |-> 0, at |-> 1] /\ open = <<>>
  <2>1. PICK mine \in BOOLEAN : /\ nodes = IF mine THEN own ELSE source
                                /\ root = IF mine THEN len + 1 ELSE 1
    BY DEF Init
  <2>2. \/ nodes = own /\ root = len + 1
        \/ nodes = source /\ root = 1
    BY <2>1
  <2> QED
    BY <2>2 DEF Init, Chains
<1>3. /\ NewNode(TRUE, Null, <<>>) \in NodeRecord
      /\ NewNode(TRUE, Null, <<>>).children = <<>>
  BY DEF NewNode, NodeRecord, Null
<1>4. /\ own \in Seq(NodeRecord) /\ Len(own) = len + 1
      /\ own[len + 1].children = <<>>
      /\ \A c \in 1..len : own[c] = source[c]
  <2> DEFINE r == NewNode(TRUE, Null, <<>>)
  <2>1. r \in NodeRecord /\ r.children = <<>>
    BY <1>3
  <2> HIDE DEF r
  <2>2. /\ Append(source, r) \in Seq(NodeRecord) /\ Len(Append(source, r)) = len + 1
        /\ Append(source, r)[len + 1] = r
        /\ \A c \in 1..len : Append(source, r)[c] = source[c]
    BY <1>1, <2>1, AppendProperties
  <2> QED
    BY <2>1, <2>2 DEF r
<1>5. switched.open = 0 /\ walk[1].cont = 1 /\ walk[1].at = 1 /\ Len(walk) = 1
  BY <1>2
<1> HIDE DEF own
<1>6. NodesInv
  <2>1. /\ nodes \in Seq(NodeRecord) /\ len <= Len(nodes)
        /\ root \in {1, len + 1} /\ root <= Len(nodes)
        /\ \A c \in 1..len : nodes[c] = source[c]
    <3>1. CASE nodes = own /\ root = len + 1
      BY <1>1, <1>4, <3>1
    <3>2. CASE nodes = source /\ root = 1
      BY <1>1, <3>2
    <3> QED
      BY <1>2, <3>1, <3>2
  <2>2. ASSUME root # 1, NEW c \in (len + 1)..Len(nodes)
        PROVE  nodes[c].children \in Seq((len + 1)..Len(nodes))
    <3>1. nodes = own /\ c = len + 1
      BY <1>1, <1>2, <1>4, <2>2
    <3>2. nodes[c].children = <<>>
      BY <1>4, <3>1
    <3> QED
      BY <3>2, EmptySeq
  <2> QED
    BY <1>1, <1>2, <2>1, <2>2 DEF NodesInv
<1>7. Path(walk, source)
  <2>1. walk \in Seq(WalkRecord) /\ walk # <<>>
    BY <1>2 DEF WalkRecord
  <2>2. /\ source[1].children \in Seq(Nat) /\ Len(source[1].children) \in Nat
    BY <1>1, NodeFields
  <2>3. /\ walk[1].cont \in 1..len
        /\ walk[1].at \in 1..(Len(source[walk[1].cont].children) + 1)
    BY <1>1, <1>5, <2>2
  <2>4. \A i \in 1..Len(walk) : i = 1
    BY <1>5
  <2>5. \A i \in 1..(Len(walk) - 1) : FALSE
    BY <1>5
  <2>6. \A i, j \in 1..Len(walk) : ~(i < j)
    BY <1>5
  <2> QED
    BY <1>5, <2>1, <2>3, <2>4, <2>5, <2>6 DEF Path
<1>8. Announcing(open, walk, source)
  <2>1. open \in Seq(OpenRecord) /\ Len(open) = 0
    BY <1>2
  <2> QED
    BY <1>5, <2>1 DEF Announcing
<1>9. root \in Nat
  BY <1>1, <1>2
<1>10. TreeInv
  <2>1. stack \in Seq(Nat) /\ stack # <<>> /\ Len(stack) = 1 /\ stack[1] = root
    BY <1>2, <1>9
  <2>2. \A i \in 2..Len(stack) : FALSE
    BY <2>1
  <2> QED
    BY <1>5, <2>1, <2>2 DEF TreeInv
<1>11. UserInv
  <2>1. Len(open) = 0
    BY <1>2
  <2> QED
    BY <1>2, <1>5, <2>1 DEF UserInv
<1>12. DefinedWhenBalanced
  BY <1>2 DEF DefinedWhenBalanced
<1> QED
  BY <1>2, <1>5, <1>6, <1>7, <1>8, <1>10, <1>11, <1>12 DEF StreamInv, WalkInv, SinksInv

LEMMA NodeStream ==
    ASSUME StreamInv, SendNode
    PROVE  StreamInv'
<1>1. /\ phase = "live" /\ More /\ walk' = Stepped /\ open' = ChildSent(open)
      /\ TreeNode(Child) \/ UserNode
      /\ source' = source
  BY DEF SendNode
<1>2. NodesInv /\ WalkInv /\ SinksInv
  BY <1>1 DEF StreamInv
<1>3. WalkInv'
  BY <1>1, <1>2, NodeWalks
<1>4. CASE TreeNode(Child)
  <2>1. CurrentSink = "tree" /\ chain' = chain /\ switched' = switched
    BY <1>4 DEF TreeNode, TreeReply
  <2>2. TreeInv /\ switched.open \in Nat /\ chain \in Chains
    BY <1>2, <2>1 DEF SinksInv
  <2>3. NodesInv' /\ TreeInv' /\ DefinedWhenBalanced'
    BY <1>1, <1>2, <1>4, <2>2, NodeKeepsTree
  <2> QED
    BY <1>3, <2>1, <2>2, <2>3 DEF StreamInv, SinksInv, CurrentSink
<1>5. CASE UserNode
  <2>1. CurrentSink = "user" /\ Reply /\ UNCHANGED toTree
    BY <1>5 DEF UserNode
  <2>2. /\ NodesInv' /\ DefinedWhenBalanced' /\ chain' \in Chains /\ switched'.open \in Nat
        /\ CurrentSink' = "tree" => TreeInv'
        /\ phase' = "live" /\ CurrentSink' = "user" => switched'.open = 0 /\ stack' = <<root'>>
    BY <1>1, <1>3, <2>1, UserReplies
  <2>3. UserInv /\ Len(open') = Len(open)
    <3>1. Len(walk') = Len(walk)
      BY <1>1, <1>2, NodeWalks
    <3>2. Len(open') = Len(walk') - 1 /\ Len(open) = Len(walk) - 1
      BY <1>2, <1>3, OpenLength DEF WalkInv, Announcing
    <3> QED
      BY <1>2, <2>1, <3>1, <3>2 DEF SinksInv
  <2>4. phase' = "live" /\ CurrentSink' = "user" => UserInv'
    BY <1>5, <2>1, <2>2, <2>3, UserNodeKeeps
  <2> QED
    BY <1>3, <2>2, <2>4 DEF StreamInv, SinksInv
<1> QED
  BY <1>1, <1>4, <1>5

LEMMA StartStream ==
    ASSUME StreamInv, SendStart
    PROVE  StreamInv'
<1>1. /\ phase = "live" /\ More
      /\ walk' = Append(Stepped, [cont |-> Child, at |-> 1])
      /\ open' = Append(open, Announced(Child))
      /\ TreeStart(Child) \/ UserStart
      /\ source' = source
  BY DEF SendStart
<1>2. NodesInv /\ WalkInv /\ SinksInv
  BY <1>1 DEF StreamInv
<1>3. WalkInv' /\ Len(open') = Len(open) + 1
  BY <1>1, <1>2, StartWalks
<1>4. CASE TreeStart(Child)
  <2>1. CurrentSink = "tree" /\ chain' = chain /\ switched' = switched
    BY <1>4 DEF TreeStart, TreeReply
  <2>2. TreeInv /\ switched.open \in Nat /\ chain \in Chains
    BY <1>2, <2>1 DEF SinksInv
  <2>3. NodesInv' /\ TreeInv' /\ DefinedWhenBalanced'
    BY <1>1, <1>2, <1>4, <2>2, StartKeepsTree
  <2> QED
    BY <1>3, <2>1, <2>2, <2>3 DEF StreamInv, SinksInv, CurrentSink
<1>5. CASE UserStart
  <2>1. CurrentSink = "user" /\ Reply /\ UNCHANGED toTree
    BY <1>5 DEF UserStart
  <2>2. /\ NodesInv' /\ DefinedWhenBalanced' /\ chain' \in Chains /\ switched'.open \in Nat
        /\ CurrentSink' = "tree" => TreeInv'
        /\ phase' = "live" /\ CurrentSink' = "user" => switched'.open = 0 /\ stack' = <<root'>>
    BY <1>1, <1>3, <2>1, UserReplies
  <2>3. UserInv /\ Len(open) \in Nat
    BY <1>2, <2>1, OpenLength DEF SinksInv
  <2>4. phase' = "live" /\ CurrentSink' = "user" => UserInv'
    BY <1>3, <1>5, <2>2, <2>3, UserStartKeeps
  <2> QED
    BY <1>3, <2>2, <2>4 DEF StreamInv, SinksInv
<1> QED
  BY <1>1, <1>4, <1>5

LEMMA EndStream ==
    ASSUME StreamInv, SendEnd
    PROVE  StreamInv'
<1>1. /\ phase = "live" /\ Len(walk) > 1
      /\ walk' = Front(walk) /\ open' = ChildSent(Front(open))
      /\ TreeEnd \/ UserEnd
      /\ source' = source
  BY DEF SendEnd
<1>2. NodesInv /\ WalkInv /\ SinksInv
  BY <1>1 DEF StreamInv
<1>3. WalkInv' /\ Len(open) \in Nat \ {0} /\ Len(open') = Len(open) - 1
  BY <1>1, <1>2, EndWalks
<1>4. CASE TreeEnd
  <2>1. CurrentSink = "tree" /\ chain' = chain /\ switched' = switched
    BY <1>4 DEF TreeEnd, TreeReply
  <2>2. TreeInv /\ switched.open \in Nat /\ chain \in Chains
    BY <1>2, <2>1 DEF SinksInv
  <2>3. NodesInv' /\ (phase' = "live" => TreeInv') /\ DefinedWhenBalanced'
    BY <1>1, <1>2, <1>4, <2>2, EndKeepsTree
  <2> QED
    BY <1>3, <2>1, <2>2, <2>3 DEF StreamInv, SinksInv, CurrentSink
<1>5. CASE UserEnd
  <2>1. CurrentSink = "user" /\ Reply /\ UNCHANGED toTree
    BY <1>5 DEF UserEnd
  <2>2. /\ NodesInv' /\ DefinedWhenBalanced' /\ chain' \in Chains /\ switched'.open \in Nat
        /\ CurrentSink' = "tree" => TreeInv'
        /\ phase' = "live" /\ CurrentSink' = "user" => switched'.open = 0 /\ stack' = <<root'>>
    BY <1>1, <1>3, <2>1, UserReplies
  <2>3. UserInv
    BY <1>2, <2>1 DEF SinksInv
  <2>4. phase' = "live" /\ CurrentSink' = "user" => UserInv'
    BY <1>3, <1>5, <2>2, <2>3, UserEndKeeps
  <2> QED
    BY <1>3, <2>2, <2>4 DEF StreamInv, SinksInv
<1> QED
  BY <1>1, <1>4, <1>5

LEMMA StepStream == StreamInv /\ [Next]_vars => StreamInv'
<1> SUFFICES ASSUME StreamInv, [Next]_vars PROVE StreamInv'
  OBVIOUS
<1>1. CASE EndOfStream
  <2>1. UNCHANGED <<toTree, source, switched>> /\ phase' \in {"stopped", "ended", "thrown"}
        /\ phase \in {"refused", "live"}
    BY <1>1 DEF EndOfStream
  <2>2. NodesInv'
    BY <2>1 DEF StreamInv, NodesInv, toTree, tree_vars
  <2> QED
    BY <2>1, <2>2 DEF StreamInv, DefinedWhenBalanced
<1>2. CASE UNCHANGED vars
  <2>1. UNCHANGED <<toTree, userSinks, walk, phase, chain, source, open, switched>>
    BY <1>2 DEF vars, toTree, userSinks, tree_vars
  <2>2. NodesInv' <=> NodesInv
    BY <2>1 DEF NodesInv, toTree, tree_vars
  <2>3. WalkInv' <=> WalkInv
    BY <2>1 DEF WalkInv, Path, Announcing
  <2>4. TreeInv' <=> TreeInv
    BY <2>1 DEF TreeInv, toTree, tree_vars
  <2>5. UserInv' <=> UserInv
    BY <2>1 DEF UserInv, toTree, userSinks
  <2>6. DefinedWhenBalanced' <=> DefinedWhenBalanced
    BY <2>1 DEF DefinedWhenBalanced, toTree, tree_vars
  <2> QED
    BY <2>1, <2>2, <2>3, <2>4, <2>5, <2>6 DEF StreamInv, SinksInv, CurrentSink
<1> QED
  BY <1>1, <1>2, NodeStream, StartStream, EndStream DEF Next

LEMMA StreamInvariant == Spec => []StreamInv
  BY InitStream, StepStream, PTL DEF Spec

-----------------------------------------------------------------------------
(* The theorems.                                                           *)

(* ToTree has the containers open that have been announced to it, under    *)
(* their ids: start_container, end_container and add_child_to_curr_parent  *)
(* stay in step with subtree_to_sink, whichever nodes they copy.           *)
THEOREM ToTreeAlwaysInStep == Spec => []ToTreeInStep
<1>1. StreamInv => ToTreeInStep
  <2> SUFFICES ASSUME StreamInv, phase = "live", CurrentSink = "tree"
               PROVE  /\ Len(stack) + switched.open = Len(open) + 1
                      /\ \A i \in 2..Len(stack) :
                            nodes[stack[i]].id = nodes[open[switched.open + i - 1].id].id
    BY DEF ToTreeInStep
  <2> DEFINE n == Len(stack)
             o == switched.open
             m == Len(walk)
             k == Len(open)
  <2>1. NodesInv /\ WalkInv /\ TreeInv /\ o \in Nat
    BY DEF StreamInv, SinksInv
  <2>2. k = m - 1 /\ m \in Nat \ {0} /\ n + o = m
    BY <2>1, OpenLength DEF TreeInv
  <2>3. n \in Nat
    BY <2>1, LenProperties DEF TreeInv
  <2>4. \A i \in 1..k : open[i].id = walk[i + 1].cont
    BY <2>1 DEF WalkInv, Announcing
  <2>5. \A i \in 1..m : walk[i].cont \in 1..Len(source)
    BY <2>1 DEF WalkInv, Path
  <2>6. \A c \in 1..Len(source) : nodes[c].id = source[c].id
    BY <2>1 DEF NodesInv
  <2>7. \A i \in 2..n : nodes[stack[i]].id = source[walk[o + i].cont].id
    BY <2>1 DEF TreeInv
  <2> HIDE DEF n, o, m, k
  <2>8. ASSUME NEW i \in 2..n
        PROVE  nodes[stack[i]].id = nodes[open[o + i - 1].id].id
    <3>1. o \in Nat
      BY <2>1
    <3>2. o + i - 1 \in 1..k /\ (o + i - 1) + 1 = o + i /\ o + i \in 1..m
      BY <2>2, <2>3, <3>1
    <3>3. open[o + i - 1].id = walk[o + i].cont /\ walk[o + i].cont \in 1..Len(source)
      BY <2>4, <2>5, <3>2
    <3> QED
      BY <2>6, <2>7, <3>3
  <2>9. n + o = k + 1
    BY <2>2
  <2> QED
    BY <2>8, <2>9 DEF n, o, k
<1> QED
  BY <1>1, StreamInvariant, PTL

(* An iterator is invalidated, or a parent popped that is not there, only  *)
(* when nodes that do not know their parent are streamed or a chain        *)
(* switches to a ToTree within a container.                                *)
THEOREM AlwaysDefinedWhenBalanced == Spec => []DefinedWhenBalanced
<1>1. StreamInv => DefinedWhenBalanced
  BY DEF StreamInv
<1> QED
  BY <1>1, StreamInvariant, PTL

(* The depth that SinkTree counts tells the containers of the sink nested  *)
(* in it from those of its own.                                            *)
THEOREM NestedSinkAlwaysInStep == Spec => []NestedSinkInStep
<1>1. StreamInv => NestedSinkInStep
  <2> SUFFICES ASSUME StreamInv, phase = "live", CurrentSink = "user"
               PROVE  /\ outer = IF within = 0 THEN Len(open) ELSE within
                      /\ nested = IF within = 0 THEN 0 ELSE Len(open) - within
                      /\ depth > 0 <=> within > 0
    BY DEF NestedSinkInStep
  <2> DEFINE n == Len(open)
  <2>1. /\ within \in 0..n
        /\ depth = IF within = 0 THEN 0 ELSE n - within + 1
        /\ outer = IF within = 0 THEN n ELSE within
        /\ nested = IF within = 0 THEN 0 ELSE n - within
        /\ n \in Nat
    BY OpenLength DEF StreamInv, SinksInv, UserInv
  <2> HIDE DEF n
  <2>2. depth > 0 <=> within > 0
    BY <2>1
  <2> QED
    BY <2>1, <2>2 DEF n
<1> QED
  BY <1>1, StreamInvariant, PTL

(* The tree that is streamed stays as it is, and what ToTree builds has    *)
(* none of its nodes, if they know their parents and no tree is streamed   *)
(* into itself from within a container.                                    *)
THEOREM SourceAlwaysUntouched == Spec => []SourceIsUntouched
<1>1. StreamInv => SourceIsUntouched
  <2> SUFFICES ASSUME StreamInv, listed = {}, root = 1 => switched.open = 0
               PROVE  /\ \A n \in DOMAIN source : nodes[n] = source[n]
                      /\ root # 1 => Below(nodes, root) \cap DOMAIN source = {}
    BY DEF SourceIsUntouched
  <2> DEFINE len == Len(source)
             S == (len + 1)..Len(nodes)
  <2>1. /\ source \in Seq(NodeRecord) /\ len \in Nat \ {0}
        /\ nodes \in Seq(NodeRecord) /\ Len(nodes) \in Nat /\ len <= Len(nodes)
        /\ root \in {1, len + 1} /\ root <= Len(nodes)
        /\ \A c \in 1..len : nodes[c] = source[c]
        /\ root # 1 => \A c \in S : nodes[c].children \in Seq(S)
    BY SourceFacts DEF StreamInv, NodesInv
  <2> HIDE DEF S
  <2>2. ASSUME root # 1, NEW n \in Below(nodes, root), n \in DOMAIN source
        PROVE  FALSE
    <3>1. n \in 1..len /\ n \notin S /\ root \in S
      BY <2>1, <2>2 DEF S
    <3>2. S \subseteq DOMAIN nodes \ {n}
      BY <2>1, <3>1 DEF S
    <3>3. \A c \in S : Range(nodes[c].children) \subseteq S
      <4> TAKE c \in S
      <4>1. nodes[c].children \in Seq(S)
        BY <2>1, <2>2
      <4> QED
        BY <4>1 DEF Range
    <3>4. HasBelow(nodes, root, S)
      BY <3>1, <3>3 DEF HasBelow
    <3>5. ~\E T \in SUBSET (DOMAIN nodes \ {n}) : HasBelow(nodes, root, T)
      BY <2>2 DEF Below
    <3> QED
      BY <3>2, <3>4, <3>5
  <2> QED
    BY <2>1, <2>2
<1> QED
  BY <1>1, StreamInvariant, PTL

-----------------------------------------------------------------------------
(* The sink observes a stream of StreamProtocol.                           *)

Observed == IF phase \in {"live", "ended"} THEN phase ELSE "cut"

(* The sequence operators that StreamProtocol takes from its libraries.    *)
LEMMA SinkSequences == \A s : Sink!Last(s) = Last(s) /\ Sink!Front(s) = Front(s)
BY DEF Sink!Last, Sink!Front, Last, Front

(* The innermost container announced, as the loop in it goes on.           *)
LEMMA InnermostFacts ==
    ASSUME NodesInv, WalkInv, phase = "live"
    PROVE  /\ open = <<>> <=> Len(walk) = 1
           /\ open # <<>> =>
                 /\ Last(open).count \in Nat
                 /\ Last(open).children = walk[Len(walk)].at - 1
                 /\ Last(open).count = Len(nodes[walk[Len(walk)].cont].children)
<1> DEFINE m == Len(walk)
           k == Len(open)
<1>1. k = m - 1 /\ m \in Nat \ {0} /\ k \in Nat
  BY OpenLength
<1>2. open \in Seq(OpenRecord)
  BY DEF WalkInv, Announcing
<1>3. open = <<>> <=> k = 0
  BY <1>2, EmptySeq
<1>4. \A i \in 1..k :
         /\ open[i].count = Len(source[walk[i + 1].cont].children)
         /\ open[i].children = IF i = k THEN walk[i + 1].at - 1 ELSE walk[i + 1].at - 2
  BY DEF WalkInv, Announcing
<1>5. walk[m].cont \in 1..Len(source)
  BY PathFacts DEF WalkInv
<1>6. nodes[walk[m].cont].children = source[walk[m].cont].children
  BY <1>5 DEF NodesInv
<1>7. Last(open) = open[k]
  BY DEF Last
<1>8. k # 0 => open[k] \in OpenRecord
  BY <1>1, <1>2
<1> HIDE DEF m, k
<1>9. k # 0 => k \in 1..k /\ k + 1 = m
  BY <1>1
<1>10. k = 0 <=> m = 1
  BY <1>1
<1>11. k # 0 => open[k].count \in Nat
  BY <1>8 DEF OpenRecord
<1>12. k # 0 => /\ open[k].children = walk[m].at - 1
                /\ open[k].count = Len(nodes[walk[m].cont].children)
  BY <1>4, <1>6, <1>9
<1> QED
  BY <1>3, <1>7, <1>10, <1>11, <1>12 DEF m

(* Every step sends its sinks what the stream protocol allows, or          *)
(* nothing.                                                                *)
LEMMA StepKeepsProtocol ==
    StreamInv /\ [Next]_vars => [Sink!Next]_<<open, Observed>>
<1> SUFFICES ASSUME StreamInv, [Next]_vars PROVE [Sink!Next]_<<open, Observed>>
  OBVIOUS
<1> DEFINE at == walk[Len(walk)].at
           count == Len(nodes[walk[Len(walk)].cont].children)
<1>1. CASE UNCHANGED vars
  BY <1>1 DEF vars, Observed
<1>2. ASSUME phase = "live"
      PROVE  /\ NodesInv /\ WalkInv /\ Path(walk, source)
             /\ at \in Nat \ {0} /\ count \in Nat
             /\ Observed = "live" /\ (More <=> at <= count)
             /\ at <= count + 1
  <2>1. NodesInv /\ WalkInv /\ Path(walk, source)
    BY <1>2 DEF StreamInv, WalkInv
  <2>2. /\ Last(walk) = walk[Len(walk)] /\ walk[Len(walk)].cont \in 1..Len(source)
        /\ at \in 1..(Len(source[walk[Len(walk)].cont].children) + 1)
    BY <2>1, PathFacts
  <2>3. nodes[walk[Len(walk)].cont].children = source[walk[Len(walk)].cont].children
    BY <1>2, <2>1, <2>2 DEF NodesInv
  <2>4. source[walk[Len(walk)].cont].children \in Seq(Nat)
    BY <2>1, <2>2, SourceFacts DEF NodesInv
  <2>5. count \in Nat /\ at \in 1..(count + 1)
    BY <2>2, <2>3, <2>4
  <2>6. More <=> at <= count
    BY <2>2 DEF More, Streaming
  <2>7. Observed = "live"
    BY <1>2 DEF Observed
  <2> QED
    BY <2>1, <2>5, <2>6, <2>7
<1>3. ASSUME phase = "live"
      PROVE  /\ open = <<>> <=> Len(walk) = 1
             /\ open # <<>> => /\ Last(open).count = count
                               /\ Last(open).children = at - 1
  BY <1>2, <1>3, InnermostFacts
<1> HIDE DEF at, count
<1>4. ASSUME phase = "live", More
      PROVE  Sink!Room
  BY <1>2, <1>3, <1>4, SinkSequences DEF Sink!Room
(* A sink that has refused an event or thrown is told of nothing more.     *)
<1>5. ASSUME phase' \in {"live", "thrown", "refused", "undefined"}
      PROVE  Observed' \in {"live", "cut"}
  BY <1>5 DEF Observed
<1>6. ASSUME phase = "live", Reply
      PROVE  phase' \in {"live", "thrown", "refused"}
  BY <1>6 DEF Reply, NextSink, RefusedByChain
<1>7. ASSUME phase = "live", NEW undefined, TreeReply(undefined)
      PROVE  phase' \in {"live", "undefined"}
  BY <1>7 DEF TreeReply
<1>8. CASE SendNode
  <2>1. phase = "live" /\ More /\ open' = ChildSent(open) /\ (TreeNode(Child) \/ UserNode)
    BY <1>8 DEF SendNode
  <2>2. Observed' \in {"live", "cut"}
    BY <1>5, <1>6, <1>7, <2>1 DEF TreeNode, UserNode
  <2>3. open' = Sink!AddChild(open)
    BY <2>1 DEF Sink!AddChild, ChildSent
  <2>4. Sink!PushNode
    BY <1>2, <1>4, <2>1, <2>2, <2>3 DEF Sink!PushNode, Observed
  <2> QED
    BY <2>4 DEF Sink!Next
<1>9. CASE SendStart
  <2>1. /\ phase = "live" /\ More /\ open' = Append(open, Announced(Child))
        /\ TreeStart(Child) \/ UserStart
    BY <1>9 DEF SendStart
  <2>2. Observed' \in {"live", "cut"}
    BY <1>5, <1>6, <1>7, <2>1 DEF TreeStart, UserStart
  <2> DEFINE n == Len(nodes[Child].children)
  <2>3. /\ Child \in 1..Len(source) /\ \A i \in 1..Len(walk) : walk[i].cont < Child
        /\ source \in Sources /\ Child \in Nat
    <3>1. /\ Child \in 1..Len(source) /\ \A i \in 1..Len(walk) : walk[i].cont < Child
      BY <1>2, <2>1, ChildFacts
    <3>2. source \in Sources
      BY <1>2, <2>1 DEF NodesInv
    <3> QED
      BY <3>1, <3>2
  <2>4. Child \in 1..(2 * MaxNodes) /\ n \in 0..MaxChildren
    <3>1. /\ Len(source) \in Nat /\ Len(source) <= MaxNodes
          /\ Len(source[Child].children) \in 0..MaxChildren
      BY <2>3, SourceFacts
    <3>2. nodes[Child].children = source[Child].children
      BY <1>2, <2>1, <2>3 DEF NodesInv
    <3> QED
      BY <2>3, <3>1, <3>2, NodeTreeAssumption
  <2>5. \A i \in DOMAIN open : open[i].id # Child
    <3>1. Announcing(open, walk, source) /\ Path(walk, source) /\ Len(walk) \in Nat
      BY <1>2, <2>1, OpenLength DEF WalkInv
    <3>2. open \in Seq(OpenRecord) /\ DOMAIN open = 1..Len(open)
      BY <3>1 DEF Announcing
    <3>3. ASSUME NEW i \in 1..Len(open)
          PROVE  open[i].id # Child
      <4>1. open[i].id = walk[i + 1].cont /\ Len(open) = Len(walk) - 1
        BY <3>1, <3>3 DEF Announcing
      <4>2. i + 1 \in 1..Len(walk)
        BY <3>1, <4>1
      <4>3. walk[i + 1].cont < Child /\ walk[i + 1].cont \in Nat
        BY <2>3, <3>1, <4>2 DEF Path
      <4> QED
        BY <2>3, <4>1, <4>3
    <3> QED
      BY <3>2, <3>3
  <2>6. open' = Append(open, Sink!Opened(Child, n))
    BY <2>1 DEF Announced, Sink!Opened
  <2> HIDE DEF n
  <2>7. Sink!StartContainer(Child, n)
    BY <1>2, <1>4, <2>1, <2>2, <2>5, <2>6 DEF Sink!StartContainer, Observed
  <2> QED
    BY <2>4, <2>7 DEF Sink!Next
<1>10. CASE SendEnd
  <2>1. /\ phase = "live" /\ ~More /\ Len(walk) > 1 /\ open' = ChildSent(Front(open))
        /\ TreeEnd \/ UserEnd
    BY <1>10 DEF SendEnd
  <2>2. Observed' \in {"live", "cut"}
    BY <1>5, <1>6, <1>7, <2>1 DEF TreeEnd, UserEnd
  <2>3. open' = Sink!AddChild(Sink!Front(open))
    BY <2>1, SinkSequences DEF Sink!AddChild, ChildSent
  <2>4. open # <<>>
    <3> DEFINE m == Len(walk)
    <3>1. m \in Nat /\ m > 1
      BY <1>2, <2>1, OpenLength
    <3> HIDE DEF m
    <3>2. m # 1
      BY <3>1
    <3> QED
      BY <1>3, <2>1, <3>2 DEF m
  <2>5. Sink!Kept(Sink!Last(open))
    <3>1. count = at - 1
      BY <1>2, <2>1
    <3>2. Last(open).count = Last(open).children
      BY <1>3, <2>1, <2>4, <3>1
    <3> QED
      BY <3>2, SinkSequences DEF Sink!Kept
  <2>6. Sink!EndContainer
    BY <1>2, <2>1, <2>2, <2>3, <2>4, <2>5 DEF Sink!EndContainer, Observed
  <2> QED
    BY <2>6 DEF Sink!Next
<1>11. CASE EndOfStream
  <2>1. open' = open
    BY <1>11 DEF EndOfStream
  <2>2. CASE phase = "refused" /\ phase' \in {"stopped", "thrown"}
    BY <2>1, <2>2 DEF Observed
  <2>3. CASE phase = "live" /\ Len(walk) = 1 /\ phase' = "ended"
    <3>1. Sink!EndOfStream
      BY <1>2, <1>3, <2>1, <2>3 DEF Sink!EndOfStream, Observed
    <3> QED
      BY <3>1 DEF Sink!Next
  <2>4. CASE phase = "live" /\ phase' = "thrown"
    <3>1. Sink!Cut
      BY <2>1, <2>4 DEF Sink!Cut, Observed
    <3> QED
      BY <3>1 DEF Sink!Next
  <2> QED
    BY <1>11, <2>2, <2>3, <2>4 DEF EndOfStream
<1> QED
  BY <1>1, <1>8, <1>9, <1>10, <1>11 DEF Next

(* What FromTree sends is a stream of StreamProtocol: containers nest, the *)
(* counts it announces are kept, and only an end_of_stream follows a       *)
(* refusal - also when the sink adds to the tree that is streamed.         *)
THEOREM FromTreeKeepsProtocol == Spec => KeepsProtocol
<1>1. Init => Sink!Init
  BY DEF Init, Sink!Init
<1>2. Spec => Sink!Init /\ [][Sink!Next]_<<open, Observed>>
  BY <1>1, StepKeepsProtocol, StreamInvariant, PTL DEF Spec
<1> QED
  BY <1>2 DEF KeepsProtocol, Sink!Spec, Sink!vars, Observed

-----------------------------------------------------------------------------
(* What containers hold, by value.                                         *)

(* A set of natural numbers has a least element.                           *)
LEMMA MinExists ==
    ASSUME NEW T \in SUBSET Nat, T # {}
    PROVE  \E m \in T : \A n \in T : m <= n
<1> DEFINE R == {ss \in Nat \X Nat : ss[1] < ss[2]}
<1>1. OpToRel(<, Nat) = R
  BY DEF OpToRel
<1>2. IsWellFoundedOn(R, Nat)
  BY NatLessThanWellFounded, <1>1
<1>3. \A m, n \in Nat : n < m => <<n, m>> \in R
  OBVIOUS
<1> HIDE DEF R
<1>4. PICK m \in T : \A n \in T : ~(<<n, m>> \in R)
  BY <1>2, WFMin
<1>5. \A k, n \in Nat : k <= n \/ n < k
  OBVIOUS
<1> QED
  BY <1>3, <1>4, <1>5

(* The children of c with what f says that they hold.                      *)
Holds(ns, c, f) ==
    [i \in DOMAIN ns[c].children |->
        LET n == ns[c].children[i] IN <<ns[n].id, ns[n].cont, f[n]>>]

Contents(ns) == [c \in DOMAIN ns |-> Content(ns, c)]

(* Every container is above its children.                                  *)
Above(ns, rank) ==
    \A c \in DOMAIN ns : \A i \in DOMAIN ns[c].children :
        LET n == ns[c].children[i] IN n \in DOMAIN ns /\ rank[n] < rank[c]

(* Content is then what its recursive definition says.                     *)
Unfolds(ns) == \A c \in DOMAIN ns : Content(ns, c) = Holds(ns, c, Contents(ns))

(* Along edges of falling rank the definition has exactly one solution:    *)
(* the CHOOSE of Contents finds it, and it is built rank by rank.          *)
LEMMA ContentUnfolds ==
    ASSUME NEW ns, NEW rank, NEW top \in Nat,
           \A c \in DOMAIN ns : rank[c] \in Nat /\ rank[c] < top,
           Above(ns, rank)
    PROVE  Unfolds(ns)
<1> DEFINE G(f) == [c \in DOMAIN ns |-> Holds(ns, c, f)]
           F == CHOOSE f : f = G(f)
           Good(k, f) == /\ f = [c \in DOMAIN ns |-> f[c]]
                         /\ \A c \in DOMAIN ns : rank[c] < k => f[c] = Holds(ns, c, f)
           T == {k \in Nat : ~\E f : Good(k, f)}
<1>1. \A c : Content(ns, c) = F[c]
  BY DEF Content, Holds
<1>2. T = {}
  <2> SUFFICES ASSUME T # {} PROVE FALSE
    OBVIOUS
  <2>1. T \in SUBSET Nat
    OBVIOUS
  <2>2. PICK k \in T : \A j \in T : k <= j
    BY <2>1, MinExists
  <2>3. k \in Nat /\ ~\E f : Good(k, f)
    BY <2>2
  <2>4. k # 0
    <3> DEFINE f == [c \in DOMAIN ns |-> 0]
    <3>1. ~(k = 0 /\ \E c \in DOMAIN ns : rank[c] < k)
      OBVIOUS
    <3>2. f = [c \in DOMAIN ns |-> f[c]]
      OBVIOUS
    <3> HIDE DEF f
    <3>3. k = 0 => Good(k, f)
      BY <3>1, <3>2
    <3> QED
      BY <2>3, <3>3
  <2>5. k - 1 \in Nat /\ ~(k <= k - 1)
    BY <2>3, <2>4
  <2>6. PICK f : Good(k - 1, f)
    BY <2>2, <2>5
  <2> DEFINE g == G(f)
  <2>7. \A c \in DOMAIN ns : g[c] = Holds(ns, c, f)
    OBVIOUS
  <2>8. g = [c \in DOMAIN ns |-> g[c]]
    OBVIOUS
  <2> HIDE DEF g
  <2>9. ASSUME NEW c \in DOMAIN ns, rank[c] < k
        PROVE  g[c] = Holds(ns, c, g)
    <3>1. ASSUME NEW i \in DOMAIN ns[c].children
          PROVE  f[ns[c].children[i]] = g[ns[c].children[i]]
      <4> DEFINE n == ns[c].children[i]
      <4>1. n \in DOMAIN ns /\ rank[n] < rank[c]
        BY DEF Above
      <4> HIDE DEF n
      <4>2. rank[n] < k - 1
        <5>1. rank[n] \in Nat /\ rank[c] \in Nat
          BY <4>1
        <5> QED
          BY <2>3, <2>9, <4>1, <5>1
      <4>3. f[n] = Holds(ns, n, f)
        BY <2>6, <4>1, <4>2
      <4> QED
        BY <2>7, <4>1, <4>3 DEF n
    <3>2. Holds(ns, c, f) = Holds(ns, c, g)
      BY <3>1 DEF Holds
    <3> QED
      BY <2>7, <3>2
  <2>10. Good(k, g)
    BY <2>8, <2>9
  <2> QED
    BY <2>3, <2>10
<1>3. PICK f : Good(top, f)
  BY <1>2
<1>4. f = G(f)
  BY <1>3
<1>5. F = G(F)
  <2> HIDE DEF G
  <2> QED
    BY <1>4
<1> HIDE DEF F
<1>6. \A c \in DOMAIN ns : F[c] = Holds(ns, c, F)
  <2>1. F = [c \in DOMAIN ns |-> Holds(ns, c, F)]
    BY <1>5
  <2> QED
    BY <2>1, Zenon
<1>7. ASSUME NEW c \in DOMAIN ns
      PROVE  Holds(ns, c, F) = Holds(ns, c, Contents(ns))
  <2>1. ASSUME NEW i \in DOMAIN ns[c].children
        PROVE  F[ns[c].children[i]] = Contents(ns)[ns[c].children[i]]
    <3> DEFINE n == ns[c].children[i]
    <3>1. n \in DOMAIN ns
      BY DEF Above
    <3> HIDE DEF n
    <3>2. Contents(ns)[n] = Content(ns, n)
      BY <3>1 DEF Contents
    <3> QED
      BY <1>1, <3>2 DEF n
  <2> QED
    BY <2>1 DEF Holds
<1> QED
  BY <1>1, <1>6, <1>7 DEF Unfolds

(* Nodes in S hold what those of src hold that they stand for, if it is so *)
(* for their own lists.                                                    *)
Alike(ns, src, f, S) ==
    \A m \in S :
        /\ m \in DOMAIN ns /\ f[m] \in 1..Len(src)
        /\ DOMAIN ns[m].children = DOMAIN src[f[m]].children
        /\ \A i \in DOMAIN ns[m].children :
              LET n == ns[m].children[i] IN
              /\ n \in S /\ f[n] = src[f[m]].children[i] /\ f[n] > f[m]
              /\ ns[n].id = src[f[n]].id /\ ns[n].cont = src[f[n]].cont

HoldTheSame(ns, src, f, S) == \A m \in S : Content(ns, m) = Content(src, f[m])

(* Trees that are alike node for node hold the same: of the nodes that do  *)
(* not, the one latest in the source has children that do, and so does     *)
(* itself.                                                                 *)
LEMMA SameContent ==
    ASSUME NEW ns, NEW src, Len(src) \in Nat, DOMAIN src = 1..Len(src),
           NEW S, NEW f, Alike(ns, src, f, S), Unfolds(ns), Unfolds(src)
    PROVE  HoldTheSame(ns, src, f, S)
<1> DEFINE Bad == {m \in S : Content(ns, m) # Content(src, f[m])}
           T == {Len(src) - f[m] : m \in Bad}
<1>1. \A m \in S : m \in DOMAIN ns /\ f[m] \in 1..Len(src)
  BY DEF Alike
<1> SUFFICES ASSUME T # {} PROVE FALSE
  BY DEF HoldTheSame
<1>2. T \in SUBSET Nat
  <2>1. ASSUME NEW m \in Bad PROVE Len(src) - f[m] \in Nat
    <3>1. f[m] \in 1..Len(src)
      BY <1>1
    <3> QED
      BY <3>1
  <2> QED
    BY <2>1
<1>3. PICK t \in T : \A u \in T : t <= u
  BY <1>2, MinExists
<1>4. PICK m \in Bad : t = Len(src) - f[m]
  OBVIOUS
<1>5. m \in S /\ Content(ns, m) # Content(src, f[m])
  BY <1>4
<1>6. ASSUME NEW i \in DOMAIN ns[m].children
      PROVE  LET n == ns[m].children[i] IN
             /\ f[n] = src[f[m]].children[i]
             /\ ns[n].id = src[f[n]].id /\ ns[n].cont = src[f[n]].cont
             /\ Contents(ns)[n] = Contents(src)[f[n]]
  <2> DEFINE n == ns[m].children[i]
  <2>1. /\ n \in S /\ f[n] = src[f[m]].children[i] /\ f[n] > f[m]
        /\ ns[n].id = src[f[n]].id /\ ns[n].cont = src[f[n]].cont
    BY <1>5 DEF Alike
  <2> HIDE DEF n
  <2>2. n \in DOMAIN ns /\ f[n] \in DOMAIN src
    BY <1>1, <2>1
  <2>3. n \notin Bad
    <3> SUFFICES ASSUME n \in Bad PROVE FALSE
      OBVIOUS
    <3>1. Len(src) - f[n] \in T
      OBVIOUS
    <3>2. t <= Len(src) - f[n]
      BY <1>3, <3>1
    <3>3. f[n] \in 1..Len(src) /\ f[m] \in 1..Len(src)
      BY <1>1, <1>5, <2>1
    <3> HIDE DEF T, Bad
    <3> QED
      BY <1>4, <2>1, <3>2, <3>3
  <2>4. Content(ns, n) = Content(src, f[n])
    BY <2>1, <2>3
  <2>5. Contents(ns)[n] = Contents(src)[f[n]]
    BY <2>2, <2>4 DEF Contents
  <2> QED
    BY <2>1, <2>5 DEF n
<1>7. Holds(ns, m, Contents(ns)) = Holds(src, f[m], Contents(src))
  <2>1. DOMAIN ns[m].children = DOMAIN src[f[m]].children
    BY <1>5 DEF Alike
  <2>2. ASSUME NEW i \in DOMAIN ns[m].children
        PROVE  Holds(ns, m, Contents(ns))[i] = Holds(src, f[m], Contents(src))[i]
    BY <1>6, <2>1 DEF Holds
  <2> DEFINE a == Holds(ns, m, Contents(ns))
             b == Holds(src, f[m], Contents(src))
  <2>3. a = [i \in DOMAIN ns[m].children |-> a[i]]
    BY DEF Holds
  <2>4. b = [i \in DOMAIN src[f[m]].children |-> b[i]]
    BY DEF Holds
  <2>5. \A i \in DOMAIN ns[m].children : a[i] = b[i]
    BY <2>2
  <2> HIDE DEF a, b
  <2>6. a = b
    BY <2>1, <2>3, <2>4, <2>5
  <2> QED
    BY <2>6 DEF a, b
<1>8. m \in DOMAIN ns /\ f[m] \in DOMAIN src
  BY <1>1, <1>5
<1> QED
  BY <1>5, <1>7, <1>8 DEF Unfolds

-----------------------------------------------------------------------------
(* What ToTree has built so far.                                           *)

(* The children of a copy come after it, or are of the source.             *)
Ranked(ns, len) ==
    \A m \in (len + 1)..Len(ns) : \A i \in 1..Len(ns[m].children) :
        ns[m].children[i] \in (m + 1)..Len(ns) \cup 1..len

(* The children of the root begin where the chain switched.                *)
First(m) == IF m = root THEN switched.at ELSE 1

(* f tells of every node which one of the source it stands for: ...        *)
Standing(f) ==
    /\ f \in [1..Len(nodes) -> 1..Len(source)]
    /\ \A n \in 1..Len(source) : f[n] = n
    /\ \A m \in 1..Len(nodes) :
          m # root => nodes[m].id = source[f[m]].id /\ nodes[m].cont = source[f[m]].cont

(* ... the children that a copy has got stand for those of its original,   *)
(* in order; ...                                                           *)
Matching(f) ==
    \A m \in (Len(source) + 1)..Len(nodes) : \A i \in 1..Len(nodes[m].children) :
        f[nodes[m].children[i]] = source[f[m]].children[First(m) - 1 + i]

(* ... and they are all of those, or, of a container that is open, those   *)
(* that its loop has been through.                                         *)
Whole(f) ==
    \A m \in (Len(source) + 1)..Len(nodes) :
        (\A k \in 1..Len(stack) : stack[k] # m) =>
            Len(nodes[m].children) + First(m) = Len(source[f[m]].children) + 1

Begun(f) ==
    \A k \in 1..Len(stack) :
        /\ f[stack[k]] = walk[k].cont
        /\ stack[k] > Len(source) =>
              Len(nodes[stack[k]].children) + First(stack[k]) = walk[k].at

(* A node of the source knows the parent it had, or that of those that     *)
(* were copied whose list it has been added to.                            *)
Parents ==
    \A n \in 1..Len(source) :
        IF source[n].parent # Null THEN nodes[n].parent = source[n].parent
        ELSE /\ nodes[n].parent \in 0..Len(nodes)
             /\ nodes[n].parent > Len(source) =>
                   \E i \in 1..Len(nodes[nodes[n].parent].children) :
                       nodes[nodes[n].parent].children[i] = n

Copying(f) == Standing(f) /\ Matching(f) /\ Whole(f) /\ Begun(f)

CopyGoesOn == Parents /\ \E f : Copying(f)

(* Nothing has been sent to the ToTree yet.                                *)
Fresh ==
    /\ Len(nodes) = Len(source) + 1 /\ nodes[root].children = <<>>
    /\ \A n \in 1..Len(source) : nodes[n].parent = source[n].parent

Running == phase \in {"live", "ended"}

CopyInv ==
    /\ phase # "undefined" => Ranked(nodes, Len(source))
    /\ switched.at \in Nat \ {0}
    /\ Running /\ root # 1 /\ CurrentSink = "user" => Fresh
    /\ Running /\ root # 1 /\ CurrentSink = "tree" /\ switched.open = 0 /\ ListedOnce =>
          CopyGoesOn
    /\ phase = "ended" =>
          /\ walk[1].cont = 1 /\ walk[1].at = Len(source[1].children) + 1
          /\ CurrentSink = "tree" /\ switched.open = 0 => stack = <<root>>

-----------------------------------------------------------------------------
(* What ToTree does with what it is sent, for the tree that it builds.     *)

(* A source node that is not a container has no children.                  *)
LEMMA OnlyContainersHaveChildren ==
    ASSUME NEW src \in Sources, NEW c \in 1..Len(src), ~src[c].cont
    PROVE  Len(src[c].children) = 0
<1>1. DOMAIN src = 1..Len(src)
  BY SourceFacts
<1>2. src[c].children = <<>>
  BY <1>1, SourcesAssumption
<1> QED
  BY <1>2

(* The container that is added to when no iterator is invalidated is not   *)
(* one of the source.                                                      *)
LEMMA AddsToCopies ==
    ASSUME NodesInv, Path(walk, source), TreeInv, switched.open \in Nat, ~Invalidates(Child)
    PROVE  /\ CurrParent \in 1..Len(nodes) /\ Len(source) \in Nat /\ Len(nodes) \in Nat
           /\ ParentOf(Child) # CurrParent => CurrParent > Len(source)
<1>1. /\ CurrParent \in 1..Len(nodes)
      /\ CurrParent <= Len(source) => \E i \in 1..Len(walk) : walk[i].cont = CurrParent
  BY CurrParentFacts
<1>2. Len(source) \in Nat /\ Len(nodes) \in Nat
  BY SourceFacts DEF NodesInv
<1>3. DOMAIN walk = 1..Len(walk)
  BY DEF Path
<1>4. ParentOf(Child) # CurrParent => ~(CurrParent <= Len(source))
  BY <1>1, <1>3 DEF Invalidates
<1> QED
  BY <1>1, <1>2, <1>4

(* A child that is received is a new node, or one of the source.           *)
LEMMA ReceiveKeepsRanks ==
    ASSUME NodesInv, phase = "live", Path(walk, source), More, TreeInv,
           switched.open \in Nat, Receive(Child), ~Invalidates(Child),
           Ranked(nodes, Len(source))
    PROVE  Ranked(nodes', Len(source))
<1> DEFINE p == CurrParent
           m == Received(Child)
           len == Len(source)
           l == Len(nodes)
<1>1. /\ p \in 1..l /\ len \in Nat /\ l \in Nat /\ (ParentOf(Child) # p => p > len)
      /\ Child \in 1..len /\ len <= l
  BY AddsToCopies, ChildFacts DEF NodesInv
<1>2. CASE ParentOf(Child) = p
  <2>1. nodes' = nodes
    BY <1>2 DEF Receive, tree_vars
  <2> QED
    BY <2>1
<1>3. CASE ParentOf(Child) # p
  <2>1. /\ nodes \in Seq(NodeRecord) /\ Child \in 1..l
        /\ nodes' \in Seq(NodeRecord) /\ Len(nodes') >= l
        /\ m = IF Copies(Child) THEN l + 1 ELSE Child
        /\ nodes'[p].children = Append(nodes[p].children, m)
        /\ Copies(Child) => Len(nodes') = l + 1 /\ nodes'[l + 1].children = <<>>
        /\ ~Copies(Child) => Len(nodes') = l
        /\ \A k \in 1..l : k # p => nodes'[k].children = nodes[k].children
    <3>1. Child \in 1..Len(nodes) /\ nodes \in Seq(NodeRecord) /\ alive = DOMAIN nodes
      BY <1>1 DEF NodesInv
    <3> QED
      BY <1>1, <1>3, <3>1, ReceiveFacts
  <2>2. nodes[p].children \in Seq(Nat)
    BY <1>1, <2>1, NodeFields
  <2>3. p > len /\ p \in (len + 1)..l
    BY <1>1, <1>3
  <2>4. \A k \in (len + 1)..l : \A i \in 1..Len(nodes[k].children) :
            nodes[k].children[i] \in (k + 1)..l \cup 1..len
    BY DEF Ranked
  <2> DEFINE l2 == Len(nodes')
  <2>5. l2 \in {l, l + 1} /\ (l2 = l + 1 <=> Copies(Child))
    BY <1>1, <2>1
  <2> HIDE DEF p, m, len, l, l2
  <2>6. ASSUME NEW k \in (len + 1)..l2, NEW i \in 1..Len(nodes'[k].children)
        PROVE  nodes'[k].children[i] \in (k + 1)..l2 \cup 1..len
    <3>1. CASE k = l + 1
      <4>1. nodes'[k].children = <<>>
        BY <1>1, <2>1, <2>5, <2>6, <3>1
      <4>2. FALSE
        BY <2>6, <4>1
      <4> QED
        BY <4>2
    <3>2. CASE k # l + 1 /\ k # p
      <4>1. k \in (len + 1)..l /\ k \in 1..l
        BY <1>1, <2>5, <3>2
      <4>2. nodes'[k].children = nodes[k].children
        BY <2>1, <3>2, <4>1
      <4>3. nodes[k].children[i] \in (k + 1)..l \cup 1..len
        BY <2>4, <2>6, <4>1, <4>2
      <4>4. l2 \in {l, l + 1} /\ l \in Nat /\ len \in Nat
        BY <1>1, <2>5
      <4> QED
        BY <2>6, <4>2, <4>3, <4>4
    <3>3. CASE k = p
      <4> DEFINE q == nodes[p].children
                 n == Len(q)
      <4>1. q \in Seq(Nat) /\ n \in Nat
        BY <2>2
      <4>2. m \in Nat
        BY <1>1, <2>1
      <4>3. /\ Len(Append(q, m)) = n + 1 /\ Append(q, m)[n + 1] = m
            /\ \A j \in 1..n : Append(q, m)[j] = q[j]
        BY <4>1, <4>2, AppendProperties
      <4>4. nodes'[k].children = Append(q, m)
        BY <2>1, <3>3
      <4>5. i \in 1..(n + 1) /\ (i = n + 1 \/ i \in 1..n)
        BY <2>6, <4>1, <4>3, <4>4
      <4>6. CASE i = n + 1
        <5>1. m \in (p + 1)..l2 \cup 1..len
          BY <1>1, <2>1, <2>3, <2>5
        <5> QED
          BY <3>3, <4>3, <4>4, <4>6, <5>1
      <4>7. CASE i \in 1..n
        <5>1. q[i] \in (p + 1)..l \cup 1..len
          BY <2>3, <2>4, <4>7
        <5>2. nodes'[k].children[i] = q[i]
          BY <4>3, <4>4, <4>7
        <5> HIDE DEF q
        <5> QED
          BY <1>1, <2>5, <3>3, <5>1, <5>2
      <4> QED
        BY <4>5, <4>6, <4>7
    <3> QED
      BY <3>1, <3>2, <3>3
  <2> QED
    BY <2>6 DEF Ranked, len, l2
<1> QED
  BY <1>2, <1>3

(* The container that is added to stands for the one that the loop is in.  *)
LEMMA InTheLoop ==
    ASSUME NodesInv, Path(walk, source), TreeInv, switched.open = 0, NEW f, Begun(f)
    PROVE  LET c == walk[Len(walk)] IN
           /\ Len(stack) = Len(walk) /\ Len(stack) \in Nat \ {0}
           /\ CurrParent = stack[Len(stack)] /\ f[CurrParent] = c.cont
           /\ CurrParent > Len(source) =>
                 Len(nodes[CurrParent].children) + First(CurrParent) = c.at
           /\ \A k \in 1..(Len(stack) - 1) : stack[k] # CurrParent
<1>1. /\ Len(stack) \in Nat \ {0} /\ CurrParent = stack[Len(stack)]
      /\ Len(stack) = Len(walk)
  BY CurrParentFacts, PathFacts DEF TreeInv
<1> DEFINE n == Len(stack)
<1>2. /\ f[stack[n]] = walk[n].cont
      /\ stack[n] > Len(source) => Len(nodes[stack[n]].children) + First(stack[n]) = walk[n].at
      /\ \A k \in 1..n : f[stack[k]] = walk[k].cont
  BY <1>1 DEF Begun
<1>3. ASSUME NEW k \in 1..(n - 1)
      PROVE  stack[k] # stack[n]
  <2>1. k \in 1..n /\ n \in 1..n /\ k < n
    BY <1>1
  <2>2. walk[k].cont < walk[n].cont /\ walk[k].cont \in Nat
    BY <1>1, <2>1 DEF Path
  <2>3. walk[k].cont # walk[n].cont
    BY <2>2
  <2> QED
    BY <1>2, <2>1, <2>3
<1> QED
  BY <1>1, <1>2, <1>3

(* A child of one of those that were copied that is already in its list    *)
(* was there before, or it is twice in the list of the source.             *)
LEMMA NotYetReceived ==
    ASSUME NodesInv, phase = "live", Path(walk, source), More, TreeInv, switched.open = 0,
           root # 1, ListedOnce, Parents, NEW f, Standing(f), Matching(f), Begun(f),
           CurrParent > Len(source), switched.at \in Nat \ {0}
    PROVE  ParentOf(Child) # CurrParent
<1> SUFFICES ASSUME ParentOf(Child) = CurrParent PROVE FALSE
  OBVIOUS
<1> DEFINE p == CurrParent
           len == Len(source)
           c == walk[Len(walk)].cont
           at == walk[Len(walk)].at
           q == nodes[p].children
<1>1. /\ c \in 1..len /\ at \in Nat \ {0} /\ at <= Len(source[c].children)
      /\ Child \in 1..len /\ source[Child].parent \in {Null, c}
      /\ Child = source[c].children[at] /\ Len(source[c].children) \in Nat
      /\ source[c].children \in Seq(Nat)
  <2>1. /\ c \in 1..len /\ at \in Nat \ {0} /\ at <= Len(source[c].children)
        /\ Child \in 1..len /\ source[Child].parent \in {Null, c}
        /\ Len(source[c].children) \in Nat
    BY ChildFacts
  <2>2. Child = nodes[c].children[at] /\ nodes[c].children = source[c].children
    BY <2>1, PathFacts DEF NodesInv, Child, Streaming
  <2>3. source \in Sources
    BY DEF NodesInv
  <2>4. source[c].children \in Seq(Nat)
    BY <2>1, <2>3, SourceFacts
  <2> QED
    BY <2>1, <2>2, <2>4
<1>2. /\ f[p] = c /\ Len(q) + First(p) = at
      /\ p \in 1..Len(nodes) /\ p > len /\ len \in Nat
      /\ nodes \in Seq(NodeRecord) /\ Len(nodes) \in Nat
  <2>1. f[p] = c /\ Len(q) + First(p) = at
    BY InTheLoop
  <2>2. p \in 1..Len(nodes) /\ len \in Nat /\ nodes \in Seq(NodeRecord)
    BY CurrParentFacts, SourceFacts DEF NodesInv
  <2> QED
    BY <2>1, <2>2
<1>3. /\ \A n \in 1..len :
            IF source[n].parent # Null THEN nodes[n].parent = source[n].parent
            ELSE nodes[n].parent > len =>
                    \E i \in 1..Len(nodes[nodes[n].parent].children) :
                        nodes[nodes[n].parent].children[i] = n
      /\ \A k \in (len + 1)..Len(nodes) : \A i \in 1..Len(nodes[k].children) :
            f[nodes[k].children[i]] = source[f[k]].children[First(k) - 1 + i]
      /\ f[Child] = Child
  BY <1>1 DEF Parents, Matching, Standing
<1>4. nodes[Child].parent = p /\ Null = 0
  BY <1>2 DEF ParentOf, Null
<1>5. First(p) \in Nat \ {0}
  BY DEF First
<1>6. Len(q) \in Nat /\ DOMAIN source = 1..len
  BY <1>2, NodeFields, SourceFacts DEF NodesInv
<1>7. \A i, j \in DOMAIN source[c].children :
         source[source[c].children[i]].parent = Null
         /\ source[c].children[i] = source[c].children[j] => i = j
  BY <1>1, <1>6 DEF ListedOnce
<1> HIDE DEF p, c, at, len
<1>8. source[Child].parent = Null
  <2>1. source[Child].parent # Null => nodes[Child].parent = source[Child].parent
    BY <1>1, <1>3
  <2>2. c # p
    <3>1. c \in 1..len /\ p > len /\ len \in Nat
      BY <1>1, <1>2
    <3> QED
      BY <3>1
  <2>3. source[Child].parent \in {Null, c} /\ nodes[Child].parent = p
    BY <1>1, <1>4
  <2> QED
    BY <2>1, <2>2, <2>3
<1>9. PICK i \in 1..Len(q) : q[i] = Child
  <2>1. Child \in 1..len /\ nodes[Child].parent = p /\ p > len
    BY <1>1, <1>2, <1>4
  <2>2. \E i \in 1..Len(nodes[p].children) : nodes[p].children[i] = Child
    BY <1>3, <1>8, <2>1
  <2> QED
    BY <2>2
<1> DEFINE j == First(p) - 1 + i
<1>10. Child = source[c].children[j]
  <2>1. p \in (len + 1)..Len(nodes)
    BY <1>2
  <2>2. f[q[i]] = source[f[p]].children[First(p) - 1 + i]
    BY <1>3, <2>1
  <2> QED
    BY <1>2, <1>3, <1>9, <2>2
<1>11. j < at /\ j \in 1..Len(source[c].children)
  <2> DEFINE n == Len(q)
             k == First(p)
             l == Len(source[c].children)
  <2>1. n \in Nat /\ k \in Nat \ {0} /\ n + k = at /\ i \in 1..n /\ at <= l /\ l \in Nat
    BY <1>1, <1>2, <1>5, <1>6
  <2> HIDE DEF n, k, l
  <2>2. k - 1 + i < at /\ k - 1 + i \in 1..l
    BY <2>1
  <2> QED
    BY <2>2 DEF k, l
<1> HIDE DEF j
<1>12. j \in DOMAIN source[c].children /\ at \in DOMAIN source[c].children /\ j # at
  <2>1. source[c].children \in Seq(Nat) /\ at \in 1..Len(source[c].children)
    BY <1>1
  <2>2. j # at
    BY <1>11, <2>1
  <2>3. DOMAIN source[c].children = 1..Len(source[c].children)
    BY <2>1
  <2> QED
    BY <1>11, <2>1, <2>2, <2>3
<1> QED
  BY <1>1, <1>7, <1>8, <1>10, <1>12

(* What has been received, and f with what it stands for.                  *)
Extends(f, g) ==
    /\ Standing(g)' /\ Matching(g)' /\ Parents'
    /\ g[Received(Child)] = Child
    /\ \A k \in 1..Len(nodes) :
          g[k] = f[k] /\ (k # CurrParent => nodes'[k].children = nodes[k].children)
    /\ CurrParent > Len(source) =>
          Len(nodes'[CurrParent].children) = Len(nodes[CurrParent].children) + 1
    /\ \/ Len(nodes') = Len(nodes) /\ Received(Child) \in 1..Len(source)
       \/ /\ Len(nodes') = Len(nodes) + 1 /\ Received(Child) = Len(nodes) + 1
          /\ nodes'[Len(nodes) + 1].children = <<>>

(* A step that leaves the nodes alone leaves what their children stand     *)
(* for.                                                                    *)
LEMMA SameMatching ==
    ASSUME nodes' = nodes, source' = source, root' = root, switched' = switched, NEW f,
           Matching(f)
    PROVE  Matching(f)'
<1>1. \A k : First(k)' = First(k)
  BY DEF First
<1> QED
  BY <1>1 DEF Matching

(* One that is there already.                                              *)
LEMMA KeptExtends ==
    ASSUME NodesInv, phase = "live", Path(walk, source), More, TreeInv, switched.open = 0,
           root # 1, ListedOnce, Parents, NEW f, Standing(f), Matching(f), Begun(f),
           switched.at \in Nat \ {0}, Receive(Child), ParentOf(Child) = CurrParent,
           source' = source, root' = root, switched' = switched
    PROVE  Extends(f, f)
<1>1. nodes' = nodes /\ Received(Child) = Child
  BY DEF Receive, tree_vars, Received, Copies
<1>2. Child \in 1..Len(source) /\ Len(source) \in Nat /\ Len(source) <= Len(nodes)
  BY ChildFacts, SourceFacts DEF NodesInv
<1>3. ~(CurrParent > Len(source))
  BY NotYetReceived
<1>4. f[Child] = Child
  BY <1>2 DEF Standing
<1>5. Standing(f)'
  BY <1>1 DEF Standing
<1>6. Matching(f)'
  BY <1>1, SameMatching
<1>7. Parents'
  BY <1>1 DEF Parents
<1> QED
  BY <1>1, <1>2, <1>3, <1>4, <1>5, <1>6, <1>7 DEF Extends

(* One that is added, or a copy of it.                                     *)
LEMMA AddedExtends ==
    ASSUME NodesInv, phase = "live", Path(walk, source), More, TreeInv, switched.open = 0,
           root # 1, Parents, Ranked(nodes, Len(source)), NEW f, Standing(f), Matching(f), Begun(f),
           switched.at \in Nat \ {0}, Receive(Child), ParentOf(Child) # CurrParent,
           ~Invalidates(Child), source' = source, root' = root, switched' = switched
    PROVE  \E g : Extends(f, g)
<1> DEFINE p == CurrParent
           m == Received(Child)
           len == Len(source)
           l == Len(nodes)
           l2 == Len(nodes')
           c == walk[Len(walk)].cont
           at == walk[Len(walk)].at
           q == nodes[p].children
<1>1. /\ p \in 1..l /\ len \in Nat /\ l \in Nat /\ p > len /\ len <= l
      /\ Child \in 1..len /\ source[Child].parent \in {Null, c} /\ c \in 1..len
      /\ nodes \in Seq(NodeRecord) /\ root = len + 1 /\ root <= l
      /\ Child = source[c].children[at]
      /\ nodes[Child].id = source[Child].id /\ nodes[Child].cont = source[Child].cont
      /\ alive = 1..l
  <2>1. switched.open \in Nat
    OBVIOUS
  <2>2. /\ p \in 1..l /\ len \in Nat /\ l \in Nat /\ p > len
    BY <2>1, AddsToCopies
  <2>3. /\ Child \in 1..len /\ source[Child].parent \in {Null, c} /\ c \in 1..len
    BY ChildFacts
  <2>4. Child = nodes[c].children[at] /\ nodes[c].children = source[c].children
    BY <2>3, PathFacts DEF NodesInv, Child, Streaming
  <2>5. nodes \in Seq(NodeRecord) /\ root = len + 1 /\ root <= l /\ len <= l
    BY DEF NodesInv
  <2>6. nodes[Child].id = source[Child].id /\ nodes[Child].cont = source[Child].cont
    BY <2>3 DEF NodesInv
  <2>7. alive = 1..l
    BY <2>5 DEF NodesInv
  <2> QED
    BY <2>2, <2>3, <2>4, <2>5, <2>6, <2>7
<1>2. /\ nodes' \in Seq(NodeRecord) /\ l2 \in Nat
      /\ m = IF Copies(Child) THEN l + 1 ELSE Child
      /\ nodes'[m].id = source[Child].id /\ nodes'[m].cont = source[Child].cont
      /\ nodes'[p].children = Append(q, m) /\ nodes'[m].parent = p
      /\ Copies(Child) => l2 = l + 1 /\ nodes'[l + 1].children = <<>>
      /\ ~Copies(Child) => l2 = l
      /\ \A k \in 1..l : /\ k # p => nodes'[k].children = nodes[k].children
                         /\ k # m => nodes'[k].parent = nodes[k].parent
                         /\ nodes'[k].id = nodes[k].id /\ nodes'[k].cont = nodes[k].cont
  <2>1. Child \in 1..l /\ alive = DOMAIN nodes
    <3>1. alive = DOMAIN nodes
      BY DEF NodesInv
    <3>2. Child \in 1..len /\ len \in Nat /\ l \in Nat /\ len <= l
      BY <1>1
    <3> HIDE DEF len, l
    <3>3. Child \in 1..l
      BY <3>2
    <3> QED
      BY <3>1, <3>3
  <2>2. /\ nodes' \in Seq(NodeRecord)
        /\ m = IF Copies(Child) THEN l + 1 ELSE Child
        /\ nodes'[m].id = nodes[Child].id /\ nodes'[m].cont = nodes[Child].cont
        /\ nodes'[p].children = Append(q, m) /\ nodes'[m].parent = p
        /\ Copies(Child) => l2 = l + 1 /\ nodes'[l + 1].children = <<>>
        /\ ~Copies(Child) => l2 = l
        /\ \A k \in 1..l : /\ k # p => nodes'[k].children = nodes[k].children
                           /\ k # m => nodes'[k].parent = nodes[k].parent
                           /\ nodes'[k].id = nodes[k].id /\ nodes'[k].cont = nodes[k].cont
    <3>1. nodes \in Seq(NodeRecord) /\ p \in 1..l
      BY <1>1
    <3> QED
      BY <2>1, <3>1, ReceiveFacts
  <2>3. l2 \in Nat
    BY <2>2, LenProperties
  <2> QED
    BY <1>1, <2>2, <2>3
<1>3. q \in Seq(Nat) /\ Len(q) \in Nat
  <2>1. nodes[p] \in NodeRecord
    <3> HIDE DEF p, c, at, len
    <3> QED
      BY <1>1
  <2>2. q \in Seq(Nat)
    BY <2>1, NodeFields
  <2> QED
    BY <2>2, LenProperties
<1>4. /\ f[p] = c /\ Len(q) + First(p) = at
  BY <1>1, InTheLoop
<1>5. /\ f \in [1..l -> 1..len] /\ \A n \in 1..len : f[n] = n
      /\ \A k \in 1..l :
            k # root => nodes[k].id = source[f[k]].id /\ nodes[k].cont = source[f[k]].cont
  BY DEF Standing
<1>6. \A k \in (len + 1)..l : \A i \in 1..Len(nodes[k].children) :
         f[nodes[k].children[i]] = source[f[k]].children[First(k) - 1 + i]
  BY DEF Matching
<1>7. Copies(Child) <=> ParentOf(Child) # Null
  BY DEF Copies
<1>8. ~Copies(Child) => source[Child].parent = Null
  <2> SUFFICES ASSUME ~Copies(Child), source[Child].parent # Null PROVE FALSE
    OBVIOUS
  <2>1. nodes[Child].parent = c
    BY <1>1 DEF Parents
  <2>2. c \in alive /\ c # 0
    <3>1. c \in 1..len /\ len \in Nat /\ l \in Nat /\ len <= l
      BY <1>1
    <3> HIDE DEF c, len, l
    <3>2. c \in 1..l /\ c # 0
      BY <3>1
    <3> QED
      BY <1>1, <3>2
  <2> QED
    BY <1>7, <2>1, <2>2 DEF ParentOf, Null
<1>9. \A n \in 1..len :
         IF source[n].parent # Null THEN nodes[n].parent = source[n].parent
         ELSE /\ nodes[n].parent \in 0..l
              /\ nodes[n].parent > len =>
                    \E i \in 1..Len(nodes[nodes[n].parent].children) :
                        nodes[nodes[n].parent].children[i] = n
  BY DEF Parents
<1>10. First(p) \in Nat \ {0}
  BY DEF First
<1> HIDE DEF p, m, len, l, l2, c, at, q
<1>11. l2 \in {l, l + 1} /\ m \in 1..l2 /\ (l2 = l => m = Child) /\ (l2 = l + 1 => m = l + 1)
  <2>1. l2 = IF Copies(Child) THEN l + 1 ELSE l
    BY <1>2
  <2>2. m = IF Copies(Child) THEN l + 1 ELSE Child
    BY <1>2
  <2>3. l \in Nat /\ len \in Nat /\ len <= l /\ Child \in 1..len
    BY <1>1
  <2> QED
    BY <2>1, <2>2, <2>3
<1>12. PICK g : /\ \A k \in 1..l : k \in 1..l2 /\ g[k] = f[k]
                /\ l2 = l + 1 => l + 1 \in 1..l2 /\ g[l + 1] = Child
                /\ g \in [1..l2 -> 1..len]
  <2> DEFINE h == [k \in 1..l2 |-> IF k <= l THEN f[k] ELSE Child]
  <2>1. \A k \in 1..l : k \in 1..l2 /\ k <= l
    BY <1>1, <1>11
  <2>2. l2 = l + 1 => l + 1 \in 1..l2 /\ ~(l + 1 <= l)
    BY <1>1, <1>11
  <2>3. \A k \in 1..l2 : k \in 1..l \/ ~(k <= l)
    BY <1>1, <1>11
  <2>4. /\ \A k \in 1..l : k \in 1..l2 /\ h[k] = f[k]
        /\ l2 = l + 1 => l + 1 \in 1..l2 /\ h[l + 1] = Child
        /\ h \in [1..l2 -> 1..len]
    BY <1>1, <1>5, <2>1, <2>2, <2>3
  <2> HIDE DEF h
  <2> QED
    BY <2>4
<1>13. g[m] = Child
  BY <1>1, <1>5, <1>11, <1>12
<1>14. \A k \in 1..l2 : k \in 1..l \/ (k = l + 1 /\ l2 = l + 1)
  BY <1>1, <1>11
<1>15. Standing(g)'
  <2>1. \A n \in 1..len : g[n] = n
    BY <1>1, <1>5, <1>12
  <2>2. ASSUME NEW k \in 1..l2, k # root
        PROVE  nodes'[k].id = source[g[k]].id /\ nodes'[k].cont = source[g[k]].cont
    <3>1. CASE k \in 1..l
      <4>1. nodes'[k].id = nodes[k].id /\ nodes'[k].cont = nodes[k].cont
        BY <1>2, <3>1
      <4>2. nodes[k].id = source[f[k]].id /\ nodes[k].cont = source[f[k]].cont
        BY <1>5, <2>2, <3>1
      <4>3. g[k] = f[k]
        BY <1>12, <3>1
      <4> QED
        BY <4>1, <4>2, <4>3
    <3>2. CASE k = l + 1 /\ l2 = l + 1
      BY <1>2, <1>11, <1>12, <3>2
    <3> QED
      BY <1>14, <3>1, <3>2
  <2>3. /\ g \in [1..Len(nodes') -> 1..Len(source')] /\ \A n \in 1..Len(source') : g[n] = n
        /\ \A k \in 1..Len(nodes') :
              k # root' => nodes'[k].id = source'[g[k]].id /\ nodes'[k].cont = source'[g[k]].cont
    BY <1>12, <2>1, <2>2 DEF len, l2
  <2> QED
    BY <2>3 DEF Standing
<1>16. /\ Len(Append(q, m)) = Len(q) + 1 /\ Append(q, m)[Len(q) + 1] = m
       /\ \A j \in 1..Len(q) : Append(q, m)[j] = q[j]
  <2>1. m \in Nat
    BY <1>1, <1>11
  <2> QED
    BY <1>3, <2>1, AppendProperties
<1>17. \A k \in (len + 1)..l : \A i \in 1..Len(nodes[k].children) :
          nodes[k].children[i] \in 1..l
  <2>1. \A k \in (len + 1)..l : \A i \in 1..Len(nodes[k].children) :
           nodes[k].children[i] \in (k + 1)..l \cup 1..len
    BY DEF Ranked, len, l
  <2>2. \A k \in (len + 1)..l : (k + 1)..l \cup 1..len \subseteq 1..l
    BY <1>1
  <2> QED
    BY <2>1, <2>2
<1>18. \A k : First(k)' = First(k)
  BY DEF First
<1>19. Matching(g)'
  <2>1. ASSUME NEW k \in (len + 1)..l2, NEW i \in 1..Len(nodes'[k].children)
        PROVE  g[nodes'[k].children[i]] = source[g[k]].children[First(k) - 1 + i]
    <3>1. CASE k = l + 1 /\ l2 = l + 1
      <4>1. nodes'[k].children = <<>>
        <5>1. l2 # l
          BY <1>1, <3>1
        <5> QED
          BY <1>2, <3>1, <5>1
      <4>2. FALSE
        BY <2>1, <4>1
      <4> QED
        BY <4>2
    <3>2. CASE k \in 1..l /\ k # p
      <4>1. nodes'[k].children = nodes[k].children /\ k \in (len + 1)..l
        <5>1. nodes'[k].children = nodes[k].children
          BY <1>2, <3>2
        <5>2. len \in Nat /\ l \in Nat /\ l2 \in {l, l + 1}
          BY <1>1, <1>11
        <5>3. k \in (len + 1)..l
          BY <2>1, <3>2, <5>2
        <5> QED
          BY <5>1, <5>3
      <4>2. f[nodes[k].children[i]] = source[f[k]].children[First(k) - 1 + i]
        BY <1>6, <2>1, <4>1
      <4>3. nodes[k].children[i] \in 1..l
        BY <1>17, <2>1, <4>1
      <4> QED
        BY <1>12, <3>2, <4>1, <4>2, <4>3
    <3>3. CASE k = p
      <4>1. i \in 1..Len(q) \/ i = Len(q) + 1
        BY <1>2, <1>3, <1>16, <2>1, <3>3
      <4>2. g[k] = c
        BY <1>1, <1>4, <1>12, <3>3
      <4>3. CASE i \in 1..Len(q)
        <5>1. p \in (len + 1)..l /\ q = nodes[p].children
          BY <1>1 DEF q
        <5>2. f[q[i]] = source[f[p]].children[First(p) - 1 + i] /\ q[i] \in 1..l
          BY <1>6, <1>17, <4>3, <5>1
        <5>3. nodes'[k].children[i] = q[i]
          BY <1>2, <1>16, <3>3, <4>3
        <5> QED
          BY <1>4, <1>12, <3>3, <4>2, <5>2, <5>3
      <4>4. CASE i = Len(q) + 1
        <5>1. First(p) - 1 + i = at
          BY <1>3, <1>4, <1>10, <4>4
        <5>2. nodes'[k].children[i] = m
          BY <1>2, <1>16, <3>3, <4>4
        <5> QED
          BY <1>1, <1>13, <3>3, <4>2, <5>1, <5>2
      <4> QED
        BY <4>1, <4>3, <4>4
    <3>4. k \in 1..l2
      BY <1>1, <2>1
    <3> QED
      BY <1>14, <3>1, <3>2, <3>3, <3>4
  <2> QED
    BY <1>18, <2>1 DEF Matching, len, l2
<1>20. Parents'
  <2>1. ASSUME NEW n \in 1..len
        PROVE  IF source[n].parent # Null THEN nodes'[n].parent = source[n].parent
               ELSE /\ nodes'[n].parent \in 0..l2
                    /\ nodes'[n].parent > len =>
                          \E i \in 1..Len(nodes'[nodes'[n].parent].children) :
                              nodes'[nodes'[n].parent].children[i] = n
    <3>1. n \in 1..l
      BY <1>1
    <3>2. CASE n # m
      <4>1. nodes'[n].parent = nodes[n].parent
        BY <1>2, <3>1, <3>2
      <4> DEFINE d == nodes[n].parent
      <4>2. CASE source[n].parent = Null /\ d > len
        <5>1. d \in 0..l /\ \E i \in 1..Len(nodes[d].children) : nodes[d].children[i] = n
          BY <1>9, <4>2
        <5> HIDE DEF d
        <5>2. d \in 0..l2 /\ d \in 1..l
          BY <1>1, <1>11, <4>2, <5>1
        <5>3. PICK i \in 1..Len(nodes[d].children) : nodes[d].children[i] = n
          BY <5>1
        <5>4. \E j \in 1..Len(nodes'[d].children) : nodes'[d].children[j] = n
          <6>1. CASE d = p
            <7>1. i \in 1..Len(q) /\ q[i] = n
              BY <5>3, <6>1 DEF q
            <7>2. i \in 1..(Len(q) + 1) /\ Append(q, m)[i] = n
              <8>1. i \in 1..(Len(q) + 1)
                BY <1>3, <7>1
              <8>2. Append(q, m)[i] = q[i]
                BY <1>16, <7>1
              <8> QED
                BY <7>1, <8>1, <8>2
            <7>3. nodes'[d].children = Append(q, m) /\ Len(Append(q, m)) = Len(q) + 1
              BY <1>2, <1>16, <6>1
            <7> QED
              BY <7>2, <7>3
          <6>2. CASE d # p
            BY <1>2, <5>2, <5>3, <6>2
          <6> QED
            BY <6>1, <6>2
        <5> QED
          BY <4>1, <4>2, <5>2, <5>4 DEF d
      <4>3. CASE source[n].parent = Null /\ ~(d > len)
        <5>1. d \in 0..l
          BY <1>9, <4>3
        <5> HIDE DEF d
        <5>2. d \in 0..l2
          BY <1>1, <1>11, <5>1
        <5> QED
          BY <4>1, <4>3, <5>2 DEF d
      <4>4. CASE source[n].parent # Null
        BY <1>9, <4>1, <4>4
      <4> QED
        BY <4>2, <4>3, <4>4
    <3>3. CASE n = m
      <4>1. m = Child /\ ~Copies(Child)
        <5>1. m = IF Copies(Child) THEN l + 1 ELSE Child
          BY <1>2
        <5>2. n # l + 1
          BY <1>1, <3>1
        <5> QED
          BY <3>3, <5>1, <5>2
      <4>2. source[n].parent = Null /\ nodes'[n].parent = p
        BY <1>2, <1>8, <3>3, <4>1
      <4>3. p \in 0..l2
        BY <1>1, <1>11
      <4>4. Len(q) + 1 \in 1..Len(nodes'[p].children) /\ nodes'[p].children[Len(q) + 1] = n
        BY <1>2, <1>3, <1>16, <3>3
      <4> QED
        BY <4>2, <4>3, <4>4
    <3> QED
      BY <3>2, <3>3
  <2> QED
    BY <2>1 DEF Parents, len, l2
<1>21. /\ \A k \in 1..l : g[k] = f[k] /\ (k # p => nodes'[k].children = nodes[k].children)
       /\ p > len => Len(nodes'[p].children) = Len(nodes[p].children) + 1
       /\ \/ l2 = l /\ m \in 1..len
          \/ l2 = l + 1 /\ m = l + 1 /\ nodes'[l + 1].children = <<>>
  BY <1>1, <1>2, <1>11, <1>12, <1>16 DEF q
<1>22. Extends(f, g)
  BY <1>13, <1>15, <1>19, <1>20, <1>21 DEF Extends, p, m, len, l, l2
<1> QED
  BY <1>22

(* What Whole and Begun say of g once the child has been received, before  *)
(* the stack changes.                                                      *)
Counted(g) ==
    /\ \A k \in 1..Len(stack) :
          /\ stack[k] \in 1..Len(nodes) /\ g[stack[k]] = walk[k].cont
          /\ stack[k] > Len(source) =>
                Len(nodes'[stack[k]].children) + First(stack[k]) =
                    IF k = Len(stack) THEN walk[k].at + 1 ELSE walk[k].at
    /\ \A m \in (Len(source) + 1)..Len(nodes) :
          (\A k \in 1..Len(stack) : stack[k] # m) =>
              Len(nodes'[m].children) + First(m) = Len(source[g[m]].children) + 1

(* The counts of the children that have been received.                     *)
LEMMA CountsGrow ==
    ASSUME NodesInv, phase = "live", Path(walk, source), More, TreeInv, switched.open = 0,
           root # 1, switched.at \in Nat \ {0}, NEW f, Whole(f), Begun(f), NEW g, Extends(f, g)
    PROVE  Counted(g)
<1> DEFINE n == Len(stack)
           p == CurrParent
           len == Len(source)
<1>1. /\ n = Len(walk) /\ n \in Nat \ {0} /\ p = stack[n]
      /\ p > len => Len(nodes[p].children) + First(p) = walk[n].at
      /\ \A k \in 1..(n - 1) : stack[k] # p
  BY InTheLoop
<1>2. /\ \A k \in 1..Len(nodes) :
            g[k] = f[k] /\ (k # p => nodes'[k].children = nodes[k].children)
      /\ p > len => Len(nodes'[p].children) = Len(nodes[p].children) + 1
  BY DEF Extends
<1>3. /\ len \in Nat \ {0} /\ Len(nodes) \in Nat /\ root \in 1..Len(nodes)
      /\ nodes \in Seq(NodeRecord)
  BY SourceFacts DEF NodesInv
<1>4. \A k \in 1..n : stack[k] \in 1..Len(nodes)
  <2> TAKE k \in 1..n
  <2>1. k = 1 \/ k \in 2..n
    BY <1>1
  <2>2. stack[1] = root /\ \A i \in 2..n : stack[i] \in 1..Len(nodes)
    BY DEF TreeInv
  <2> QED
    BY <1>3, <2>1, <2>2
<1>5. \A k \in 1..n :
         /\ f[stack[k]] = walk[k].cont
         /\ stack[k] > len => Len(nodes[stack[k]].children) + First(stack[k]) = walk[k].at
  BY DEF Begun
<1>6. \A m \in (len + 1)..Len(nodes) :
         (\A k \in 1..n : stack[k] # m) =>
             Len(nodes[m].children) + First(m) = Len(source[f[m]].children) + 1
  BY DEF Whole
<1>7. p \in 1..Len(nodes) /\ (p > len => Len(nodes[p].children) \in Nat)
  <2>1. p \in 1..Len(nodes)
    BY <1>1, <1>4
  <2>2. nodes[p] \in NodeRecord
    BY <1>3, <2>1
  <2> QED
    BY <2>1, <2>2, NodeFields, LenProperties
<1>8. First(p) \in Nat
  BY DEF First
<1> HIDE DEF n, p, len
<1>9. ASSUME NEW k \in 1..n
      PROVE  stack[k] > len =>
                Len(nodes'[stack[k]].children) + First(stack[k]) =
                    IF k = n THEN walk[k].at + 1 ELSE walk[k].at
  <2>1. CASE k = n
    <3> SUFFICES ASSUME p > len
                 PROVE  Len(nodes'[p].children) + First(p) = walk[n].at + 1
      BY <1>1, <2>1
    <3>1. /\ Len(nodes'[p].children) = Len(nodes[p].children) + 1
          /\ Len(nodes[p].children) + First(p) = walk[n].at
          /\ Len(nodes[p].children) \in Nat
      BY <1>1, <1>2, <1>7
    <3> QED
      BY <1>8, <3>1
  <2>2. CASE k # n
    <3>1. k \in 1..(n - 1)
      BY <1>1, <2>2
    <3>2. stack[k] # p /\ stack[k] \in 1..Len(nodes)
      BY <1>1, <1>4, <3>1
    <3>3. nodes'[stack[k]].children = nodes[stack[k]].children
      BY <1>2, <3>2
    <3> QED
      BY <1>5, <2>2, <3>3
  <2> QED
    BY <2>1, <2>2
<1>10. ASSUME NEW m \in (len + 1)..Len(nodes), \A k \in 1..n : stack[k] # m
       PROVE  Len(nodes'[m].children) + First(m) = Len(source[g[m]].children) + 1
  <2>1. m \in 1..Len(nodes) /\ m # p
    BY <1>1, <1>3, <1>10
  <2>2. nodes'[m].children = nodes[m].children /\ g[m] = f[m]
    BY <1>2, <2>1
  <2> QED
    BY <1>6, <1>10, <2>2
<1>11. \A k \in 1..n : g[stack[k]] = walk[k].cont
  BY <1>2, <1>4, <1>5
<1> QED
  BY <1>4, <1>9, <1>10, <1>11 DEF Counted, n, len

(* A node is received ...                                                  *)
LEMMA NodeKeepsCopying ==
    ASSUME NodesInv, phase = "live", WalkInv, More, TreeInv, switched.open = 0,
           root # 1, switched.at \in Nat \ {0}, NEW f, Whole(f), Begun(f),
           NEW g, Extends(f, g), ~nodes[Child].cont,
           SteppedOn(walk, walk'), stack' = stack,
           source' = source, root' = root, switched' = switched
    PROVE  Copying(g)'
<1> DEFINE n == Len(stack)
           len == Len(source)
           l == Len(nodes)
           l2 == Len(nodes')
<1>1. Path(walk, source)
  BY DEF WalkInv
<1>2. /\ \A k \in 1..n :
            /\ stack[k] \in 1..l /\ g[stack[k]] = walk[k].cont
            /\ stack[k] > len =>
                  Len(nodes'[stack[k]].children) + First(stack[k]) =
                      IF k = n THEN walk[k].at + 1 ELSE walk[k].at
      /\ \A m \in (len + 1)..l :
            (\A k \in 1..n : stack[k] # m) =>
                Len(nodes'[m].children) + First(m) = Len(source[g[m]].children) + 1
  <2>1. Counted(g)
    BY <1>1, CountsGrow
  <2> QED
    BY <2>1 DEF Counted
<1>3. n = Len(walk) /\ n \in Nat \ {0}
  BY <1>1, InTheLoop
<1>4. \A k \in 1..n : /\ walk'[k].cont = walk[k].cont
                      /\ walk'[k].at = IF k = n THEN walk[k].at + 1 ELSE walk[k].at
  BY <1>3 DEF SteppedOn
<1>5. \A k : First(k)' = First(k)
  BY DEF First
<1>6. /\ Child \in 1..len /\ len \in Nat /\ l \in Nat /\ root = len + 1 /\ root <= l
      /\ Len(source[Child].children) = 0
  <2>1. Child \in 1..len /\ source \in Sources /\ len \in Nat
    BY <1>1, ChildFacts, SourceFacts DEF NodesInv
  <2>2. ~source[Child].cont
    BY <2>1 DEF NodesInv
  <2>3. Len(source[Child].children) = 0
    BY <2>1, <2>2, OnlyContainersHaveChildren
  <2>4. l \in Nat /\ root = len + 1 /\ root <= l
    BY DEF NodesInv
  <2> QED
    BY <2>1, <2>3, <2>4
<1>7. /\ l2 = l \/ (l2 = l + 1 /\ g[l + 1] = Child /\ nodes'[l + 1].children = <<>>)
      /\ Standing(g)' /\ Matching(g)'
  BY <1>6 DEF Extends
<1> HIDE DEF n, len, l, l2
<1>8. ASSUME NEW m \in (len + 1)..l2, \A k \in 1..n : stack[k] # m
      PROVE  Len(nodes'[m].children) + First(m) = Len(source[g[m]].children) + 1
  <2>1. CASE m \in (len + 1)..l
    BY <1>2, <1>8, <2>1
  <2>2. CASE ~(m \in (len + 1)..l)
    <3>1. m = l + 1 /\ l2 = l + 1 /\ m # root
      BY <1>6, <1>7, <1>8, <2>2
    <3>2. First(m) = 1 /\ Len(nodes'[m].children) = 0 /\ g[m] = Child
      BY <1>7, <3>1 DEF First
    <3> QED
      BY <1>6, <3>2
  <2> QED
    BY <2>1, <2>2
<1>9. Whole(g)'
  BY <1>5, <1>8 DEF Whole, n, len, l2
<1>10. Begun(g)'
  BY <1>2, <1>4, <1>5 DEF Begun, n, len
<1> QED
  BY <1>7, <1>9, <1>10 DEF Copying

(* ... and so is a container, ...                                          *)
LEMMA StartKeepsCopying ==
    ASSUME NodesInv, phase = "live", WalkInv, More, TreeInv, switched.open = 0,
           root # 1, switched.at \in Nat \ {0}, NEW f, Whole(f), Begun(f),
           NEW g, Extends(f, g),
           walk' = Append(Stepped, [cont |-> Child, at |-> 1]),
           stack' = Append(stack, Received(Child)), Received(Child) \in Nat,
           source' = source, root' = root, switched' = switched
    PROVE  Copying(g)'
<1> DEFINE n == Len(stack)
           len == Len(source)
           l == Len(nodes)
           l2 == Len(nodes')
           r == Received(Child)
<1>1. Path(walk, source)
  BY DEF WalkInv
<1>2. /\ \A k \in 1..n :
            /\ stack[k] \in 1..l /\ g[stack[k]] = walk[k].cont
            /\ stack[k] > len =>
                  Len(nodes'[stack[k]].children) + First(stack[k]) =
                      IF k = n THEN walk[k].at + 1 ELSE walk[k].at
      /\ \A m \in (len + 1)..l :
            (\A k \in 1..n : stack[k] # m) =>
                Len(nodes'[m].children) + First(m) = Len(source[g[m]].children) + 1
  <2>1. Counted(g)
    BY <1>1, CountsGrow
  <2> QED
    BY <2>1 DEF Counted
<1>3. n = Len(walk) /\ n \in Nat \ {0}
  BY <1>1, InTheLoop
<1>4. /\ \A k \in 1..n : /\ walk'[k].cont = walk[k].cont
                         /\ walk'[k].at = IF k = n THEN walk[k].at + 1 ELSE walk[k].at
      /\ walk'[n + 1].cont = Child /\ walk'[n + 1].at = 1
  <2> DEFINE t == Stepped
             e == [cont |-> Child, at |-> 1]
  <2>1. SteppedOn(walk, t)
    BY <1>1, SteppedFacts, PathFacts DEF Stepped
  <2> HIDE DEF t
  <2>2. /\ t \in Seq(WalkRecord) /\ Len(t) = n
        /\ t[n].cont = walk[n].cont /\ t[n].at = walk[n].at + 1
        /\ \A k \in 1..(n - 1) : t[k] = walk[k]
    BY <1>3, <2>1 DEF SteppedOn
  <2>3. ASSUME NEW k \in 1..n
        PROVE  /\ t[k].cont = walk[k].cont
               /\ t[k].at = IF k = n THEN walk[k].at + 1 ELSE walk[k].at
    <3>1. k = n \/ (k # n /\ k \in 1..(n - 1))
      BY <1>3
    <3> QED
      BY <2>2, <3>1
  <2>4. e \in WalkRecord /\ e.cont = Child /\ e.at = 1
    BY <1>1, ChildFacts DEF WalkRecord
  <2> HIDE DEF e
  <2>5. Append(t, e)[n + 1] = e /\ \A k \in 1..n : Append(t, e)[k] = t[k]
    BY <2>2, <2>4, AppendProperties
  <2>6. walk' = Append(t, e)
    BY DEF t, e
  <2>7. walk'[n + 1] = e /\ \A k \in 1..n : walk'[k] = t[k]
    BY <2>5, <2>6
  <2>8. walk'[n + 1].cont = Child /\ walk'[n + 1].at = 1
    BY <2>4, <2>7
  <2>9. ASSUME NEW k \in 1..n
        PROVE  /\ walk'[k].cont = walk[k].cont
               /\ walk'[k].at = IF k = n THEN walk[k].at + 1 ELSE walk[k].at
    <3> HIDE DEF n
    <3>1. walk'[k] = t[k]
      BY <2>7
    <3> QED
      BY <2>3, <3>1
  <2> QED
    BY <2>8, <2>9
<1>5. \A k : First(k)' = First(k)
  BY DEF First
<1>6. len \in Nat /\ l \in Nat /\ root = len + 1 /\ root <= l
  BY SourceFacts DEF NodesInv
<1>7. /\ \/ l2 = l /\ r \in 1..len
         \/ l2 = l + 1 /\ r = l + 1 /\ nodes'[r].children = <<>>
      /\ g[r] = Child /\ Standing(g)' /\ Matching(g)'
  BY DEF Extends
<1>8. /\ Len(stack') = n + 1 /\ stack'[n + 1] = r
      /\ \A k \in 1..n : stack'[k] = stack[k]
  BY AppendProperties DEF TreeInv
<1> HIDE DEF n, len, l, l2, r
<1>9. ASSUME NEW m \in (len + 1)..l2, \A k \in 1..(n + 1) : stack'[k] # m
      PROVE  Len(nodes'[m].children) + First(m) = Len(source[g[m]].children) + 1
  <2>1. m # r
    <3>1. n + 1 \in 1..(n + 1)
      BY <1>3
    <3> QED
      BY <1>8, <1>9, <3>1
  <2>2. m \in (len + 1)..l
    <3>1. l2 = l \/ (l2 = l + 1 /\ r = l + 1)
      BY <1>7
    <3>2. len \in Nat /\ l \in Nat
      BY <1>6
    <3> QED
      BY <1>9, <2>1, <3>1, <3>2
  <2>3. ASSUME NEW k \in 1..n PROVE stack[k] # m
    <3>1. k \in 1..(n + 1) /\ stack'[k] = stack[k]
      BY <1>3, <1>8
    <3> QED
      BY <1>9, <3>1
  <2> QED
    BY <1>2, <2>2, <2>3
<1>10. Whole(g)'
  BY <1>5, <1>8, <1>9 DEF Whole, len, l2
<1>11. ASSUME NEW k \in 1..(n + 1)
       PROVE  /\ g[stack'[k]] = walk'[k].cont
              /\ stack'[k] > len => Len(nodes'[stack'[k]].children) + First(stack'[k]) = walk'[k].at
  <2>1. CASE k \in 1..n
    <3>1. stack'[k] = stack[k]
      BY <1>8, <2>1
    <3>2. /\ g[stack[k]] = walk[k].cont
          /\ stack[k] > len =>
                Len(nodes'[stack[k]].children) + First(stack[k]) =
                    IF k = n THEN walk[k].at + 1 ELSE walk[k].at
      BY <1>2, <2>1
    <3>3. /\ walk'[k].cont = walk[k].cont
          /\ walk'[k].at = IF k = n THEN walk[k].at + 1 ELSE walk[k].at
      BY <1>4, <2>1
    <3> QED
      BY <3>1, <3>2, <3>3
  <2>2. CASE k = n + 1
    <3>1. stack'[k] = r /\ walk'[k].cont = Child /\ walk'[k].at = 1
      BY <1>4, <1>8, <2>2
    <3>2. r > len => Len(nodes'[r].children) = 0 /\ First(r) = 1
      <4> SUFFICES ASSUME r > len PROVE Len(nodes'[r].children) = 0 /\ First(r) = 1
        OBVIOUS
      <4>1. r = l + 1 /\ nodes'[r].children = <<>>
        BY <1>6, <1>7
      <4>2. r # root
        BY <1>6, <4>1
      <4> QED
        BY <4>1, <4>2 DEF First
    <3>3. g[r] = Child
      BY <1>7
    <3>4. r > len => Len(nodes'[r].children) + First(r) = 1
      BY <3>2
    <3> QED
      BY <3>1, <3>3, <3>4
  <2>3. k \in 1..n \/ k = n + 1
    BY <1>3
  <2> QED
    BY <2>1, <2>2, <2>3
<1>12. Begun(g)'
  BY <1>5, <1>8, <1>11 DEF Begun, len
<1> QED
  BY <1>7, <1>10, <1>12 DEF Copying

(* ... that has all its children when it ends.                             *)
LEMMA EndKeepsCopying ==
    ASSUME NodesInv, phase = "live", WalkInv, ~More, TreeInv, switched.open = 0,
           root # 1, NEW f, Copying(f),
           walk' = Front(walk), stack' = Front(stack), nodes' = nodes,
           source' = source, root' = root, switched' = switched
    PROVE  Copying(f)'
<1> DEFINE n == Len(stack)
           len == Len(source)
           p == CurrParent
           w == walk[n]
<1>1. Path(walk, source) /\ Standing(f) /\ Matching(f) /\ Whole(f) /\ Begun(f)
  BY DEF WalkInv, Copying
<1>2. /\ n = Len(walk) /\ n \in Nat \ {0} /\ p = stack[n] /\ f[p] = w.cont
      /\ p > len => Len(nodes[p].children) + First(p) = w.at
  BY <1>1, InTheLoop
<1>3. /\ w.cont \in 1..len /\ w.at \in 1..(Len(source[w.cont].children) + 1)
      /\ Last(walk) = w /\ walk \in Seq(WalkRecord) /\ walk # <<>>
  BY <1>1, <1>2, PathFacts
<1>4. w.at = Len(source[w.cont].children) + 1
  <2> DEFINE c == w.cont
             at == w.at
             q == Len(source[c].children)
  <2>1. nodes[c].children = source[c].children
    BY <1>3 DEF NodesInv
  <2>2. ~(at <= q)
    BY <1>3, <2>1 DEF More, Streaming
  <2>3. q \in Nat
    <3>1. source[c].children \in Seq(Nat)
      BY <1>3, SourceFacts DEF NodesInv
    <3> QED
      BY <3>1, LenProperties
  <2>4. at \in 1..(q + 1)
    BY <1>3
  <2> HIDE DEF w, at, q
  <2>5. at = q + 1
    BY <2>2, <2>3, <2>4
  <2> QED
    BY <2>5 DEF at, q
<1>5. /\ Len(stack') = n - 1 /\ \A k \in 1..(n - 1) : stack'[k] = stack[k]
      /\ \A k \in 1..(n - 1) : walk'[k] = walk[k]
  <2>1. stack \in Seq(Nat) /\ stack # <<>>
    BY DEF TreeInv
  <2>2. Len(stack') = n - 1 /\ \A k \in 1..(n - 1) : stack'[k] = stack[k]
    BY <2>1, FrontFacts
  <2>3. \A k \in 1..(Len(walk) - 1) : walk'[k] = walk[k]
    BY <1>3, FrontFacts
  <2> QED
    BY <1>2, <2>2, <2>3
<1>6. \A k : First(k)' = First(k)
  BY DEF First
<1>7. /\ \A m \in (len + 1)..Len(nodes) :
            (\A k \in 1..n : stack[k] # m) =>
                Len(nodes[m].children) + First(m) = Len(source[f[m]].children) + 1
      /\ \A k \in 1..n :
            /\ f[stack[k]] = walk[k].cont
            /\ stack[k] > len => Len(nodes[stack[k]].children) + First(stack[k]) = walk[k].at
  BY <1>1 DEF Whole, Begun
<1>8. len \in Nat /\ Len(nodes) \in Nat
  BY SourceFacts DEF NodesInv
<1> HIDE DEF n, len, p, w
<1>9. ASSUME NEW m \in (len + 1)..Len(nodes), \A k \in 1..(n - 1) : stack[k] # m
      PROVE  Len(nodes[m].children) + First(m) = Len(source[f[m]].children) + 1
  <2>1. CASE m = p
    <3>1. p > len
      BY <1>8, <1>9, <2>1
    <3> QED
      BY <1>2, <1>4, <2>1, <3>1
  <2>2. CASE m # p
    <3>1. \A k \in 1..n : stack[k] # m
      <4> TAKE k \in 1..n
      <4>1. k = n \/ k \in 1..(n - 1)
        BY <1>2
      <4> QED
        BY <1>2, <1>9, <2>2, <4>1
    <3> QED
      BY <1>7, <1>9, <3>1
  <2> QED
    BY <2>1, <2>2
<1>10. Whole(f)'
  BY <1>5, <1>6, <1>9 DEF Whole, len
<1>11. \A k \in 1..(n - 1) :
          /\ f[stack'[k]] = walk'[k].cont
          /\ stack'[k] > len => Len(nodes[stack'[k]].children) + First(stack'[k]) = walk'[k].at
  <2> TAKE k \in 1..(n - 1)
  <2>1. k \in 1..n /\ stack'[k] = stack[k] /\ walk'[k] = walk[k]
    BY <1>2, <1>5
  <2> QED
    BY <1>7, <2>1
<1>12. Begun(f)'
  BY <1>5, <1>6, <1>11 DEF Begun, len
<1>13. Standing(f)'
  BY <1>1 DEF Standing
<1>14. Matching(f)'
  BY <1>1, SameMatching
<1> QED
  BY <1>10, <1>12, <1>13, <1>14 DEF Copying

-----------------------------------------------------------------------------
(* The tree that is built, through the whole stream.                       *)

(* A ToTree that the stream begins with, or the chain has switched to.     *)
Starting ==
    /\ NodesInv /\ root # 1 /\ Fresh /\ stack = <<root>>
    /\ walk[1].cont = 1 /\ switched.at = walk[1].at /\ switched.at \in Nat \ {0}

(* With nothing sent yet, the nodes of the source stand for themselves     *)
(* and the root that was allocated for the one they are sent from.         *)
LEMMA StartingCopies == Starting => CopyGoesOn
<1> SUFFICES ASSUME Starting PROVE CopyGoesOn
  OBVIOUS
<1> DEFINE len == Len(source)
           f == [k \in 1..Len(nodes) |-> IF k <= len THEN k ELSE 1]
<1>1. /\ source \in Sources /\ len \in Nat \ {0} /\ root = len + 1
      /\ Len(nodes) = len + 1 /\ nodes[len + 1].children = <<>>
      /\ \A n \in 1..len : nodes[n].parent = source[n].parent
      /\ \A c \in 1..len : nodes[c].cont = source[c].cont /\ nodes[c].id = source[c].id
      /\ stack = <<root>> /\ walk[1].cont = 1 /\ switched.at = walk[1].at
      /\ switched.at \in Nat \ {0}
  BY SourceFacts DEF Starting, NodesInv, Fresh
<1> HIDE DEF len
<1>2. Parents
  <2>1. \A n \in 1..len : source[n].parent = Null => nodes[n].parent = 0
    BY <1>1 DEF Null
  <2>2. 0 \in 0..Len(nodes) /\ ~(0 > len)
    BY <1>1
  <2> QED
    BY <1>1, <2>1, <2>2 DEF Parents, len
<1>3. /\ f \in [1..Len(nodes) -> 1..len] /\ f[len + 1] = 1
      /\ \A n \in 1..len : f[n] = n
  <2>1. \A n \in 1..len : n \in 1..Len(nodes) /\ n <= len
    BY <1>1
  <2>2. len + 1 \in 1..Len(nodes) /\ ~(len + 1 <= len) /\ 1 \in 1..len
    BY <1>1
  <2>3. \A n \in 1..Len(nodes) : n <= len => n \in 1..len
    BY <1>1
  <2> QED
    BY <2>1, <2>2, <2>3
<1> HIDE DEF f
<1>4. \A m \in (len + 1)..Len(nodes) : m = len + 1
  BY <1>1
<1>5. Standing(f)
  <2>1. \A m \in 1..Len(nodes) : m # root => m \in 1..len
    BY <1>1
  <2>2. \A m \in 1..Len(nodes) :
           m # root => nodes[m].id = source[f[m]].id /\ nodes[m].cont = source[f[m]].cont
    BY <1>1, <1>3, <2>1
  <2> QED
    BY <1>3, <2>2 DEF Standing, len
<1>6. Matching(f)
  <2>1. \A m \in (len + 1)..Len(nodes) : \A i \in 1..Len(nodes[m].children) : FALSE
    BY <1>1, <1>4
  <2> QED
    BY <2>1 DEF Matching, len
<1>7. Len(stack) = 1 /\ stack[1] = root
  BY <1>1
<1>8. Whole(f)
  <2>1. \A m \in (len + 1)..Len(nodes) : stack[1] = m
    BY <1>1, <1>4, <1>7
  <2> QED
    BY <1>7, <2>1 DEF Whole, len
<1>9. Begun(f)
  <2>1. \A k \in 1..Len(stack) : k = 1
    BY <1>7
  <2>2. f[root] = walk[1].cont
    BY <1>1, <1>3
  <2>3. Len(nodes[root].children) + First(root) = walk[1].at
    BY <1>1 DEF First
  <2> QED
    BY <1>7, <2>1, <2>2, <2>3 DEF Begun
<1>10. Copying(f)
  BY <1>5, <1>6, <1>8, <1>9 DEF Copying
<1> QED
  BY <1>2, <1>10 DEF CopyGoesOn

(* The same in the state that a step leads to.                             *)
LEMMA StartingCopiesNext == Starting' => CopyGoesOn'
BY StartingCopies, PTL

(* The invariant holds before anything is sent, ...                        *)
LEMMA InitCopy == Init => CopyInv
<1> SUFFICES ASSUME Init PROVE CopyInv
  OBVIOUS
<1> DEFINE r == NewNode(TRUE, Null, <<>>)
           own == Append(source, r)
           len == Len(source)
<1>1. StreamInv
  BY InitStream
<1>2. source \in Seq(NodeRecord) /\ len \in Nat \ {0}
  BY SourceFacts DEF Init
<1>3. /\ \/ nodes = own /\ root = len + 1
         \/ nodes = source /\ root = 1
      /\ stack = <<root>> /\ phase = "live"
      /\ walk = <<[cont |-> 1, at |-> 1]>> /\ switched = [open |-> 0, at |-> 1]
  <2>1. PICK mine \in BOOLEAN : /\ nodes = IF mine THEN own ELSE source
                                /\ root = IF mine THEN len + 1 ELSE 1
    BY DEF Init
  <2>2. \/ nodes = own /\ root = len + 1
        \/ nodes = source /\ root = 1
    BY <2>1
  <2> QED
    BY <2>2 DEF Init
<1>4. r \in NodeRecord /\ r.children = <<>>
  BY DEF NewNode, NodeRecord, Null
<1> HIDE DEF r
<1>5. /\ Len(own) = len + 1 /\ own[len + 1].children = <<>>
      /\ \A c \in 1..len : own[c] = source[c]
  <2>1. /\ Len(own) = len + 1 /\ own[len + 1] = r
        /\ \A c \in 1..len : own[c] = source[c]
    BY <1>2, <1>4, AppendProperties
  <2> QED
    BY <1>4, <2>1
<1> HIDE DEF own, len
<1>6. walk[1].cont = 1 /\ walk[1].at = 1 /\ switched.at = 1 /\ switched.open = 0
  BY <1>3
<1>7. Ranked(nodes, Len(source))
  <2>1. CASE nodes = own
    <3>1. \A m \in (len + 1)..Len(nodes) : nodes[m].children = <<>>
      BY <1>2, <1>5, <2>1
    <3> QED
      BY <3>1 DEF Ranked, len
  <2>2. CASE nodes = source
    <3>1. \A m \in (len + 1)..Len(nodes) : FALSE
      BY <1>2, <2>2 DEF len
    <3> QED
      BY <3>1 DEF Ranked, len
  <2> QED
    BY <1>3, <2>1, <2>2
<1>8. root # 1 => Fresh
  BY <1>2, <1>3, <1>5 DEF Fresh, len
<1>9. root # 1 => CopyGoesOn
  <2>1. root # 1 => Starting
    BY <1>1, <1>3, <1>6, <1>8 DEF Starting, StreamInv
  <2> QED
    BY <2>1, StartingCopies
<1> QED
  BY <1>3, <1>6, <1>7, <1>8, <1>9 DEF CopyInv

(* A sink of the user's leaves the tree as it is.                          *)
LEMMA UserKeepsCopy ==
    ASSUME StreamInv, CopyInv, phase = "live", CurrentSink = "user", StreamInv', WalkInv',
           Reply, UNCHANGED toTree, source' = source
    PROVE  CopyInv'
<1>1. /\ stack = <<root>> /\ switched.open = 0 /\ chain \in Chains
      /\ Ranked(nodes, Len(source)) /\ switched.at \in Nat \ {0}
      /\ root # 1 => Fresh
  BY DEF StreamInv, SinksInv, UserInv, CopyInv, Running
<1>2. nodes' = nodes /\ root' = root /\ stack' = stack
  BY DEF toTree, tree_vars
<1>3. phase' \in {"live", "thrown", "refused"}
  BY DEF Reply, NextSink, RefusedByChain
<1>4. walk'[1].cont = 1 /\ walk'[1].at \in Nat \ {0}
  <2>1. walk'[1].cont = 1 /\ Len(walk') \in Nat \ {0} /\ walk' \in Seq(WalkRecord)
    BY PathFacts DEF WalkInv, Path
  <2>2. 1 \in 1..Len(walk')
    BY <2>1
  <2>3. walk'[1].at \in 1..(Len(source'[walk'[1].cont].children) + 1)
    BY <2>2 DEF WalkInv, Path
  <2> QED
    BY <2>1, <2>3
<1>5. (root # 1 => Fresh)'
  BY <1>1, <1>2 DEF Fresh
<1>6. \/ chain' = chain /\ switched' = switched
      \/ switched' = [open |-> Len(open'), at |-> walk'[1].at]
  BY DEF Reply, NextSink, RefusedByChain
<1>7. switched'.at \in Nat \ {0}
  BY <1>1, <1>4, <1>6
<1>8. ASSUME root' # 1, CurrentSink' = "tree"
      PROVE  CopyGoesOn'
  <2>1. chain' # chain
    BY <1>8 DEF CurrentSink
  <2>2. switched'.at = walk'[1].at
    BY <1>6, <2>1
  <2>3. Starting'
    BY <1>1, <1>2, <1>4, <1>5, <1>7, <1>8, <2>2 DEF Starting, StreamInv
  <2> QED
    BY <2>3, StartingCopiesNext
<1>9. Ranked(nodes', Len(source'))
  BY <1>1, <1>2
<1> QED
  BY <1>3, <1>5, <1>7, <1>8, <1>9 DEF CopyInv

(* What a ToTree is sent, the nodes keep their ranks, and a copy goes on.  *)
LEMMA TreeKeepsCopy ==
    ASSUME StreamInv, CopyInv, phase = "live", More, CurrentSink = "tree",
           Receive(Child), TreeReply(Invalidates(Child)), source' = source
    PROVE  /\ phase' # "undefined" => Ranked(nodes', Len(source))
           /\ phase' # "undefined" /\ root # 1 /\ switched.open = 0 /\ ListedOnce =>
                 \E f, g : Whole(f) /\ Begun(f) /\ Extends(f, g)
<1>1. /\ NodesInv /\ WalkInv /\ Path(walk, source) /\ TreeInv /\ switched.open \in Nat
      /\ Ranked(nodes, Len(source)) /\ switched.at \in Nat \ {0}
      /\ root # 1 /\ switched.open = 0 /\ ListedOnce => CopyGoesOn
  BY DEF StreamInv, SinksInv, WalkInv, CopyInv, Running
<1>2. root' = root /\ switched' = switched /\ (phase' # "undefined" => ~Invalidates(Child))
  BY DEF TreeReply
<1>3. phase' # "undefined" => Ranked(nodes', Len(source))
  BY <1>1, <1>2, ReceiveKeepsRanks
<1>4. ASSUME phase' # "undefined", root # 1, switched.open = 0, ListedOnce
      PROVE  \E f, g : Whole(f) /\ Begun(f) /\ Extends(f, g)
  <2>1. PICK f : Copying(f)
    BY <1>1, <1>4 DEF CopyGoesOn
  <2>2. Parents /\ Standing(f) /\ Matching(f) /\ Whole(f) /\ Begun(f)
    BY <1>1, <1>4, <2>1 DEF CopyGoesOn, Copying
  <2>3. CASE ParentOf(Child) = CurrParent
    <3>1. Extends(f, f)
      BY <1>1, <1>2, <1>4, <2>2, <2>3, KeptExtends
    <3> QED
      BY <2>2, <3>1
  <2>4. CASE ParentOf(Child) # CurrParent
    <3>1. \E g : Extends(f, g)
      BY <1>1, <1>2, <1>4, <2>2, <2>4, AddedExtends
    <3> QED
      BY <2>2, <3>1
  <2> QED
    BY <2>3, <2>4
<1> QED
  BY <1>3, <1>4

(* ... after a node that is no container, ...                              *)
LEMMA NodeCopies ==
    ASSUME StreamInv, StreamInv', CopyInv, SendNode
    PROVE  CopyInv'
<1>1. /\ phase = "live" /\ More /\ ~nodes[Child].cont /\ walk' = Stepped
      /\ open' = ChildSent(open)
      /\ TreeNode(Child) \/ UserNode
      /\ source' = source
  BY DEF SendNode
<1>2. NodesInv /\ WalkInv /\ SinksInv
  BY <1>1 DEF StreamInv
<1>3. WalkInv' /\ SteppedOn(walk, walk')
  BY <1>1, <1>2, NodeWalks
<1>4. CASE UserNode
  BY <1>1, <1>3, <1>4, UserKeepsCopy DEF UserNode
<1>5. CASE TreeNode(Child)
  <2>1. /\ CurrentSink = "tree" /\ Receive(Child) /\ stack' = stack
        /\ TreeReply(Invalidates(Child))
        /\ root' = root /\ chain' = chain /\ switched' = switched
        /\ phase' = IF Invalidates(Child) THEN "undefined" ELSE "live"
    BY <1>1, <1>5 DEF TreeNode, TreeReply
  <2>2. /\ phase' # "undefined" => Ranked(nodes', Len(source))
        /\ phase' # "undefined" /\ root # 1 /\ switched.open = 0 /\ ListedOnce =>
              \E f, g : Whole(f) /\ Begun(f) /\ Extends(f, g)
    BY <1>1, <2>1, TreeKeepsCopy
  <2>3. switched.at \in Nat \ {0} /\ TreeInv
    BY <1>2, <2>1 DEF CopyInv, SinksInv
  <2>4. ASSUME phase' # "undefined", root # 1, switched.open = 0, ListedOnce
        PROVE  CopyGoesOn'
    <3>1. PICK f, g : Whole(f) /\ Begun(f) /\ Extends(f, g)
      BY <2>2, <2>4
    <3>2. Copying(g)'
      BY <1>1, <1>2, <1>3, <2>1, <2>3, <2>4, <3>1, NodeKeepsCopying
    <3> QED
      BY <3>1, <3>2 DEF CopyGoesOn, Extends
  <2>5. CurrentSink' = "tree" /\ (ListedOnce' <=> ListedOnce)
    BY <1>1, <2>1 DEF CurrentSink, ListedOnce
  <2>6. phase' = "undefined" \/ phase' = "live"
    BY <2>1
  <2> QED
    BY <1>1, <2>1, <2>2, <2>3, <2>4, <2>5, <2>6 DEF CopyInv, Running
<1> QED
  BY <1>1, <1>4, <1>5

(* ... after a container has been opened, ...                              *)
LEMMA StartCopies ==
    ASSUME StreamInv, StreamInv', CopyInv, SendStart
    PROVE  CopyInv'
<1>1. /\ phase = "live" /\ More
      /\ walk' = Append(Stepped, [cont |-> Child, at |-> 1])
      /\ open' = Append(open, Announced(Child))
      /\ TreeStart(Child) \/ UserStart
      /\ source' = source
  BY DEF SendStart
<1>2. NodesInv /\ WalkInv /\ SinksInv
  BY <1>1 DEF StreamInv
<1>3. WalkInv'
  BY <1>1, <1>2, StartWalks
<1>4. CASE UserStart
  BY <1>1, <1>3, <1>4, UserKeepsCopy DEF UserStart
<1>5. CASE TreeStart(Child)
  <2>1. /\ CurrentSink = "tree" /\ Receive(Child) /\ stack' = Append(stack, Received(Child))
        /\ TreeReply(Invalidates(Child))
        /\ root' = root /\ chain' = chain /\ switched' = switched
        /\ phase' = IF Invalidates(Child) THEN "undefined" ELSE "live"
    BY <1>1, <1>5 DEF TreeStart, TreeReply, Pushed, Entered
  <2>2. /\ phase' # "undefined" => Ranked(nodes', Len(source))
        /\ phase' # "undefined" /\ root # 1 /\ switched.open = 0 /\ ListedOnce =>
              \E f, g : Whole(f) /\ Begun(f) /\ Extends(f, g)
    BY <1>1, <2>1, TreeKeepsCopy
  <2>3. switched.at \in Nat \ {0} /\ TreeInv /\ switched.open \in Nat
    BY <1>2, <2>1 DEF CopyInv, SinksInv
  <2>4. Received(Child) \in Nat
    <3>1. Path(walk, source)
      BY <1>2 DEF WalkInv
    <3>2. phase' = IF Invalidates(Child) THEN "undefined" ELSE phase
      BY <1>1, <2>1
    <3>3. Received(Child) \in 1..Len(nodes')
      BY <1>1, <1>2, <2>1, <2>3, <3>1, <3>2, TreeReceives
    <3> QED
      BY <3>3
  <2>5. ASSUME phase' # "undefined", root # 1, switched.open = 0, ListedOnce
        PROVE  CopyGoesOn'
    <3>1. PICK f, g : Whole(f) /\ Begun(f) /\ Extends(f, g)
      BY <2>2, <2>5
    <3>2. Copying(g)'
      BY <1>1, <1>2, <2>1, <2>3, <2>4, <2>5, <3>1, StartKeepsCopying
    <3> QED
      BY <3>1, <3>2 DEF CopyGoesOn, Extends
  <2>6. CurrentSink' = "tree" /\ (ListedOnce' <=> ListedOnce)
    BY <1>1, <2>1 DEF CurrentSink, ListedOnce
  <2>7. phase' = "undefined" \/ phase' = "live"
    BY <2>1
  <2> QED
    BY <1>1, <2>1, <2>2, <2>3, <2>5, <2>6, <2>7 DEF CopyInv, Running
<1> QED
  BY <1>1, <1>4, <1>5

(* ... after one has been closed: all of its children have been received;  *)
(* ...                                                                     *)
LEMMA EndCopies ==
    ASSUME StreamInv, StreamInv', CopyInv, SendEnd
    PROVE  CopyInv'
<1>1. /\ phase = "live" /\ ~More /\ Len(walk) > 1 /\ walk' = Front(walk)
      /\ open' = ChildSent(Front(open))
      /\ TreeEnd \/ UserEnd
      /\ source' = source
  BY DEF SendEnd
<1>2. NodesInv /\ WalkInv /\ SinksInv
  BY <1>1 DEF StreamInv
<1>3. WalkInv'
  BY <1>1, <1>2, EndWalks
<1>4. CASE UserEnd
  BY <1>1, <1>3, <1>4, UserKeepsCopy DEF UserEnd
<1>5. CASE TreeEnd
  <2>1. /\ CurrentSink = "tree" /\ nodes' = nodes /\ stack' = Front(stack)
        /\ root' = root /\ chain' = chain /\ switched' = switched
        /\ phase' \in {"undefined", "live"}
    BY <1>1, <1>5 DEF TreeEnd, TreeReply, Popped, tree_vars
  <2>2. /\ TreeInv /\ switched.at \in Nat \ {0} /\ Ranked(nodes, Len(source))
        /\ root # 1 /\ switched.open = 0 /\ ListedOnce => CopyGoesOn
    BY <1>1, <1>2, <2>1 DEF CopyInv, SinksInv, Running
  <2>3. ASSUME root # 1, switched.open = 0, ListedOnce
        PROVE  CopyGoesOn'
    <3>1. PICK f : Copying(f)
      BY <2>2, <2>3 DEF CopyGoesOn
    <3>2. Copying(f)'
      BY <1>1, <1>2, <2>1, <2>2, <2>3, <3>1, EndKeepsCopying
    <3>3. Parents'
      BY <1>1, <2>1, <2>2, <2>3 DEF CopyGoesOn, Parents
    <3> QED
      BY <3>2, <3>3 DEF CopyGoesOn
  <2>4. CurrentSink' = "tree" /\ (ListedOnce' <=> ListedOnce)
    BY <1>1, <2>1 DEF CurrentSink, ListedOnce
  <2>5. Ranked(nodes', Len(source'))
    BY <1>1, <2>1, <2>2
  <2> QED
    BY <1>1, <2>1, <2>2, <2>3, <2>4, <2>5 DEF CopyInv, Running
<1> QED
  BY <1>1, <1>4, <1>5

(* ... after the end of the stream, ...                                    *)
LEMMA EndOfStreamCopies ==
    ASSUME StreamInv, CopyInv, EndOfStream
    PROVE  CopyInv'
<1>1. /\ UNCHANGED <<nodes, root, stack, walk, chain, source, switched>>
      /\ \/ phase = "refused" /\ phase' = "stopped"
         \/ phase = "live" /\ ~More /\ Len(walk) = 1 /\ phase' = "ended"
         \/ phase \in {"refused", "live"} /\ phase' = "thrown"
  BY DEF EndOfStream, toTree, tree_vars
<1>2. /\ Ranked(nodes', Len(source')) /\ switched'.at \in Nat \ {0}
      /\ CurrentSink' = CurrentSink /\ (ListedOnce' <=> ListedOnce)
      /\ (Fresh' <=> Fresh) /\ (CopyGoesOn' <=> CopyGoesOn)
  <2>1. \A f : Copying(f)' <=> Copying(f)
    <3>1. \A k : First(k)' = First(k)
      BY <1>1 DEF First
    <3>2. \A f : Matching(f)' <=> Matching(f)
      BY <1>1, <3>1 DEF Matching
    <3>3. \A f : Whole(f)' <=> Whole(f)
      BY <1>1, <3>1 DEF Whole
    <3>4. \A f : Begun(f)' <=> Begun(f)
      BY <1>1, <3>1 DEF Begun
    <3>5. \A f : Standing(f)' <=> Standing(f)
      BY <1>1 DEF Standing
    <3> QED
      BY <3>2, <3>3, <3>4, <3>5 DEF Copying
  <2>2. Parents' <=> Parents
    BY <1>1 DEF Parents
  <2>3. CopyGoesOn' <=> CopyGoesOn
    BY <2>1, <2>2 DEF CopyGoesOn
  <2>4. Fresh' <=> Fresh
    BY <1>1 DEF Fresh
  <2>5. CurrentSink' = CurrentSink /\ (ListedOnce' <=> ListedOnce)
    BY <1>1 DEF CurrentSink, ListedOnce
  <2>6. Ranked(nodes', Len(source')) /\ switched'.at \in Nat \ {0}
    BY <1>1 DEF CopyInv
  <2> QED
    BY <2>3, <2>4, <2>5, <2>6
<1>3. CASE phase = "refused" /\ phase' = "stopped"
  BY <1>2, <1>3 DEF CopyInv, Running
<1>4. CASE phase = "live" /\ ~More /\ Len(walk) = 1 /\ phase' = "ended"
  <2>1. NodesInv /\ Path(walk, source) /\ SinksInv
    BY <1>4 DEF StreamInv, WalkInv
  <2>2. /\ walk[1].cont = 1 /\ Last(walk) = walk[1]
        /\ walk[1].at \in 1..(Len(source[1].children) + 1) /\ 1 \in 1..Len(source)
    BY <1>4, <2>1, PathFacts DEF Path
  <2>3. walk[1].at = Len(source[1].children) + 1
    <3> DEFINE q == Len(source[1].children)
               at == walk[1].at
    <3>1. ~(at <= q)
      BY <1>4, <2>1, <2>2 DEF NodesInv, More, Streaming
    <3>2. q \in Nat
      BY <2>1, <2>2, SourceFacts, LenProperties DEF NodesInv
    <3>3. at \in 1..(q + 1)
      BY <2>2
    <3> HIDE DEF q, at
    <3>4. at = q + 1
      BY <3>1, <3>2, <3>3
    <3> QED
      BY <3>4 DEF q, at
  <2>4. ASSUME CurrentSink = "tree", switched.open = 0
        PROVE  stack = <<root>>
    <3>1. stack \in Seq(Nat) /\ Len(stack) + switched.open = Len(walk) /\ stack[1] = root
      BY <2>1, <2>4 DEF SinksInv, TreeInv
    <3>2. Len(stack) \in Nat /\ Len(stack) = 1
      BY <1>4, <2>4, <3>1, LenProperties
    <3> QED
      BY <3>1, <3>2
  <2> QED
    BY <1>1, <1>2, <1>4, <2>2, <2>3, <2>4 DEF CopyInv, Running
<1>5. CASE phase' = "thrown"
  BY <1>2, <1>5 DEF CopyInv, Running
<1> QED
  BY <1>1, <1>3, <1>4, <1>5

(* ... and after a step that changes nothing.                              *)
LEMMA StutterCopies ==
    ASSUME CopyInv, UNCHANGED vars
    PROVE  CopyInv'
<1>1. UNCHANGED <<nodes, root, stack, walk, chain, source, switched, phase>>
  BY DEF vars, tree_vars
<1>2. \A k : First(k)' = First(k)
  BY <1>1 DEF First
<1>3. \A f : Copying(f)' <=> Copying(f)
  <2>1. \A f : Matching(f)' <=> Matching(f)
    BY <1>1, <1>2 DEF Matching
  <2>2. \A f : Whole(f)' <=> Whole(f)
    BY <1>1, <1>2 DEF Whole
  <2>3. \A f : Begun(f)' <=> Begun(f)
    BY <1>1, <1>2 DEF Begun
  <2>4. \A f : Standing(f)' <=> Standing(f)
    BY <1>1 DEF Standing
  <2> QED
    BY <2>1, <2>2, <2>3, <2>4 DEF Copying
<1>4. Parents' <=> Parents
  BY <1>1 DEF Parents
<1>5. CopyGoesOn' <=> CopyGoesOn
  BY <1>3, <1>4 DEF CopyGoesOn
<1>6. (Fresh' <=> Fresh) /\ (Running' <=> Running)
  BY <1>1 DEF Fresh, Running
<1>7. CurrentSink' = CurrentSink /\ (ListedOnce' <=> ListedOnce)
  BY <1>1 DEF CurrentSink, ListedOnce
<1> QED
  BY <1>1, <1>5, <1>6, <1>7 DEF CopyInv

(* Hence every step keeps it, ...                                          *)
LEMMA StepCopy == StreamInv /\ StreamInv' /\ CopyInv /\ [Next]_vars => CopyInv'
BY NodeCopies, StartCopies, EndCopies, EndOfStreamCopies, StutterCopies DEF Next

(* ... and it always holds.                                                *)
LEMMA CopyInvariant == Spec => []CopyInv
BY InitCopy, StepCopy, StreamInvariant, PTL DEF Spec

(* A sequence whose elements are the last ones of another.                 *)
OfLength(s, n) == s = [i \in 1..n |-> s[i]]

EndsAs(t, k, s, from) == \A i \in 1..k : t[i] = s[from - 1 + i]

(* It is SubSeq from there to the end.                                     *)
LEMMA LastOnes ==
    ASSUME NEW s, NEW t, NEW n \in Nat, NEW k \in Nat, NEW from \in Nat \ {0},
           k + from = n + 1, OfLength(s, n), OfLength(t, k),
           EndsAs(t, k, s, from)
    PROVE  t = SubSeq(s, from, Len(s))
<1> DEFINE A == {s[i] : i \in 1..n}
           u == SubSeq(s, from, n)
<1>1. \A i \in 1..n : s[i] \in A
  OBVIOUS
<1>2. \A i \in 1..k : t[i] = s[from - 1 + i]
  BY DEF EndsAs
<1>3. \A i \in 1..k : from - 1 + i \in 1..n
  OBVIOUS
<1> HIDE DEF A
<1>4. s \in Seq(A) /\ Len(s) = n
  <2>1. s \in [1..n -> A]
    BY <1>1 DEF OfLength
  <2>2. s \in Seq(A) /\ DOMAIN s = 1..n
    BY <2>1
  <2> QED
    BY <2>2
<1>5. t \in Seq(A) /\ Len(t) = k
  <2>1. \A i \in 1..k : t[i] \in A
    BY <1>1, <1>2, <1>3
  <2>2. t \in [1..k -> A]
    BY <2>1 DEF OfLength
  <2>3. t \in Seq(A) /\ DOMAIN t = 1..k
    BY <2>2
  <2> QED
    BY <2>3
<1>6. /\ u \in Seq(A) /\ Len(u) = k
      /\ \A i \in 1..k : u[i] = s[from - 1 + i]
  <2>1. \A i \in from..n : s[i] \in A
    BY <1>1
  <2>2. /\ u \in Seq(A) /\ Len(u) = IF from <= n THEN n - from + 1 ELSE 0
        /\ \A i \in 1..(n - from + 1) : u[i] = s[from + i - 1]
    <3>1. n \in Int /\ from \in Int
      OBVIOUS
    <3> QED
      BY <2>1, <3>1, SubSeqProperties
  <2>3. n - from + 1 = k /\ (from <= n \/ k = 0)
    OBVIOUS
  <2>4. \A i \in 1..k : from + i - 1 = from - 1 + i
    OBVIOUS
  <2> HIDE DEF u
  <2>5. Len(u) = k
    BY <2>2, <2>3
  <2> QED
    BY <2>2, <2>3, <2>4, <2>5
<1> HIDE DEF u
<1>7. t = u
  <2>1. \A i \in 1..k : t[i] = u[i]
    BY <1>2, <1>6
  <2> QED
    BY <1>5, <1>6, <2>1, SeqEqual
<1> QED
  BY <1>4, <1>7 DEF u

(* What the nodes of the source hold, and those there are now.             *)
LEMMA SourceUnfolds ==
    ASSUME NEW src \in Sources
    PROVE  Unfolds(src)
<1> DEFINE len == Len(src)
           rank == [k \in 1..len |-> len - k]
<1>1. /\ DOMAIN src = 1..len /\ len \in Nat \ {0}
      /\ \A c \in 1..len :
            /\ DOMAIN src[c].children = 1..Len(src[c].children)
            /\ \A i \in 1..Len(src[c].children) : src[c].children[i] \in (c + 1)..len
  BY SourceFacts
<1> HIDE DEF len
<1>2. \A c \in DOMAIN src : rank[c] \in Nat /\ rank[c] < len
  BY <1>1
<1>3. Above(src, rank)
  <2>1. ASSUME NEW c \in 1..len, NEW n \in (c + 1)..len
        PROVE  n \in 1..len /\ rank[n] < rank[c]
    BY <1>1
  <2> HIDE DEF rank
  <2>2. ASSUME NEW c \in DOMAIN src, NEW i \in DOMAIN src[c].children
        PROVE  src[c].children[i] \in DOMAIN src /\ rank[src[c].children[i]] < rank[c]
    BY <1>1, <2>1
  <2> QED
    BY <2>2 DEF Above
<1> HIDE DEF rank
<1>4. len \in Nat
  BY <1>1
<1> QED
  BY <1>2, <1>3, <1>4, ContentUnfolds

(* The nodes that ToTree holds are ranked: those it allocated before       *)
(* those of the source, which come after one another.                      *)
LEMMA NodesUnfold ==
    ASSUME NodesInv, phase # "undefined", Ranked(nodes, Len(source))
    PROVE  Unfolds(nodes)
<1> DEFINE len == Len(source)
           l == Len(nodes)
           rank == [k \in 1..l |-> IF k <= len THEN len - k ELSE len + (l - k)]
<1>1. /\ DOMAIN nodes = 1..l /\ len \in Nat \ {0} /\ l \in Nat /\ len <= l
      /\ \A c \in 1..l : DOMAIN nodes[c].children = 1..Len(nodes[c].children)
  <2>1. /\ nodes \in Seq(NodeRecord) /\ len \in Nat \ {0} /\ len <= l
    BY SourceFacts DEF NodesInv
  <2>2. \A c \in 1..l : nodes[c].children \in Seq(Nat)
    BY <2>1, NodeFields
  <2> QED
    BY <2>1, <2>2
<1>2. \A c \in 1..len : \A i \in 1..Len(nodes[c].children) : nodes[c].children[i] \in (c + 1)..len
  BY SourceFacts DEF NodesInv
<1>3. \A c \in (len + 1)..l : \A i \in 1..Len(nodes[c].children) :
         nodes[c].children[i] \in (c + 1)..l \cup 1..len
  BY DEF Ranked
<1> HIDE DEF len, l
<1>4. \A c \in DOMAIN nodes : rank[c] \in Nat /\ rank[c] < len + l
  BY <1>1
<1>5. Above(nodes, rank)
  <2>1. ASSUME NEW c \in 1..len, NEW n \in (c + 1)..len
        PROVE  n \in 1..l /\ rank[n] < rank[c]
    <3>1. n \in 1..l /\ c \in 1..l /\ n <= len /\ c <= len
      BY <1>1
    <3>2. rank[n] = len - n /\ rank[c] = len - c
      BY <3>1
    <3> QED
      BY <1>1, <3>1, <3>2
  <2>2. ASSUME NEW c \in (len + 1)..l, NEW n \in (c + 1)..l \cup 1..len
        PROVE  n \in 1..l /\ rank[n] < rank[c]
    <3>1. n \in 1..l /\ c \in 1..l /\ ~(c <= len)
      BY <1>1
    <3>2. rank[c] = len + (l - c)
      BY <3>1
    <3>3. rank[n] = len - n \/ (rank[n] = len + (l - n) /\ n > c)
      BY <1>1, <3>1
    <3> QED
      BY <1>1, <3>1, <3>2, <3>3
  <2>3. \A c \in 1..l : c \in 1..len \/ c \in (len + 1)..l
    BY <1>1
  <2> HIDE DEF rank
  <2>4. ASSUME NEW c \in DOMAIN nodes, NEW i \in DOMAIN nodes[c].children
        PROVE  nodes[c].children[i] \in DOMAIN nodes /\ rank[nodes[c].children[i]] < rank[c]
    BY <1>1, <1>2, <1>3, <2>1, <2>2, <2>3
  <2> QED
    BY <2>4 DEF Above
<1> HIDE DEF rank
<1>6. len + l \in Nat
  BY <1>1
<1> QED
  BY <1>4, <1>5, <1>6, ContentUnfolds

(* A tree streamed into itself is the same, ...                            *)
LEMMA SameTree ==
    ASSUME NodesInv, phase # "undefined", Ranked(nodes, Len(source))
    PROVE  Content(nodes, 1) = Content(source, 1)
<1> DEFINE src == source
           len == Len(src)
           f == [k \in 1..len |-> k]
           S == 1..len
<1>1. /\ src \in Sources /\ DOMAIN src = 1..len /\ len \in Nat \ {0}
      /\ nodes \in Seq(NodeRecord) /\ len <= Len(nodes)
      /\ \A c \in 1..len : /\ nodes[c].cont = src[c].cont /\ nodes[c].id = src[c].id
                           /\ nodes[c].children = src[c].children
      /\ \A c \in 1..len : /\ DOMAIN src[c].children = 1..Len(src[c].children)
                           /\ \A i \in 1..Len(src[c].children) : src[c].children[i] \in (c + 1)..len
  BY SourceFacts DEF NodesInv
<1>2. ASSUME NEW m \in S
      PROVE  /\ m \in DOMAIN nodes /\ f[m] \in 1..Len(src)
             /\ DOMAIN nodes[m].children = DOMAIN src[f[m]].children
             /\ \A i \in DOMAIN nodes[m].children :
                   LET n == nodes[m].children[i] IN
                   /\ n \in S /\ f[n] = src[f[m]].children[i] /\ f[n] > f[m]
                   /\ nodes[n].id = src[f[n]].id /\ nodes[n].cont = src[f[n]].cont
  <2>1. m \in DOMAIN nodes /\ f[m] = m /\ m \in 1..len
    BY <1>1
  <2>2. ASSUME NEW i \in 1..Len(src[m].children)
        PROVE  LET n == src[m].children[i] IN n \in S /\ f[n] = n /\ n > m
    BY <1>1
  <2> HIDE DEF f, src
  <2>3. ASSUME NEW i \in DOMAIN nodes[m].children
        PROVE  LET n == nodes[m].children[i] IN
               /\ n \in S /\ f[n] = src[f[m]].children[i] /\ f[n] > f[m]
               /\ nodes[n].id = src[f[n]].id /\ nodes[n].cont = src[f[n]].cont
    <3> DEFINE n == nodes[m].children[i]
    <3>1. n = src[m].children[i] /\ i \in 1..Len(src[m].children)
      BY <1>1, <2>1
    <3>2. n \in S /\ f[n] = n /\ n > m
      BY <2>2, <3>1
    <3> HIDE DEF n
    <3> QED
      BY <1>1, <2>1, <3>1, <3>2 DEF n
  <2>4. DOMAIN nodes[m].children = DOMAIN src[f[m]].children
    BY <1>1, <2>1
  <2> QED
    BY <2>1, <2>3, <2>4
<1>3. Unfolds(nodes)
  BY NodesUnfold
<1>4. Unfolds(src)
  BY <1>1, SourceUnfolds
<1>5. 1 \in S /\ f[1] = 1
  BY <1>1
<1> HIDE DEF f, S
<1>6. Len(src) \in Nat /\ DOMAIN src = 1..Len(src)
  BY <1>1
<1> HIDE DEF src
<1>7. HoldTheSame(nodes, src, f, S)
  <2>1. Alike(nodes, src, f, S)
    BY <1>2 DEF Alike
  <2> QED
    BY <1>3, <1>4, <1>6, <2>1, SameContent
<1> QED
  BY <1>5, <1>7 DEF HoldTheSame, src

(* ... and the tree that is built holds what was sent.                     *)
LEMMA NodesAreAlike ==
    ASSUME NodesInv, phase # "undefined", Ranked(nodes, Len(source)), root # 1,
           NEW f, Copying(f), stack = <<root>>
    PROVE  Alike(nodes, source, f, (1..Len(nodes)) \ {root})
<1> DEFINE len == Len(source)
           l == Len(nodes)
           S == (1..l) \ {root}
<1>1. /\ DOMAIN nodes = 1..l /\ len \in Nat \ {0} /\ l \in Nat /\ len <= l /\ root = len + 1
      /\ \A c \in 1..l : /\ DOMAIN nodes[c].children = 1..Len(nodes[c].children)
                         /\ Len(nodes[c].children) \in Nat
      /\ \A c \in 1..len : nodes[c].children = source[c].children
  <2>1. /\ nodes \in Seq(NodeRecord) /\ len \in Nat \ {0} /\ len <= l /\ root = len + 1
        /\ \A c \in 1..len : nodes[c].children = source[c].children
    BY SourceFacts DEF NodesInv
  <2>2. \A c \in 1..l : nodes[c].children \in Seq(Nat)
    BY <2>1, NodeFields
  <2> QED
    BY <2>1, <2>2
<1>2. \A c \in 1..len :
         /\ DOMAIN source[c].children = 1..Len(source[c].children)
         /\ Len(source[c].children) \in Nat
         /\ \A i \in 1..Len(source[c].children) : source[c].children[i] \in (c + 1)..len
  BY SourceFacts DEF NodesInv
<1>3. /\ f \in [1..l -> 1..len] /\ \A n \in 1..len : f[n] = n
      /\ \A m \in 1..l :
            m # root => nodes[m].id = source[f[m]].id /\ nodes[m].cont = source[f[m]].cont
  BY DEF Copying, Standing
<1>4. \A m \in (len + 1)..l : \A i \in 1..Len(nodes[m].children) :
         f[nodes[m].children[i]] = source[f[m]].children[First(m) - 1 + i]
  BY DEF Copying, Matching
<1>5. \A m \in (len + 1)..l :
         m # root => Len(nodes[m].children) + First(m) = Len(source[f[m]].children) + 1
  <2>1. \A k \in 1..Len(stack) : stack[k] = root
    OBVIOUS
  <2> QED
    BY <2>1 DEF Copying, Whole
<1>6. \A m : m # root => First(m) = 1
  BY DEF First
<1>7. \A m \in (len + 1)..l : \A i \in 1..Len(nodes[m].children) :
         nodes[m].children[i] \in (m + 1)..l \cup 1..len
  BY DEF Ranked
<1> HIDE DEF len, l, S
<1>8. ASSUME NEW m \in S
      PROVE  /\ DOMAIN nodes[m].children = DOMAIN source[f[m]].children
             /\ \A i \in DOMAIN nodes[m].children :
                   LET n == nodes[m].children[i] IN
                   n \in S /\ f[n] = source[f[m]].children[i] /\ f[n] > f[m]
  <2>1. m \in 1..l /\ m # root /\ (m \in 1..len \/ m \in (len + 1)..l)
    BY <1>1 DEF S
  <2>2. CASE m \in 1..len
    <3>1. f[m] = m /\ nodes[m].children = source[m].children
      BY <1>1, <1>3, <2>2
    <3>2. ASSUME NEW i \in 1..Len(source[m].children)
          PROVE  LET n == source[m].children[i] IN n \in S /\ f[n] = n /\ n > m
      <4> DEFINE n == source[m].children[i]
      <4>1. n \in (m + 1)..len
        BY <1>2, <2>2
      <4> HIDE DEF n
      <4>2. n \in 1..len /\ n \in S /\ n > m
        BY <1>1, <2>2, <4>1 DEF S
      <4> QED
        BY <1>3, <4>2 DEF n
    <3> QED
      BY <1>2, <2>2, <3>1, <3>2
  <2>3. CASE m \in (len + 1)..l
    <3> DEFINE c == f[m]
               q == Len(nodes[m].children)
    <3>1. c \in 1..len
      BY <1>3, <2>1
    <3> HIDE DEF c
    <3>2. q = Len(source[c].children) /\ DOMAIN nodes[m].children = 1..q
      <4>1. q + 1 = Len(source[c].children) + 1
        BY <1>5, <1>6, <2>1, <2>3 DEF c
      <4>2. q \in Nat /\ Len(source[c].children) \in Nat /\ DOMAIN nodes[m].children = 1..q
        BY <1>1, <1>2, <2>1, <3>1
      <4> HIDE DEF q
      <4> QED
        BY <4>1, <4>2
    <3>3. ASSUME NEW i \in 1..q
          PROVE  LET n == nodes[m].children[i] IN
                 n \in S /\ f[n] = source[c].children[i] /\ f[n] > c
      <4> DEFINE n == nodes[m].children[i]
      <4>1. n \in (m + 1)..l \cup 1..len
        BY <1>7, <2>3
      <4>2. f[n] = source[c].children[i]
        <5>1. f[n] = source[f[m]].children[First(m) - 1 + i] /\ First(m) = 1
          BY <1>4, <1>6, <2>1, <2>3
        <5>2. 1 - 1 + i = i
          BY <1>1, <2>1
        <5> QED
          BY <5>1, <5>2 DEF c
      <4>3. source[c].children[i] \in (c + 1)..len
        BY <1>2, <3>1, <3>2
      <4> HIDE DEF n, q
      <4>4. f[n] > c
        BY <1>1, <3>1, <4>2, <4>3
      <4>5. n \in S
        BY <1>1, <2>3, <4>1 DEF S
      <4> QED
        BY <4>2, <4>4, <4>5 DEF n
    <3>4. DOMAIN source[c].children = 1..Len(source[c].children)
      BY <1>2, <3>1
    <3> QED
      BY <3>2, <3>3, <3>4 DEF c
  <2> QED
    BY <2>1, <2>2, <2>3
<1>9. ASSUME NEW m \in S
      PROVE  /\ m \in DOMAIN nodes /\ f[m] \in 1..len
             /\ nodes[m].id = source[f[m]].id /\ nodes[m].cont = source[f[m]].cont
  <2>1. m \in 1..l /\ m # root
    BY DEF S
  <2> QED
    BY <1>1, <1>3, <2>1
<1>10. ASSUME NEW m \in S, NEW i \in DOMAIN nodes[m].children
       PROVE  LET n == nodes[m].children[i] IN
              /\ n \in S /\ f[n] = source[f[m]].children[i] /\ f[n] > f[m]
              /\ nodes[n].id = source[f[n]].id /\ nodes[n].cont = source[f[n]].cont
  <2> DEFINE n == nodes[m].children[i]
  <2>1. n \in S /\ f[n] = source[f[m]].children[i] /\ f[n] > f[m]
    BY <1>8
  <2> HIDE DEF n
  <2> QED
    BY <1>9, <2>1 DEF n
<1>11. Alike(nodes, source, f, S)
  BY <1>8, <1>9, <1>10 DEF Alike, len
<1> QED
  BY <1>11 DEF S, l

(* The root that was built holds what the source's root holds from the     *)
(* child on that the chain was switched at.                                *)
LEMMA BuiltTree ==
    ASSUME NodesInv, phase # "undefined", Ranked(nodes, Len(source)), root # 1,
           switched.at \in Nat \ {0}, NEW f, Copying(f), stack = <<root>>,
           walk[1].cont = 1, walk[1].at = Len(source[1].children) + 1
    PROVE  LET sent == Content(source, 1) IN
           Content(nodes, root) = SubSeq(sent, switched.at, Len(sent))
<1> DEFINE len == Len(source)
           l == Len(nodes)
           S == (1..l) \ {root}
           sent == Content(source, 1)
           built == Content(nodes, root)
           k == Len(nodes[root].children)
           n == Len(source[1].children)
           from == switched.at
<1>1. /\ root \in DOMAIN nodes /\ len \in Nat \ {0} /\ l \in Nat /\ root = len + 1 /\ root <= l
      /\ DOMAIN source = 1..len
      /\ DOMAIN nodes[root].children = 1..k /\ k \in Nat
      /\ DOMAIN source[1].children = 1..n /\ n \in Nat
      /\ source \in Sources
  <2>1. /\ nodes \in Seq(NodeRecord) /\ len \in Nat \ {0} /\ root = len + 1 /\ root <= l
        /\ source \in Seq(NodeRecord) /\ source \in Sources
    BY SourceFacts DEF NodesInv
  <2>2. root \in 1..l /\ 1 \in 1..len /\ l \in Nat
    BY <2>1
  <2>3. nodes[root].children \in Seq(Nat) /\ source[1].children \in Seq(Nat)
    BY <2>1, <2>2, NodeFields
  <2> QED
    BY <2>1, <2>2, <2>3
<1>2. Unfolds(nodes) /\ Unfolds(source)
  BY <1>1, NodesUnfold, SourceUnfolds
<1>3. HoldTheSame(nodes, source, f, S)
  <2>1. Alike(nodes, source, f, S)
    BY NodesAreAlike
  <2> HIDE DEF S
  <2> QED
    BY <1>1, <1>2, <2>1, SameContent
<1>4. /\ k + from = n + 1 /\ f[root] = 1
      /\ \A i \in 1..k : f[nodes[root].children[i]] = source[1].children[from - 1 + i]
  <2>1. Begun(f) /\ Matching(f)
    BY DEF Copying
  <2>2. stack[1] = root /\ 1 \in 1..Len(stack) /\ root > len
    BY <1>1
  <2>3. f[root] = 1 /\ k + First(root) = n + 1
    BY <2>1, <2>2 DEF Begun
  <2>4. First(root) = from
    BY DEF First
  <2>5. root \in (len + 1)..l
    BY <1>1
  <2>6. \A i \in 1..k : f[nodes[root].children[i]] = source[f[root]].children[First(root) - 1 + i]
    BY <2>1, <2>5 DEF Matching
  <2> QED
    BY <2>3, <2>4, <2>6
<1>5. \A i \in 1..k : nodes[root].children[i] \in S
  <2>1. \A i \in 1..k : nodes[root].children[i] \in (root + 1)..l \cup 1..len
    <3>1. root \in (len + 1)..l
      BY <1>1
    <3> QED
      BY <3>1 DEF Ranked
  <2>2. (root + 1)..l \cup 1..len \subseteq S
    BY <1>1
  <2> QED
    BY <2>1, <2>2
<1>6. \A m \in S : nodes[m].id = source[f[m]].id /\ nodes[m].cont = source[f[m]].cont
  BY DEF Copying, Standing
<1>7. built = Holds(nodes, root, Contents(nodes)) /\ sent = Holds(source, 1, Contents(source))
  <2>1. 1 \in DOMAIN source
    BY <1>1
  <2> QED
    BY <1>1, <1>2, <2>1 DEF Unfolds
<1>8. ASSUME NEW i \in 1..k
      PROVE  /\ from - 1 + i \in 1..n
             /\ built[i] = sent[from - 1 + i]
  <2> DEFINE j == from - 1 + i
             m == nodes[root].children[i]
             e == source[1].children[j]
  <2>1. j \in 1..n
    <3>1. k + from = n + 1 /\ from \in Nat \ {0} /\ k \in Nat /\ n \in Nat /\ i \in 1..k
      BY <1>1, <1>4
    <3> HIDE DEF k, n, from
    <3> QED
      BY <3>1
  <2>2. m \in S /\ f[m] = e
    BY <1>4, <1>5
  <2>3. /\ m \in DOMAIN nodes /\ e \in DOMAIN source
        /\ nodes[m].id = source[e].id /\ nodes[m].cont = source[e].cont
    <3>1. m \in 1..l /\ DOMAIN nodes = 1..l
      BY <2>2 DEF NodesInv
    <3>2. f[m] \in 1..len
      BY <3>1 DEF Copying, Standing
    <3> HIDE DEF m, e, S
    <3> QED
      BY <1>1, <1>6, <2>2, <3>1, <3>2
  <2>4. built[i] = <<nodes[m].id, nodes[m].cont, Contents(nodes)[m]>>
    BY <1>1, <1>7 DEF Holds
  <2>5. sent[j] = <<source[e].id, source[e].cont, Contents(source)[e]>>
    BY <1>1, <1>7, <2>1 DEF Holds
  <2> HIDE DEF m, e, j, S, built, sent
  <2>6. Contents(nodes)[m] = Contents(source)[e]
    <3>1. Content(nodes, m) = Content(source, e)
      BY <1>3, <2>2 DEF HoldTheSame
    <3> QED
      BY <2>3, <3>1 DEF Contents
  <2> QED
    BY <2>1, <2>3, <2>4, <2>5, <2>6 DEF j
<1>9. OfLength(built, k) /\ OfLength(sent, n)
  BY <1>1, <1>7 DEF Holds, OfLength
<1> HIDE DEF built, sent, k, n, S, l, len
<1>10. k \in Nat /\ n \in Nat /\ from \in Nat \ {0} /\ k + from = n + 1
  BY <1>1, <1>4
<1>11. EndsAs(built, k, sent, from)
  BY <1>8 DEF EndsAs
<1>12. built = SubSeq(sent, from, Len(sent))
  <2> HIDE DEF from
  <2> QED
    BY <1>9, <1>10, <1>11, LastOnes
<1> QED
  BY <1>12 DEF built, sent

(* ToTree of FromTree is a deep copy: the tree that was built holds what   *)
(* the source held, in the same order and to every depth, whichever of the *)
(* nodes subtree_to_sink sends are copied and whichever taken over.        *)
THEOREM ToTreeCopies == Spec => []CopyIsComplete
<1>1. StreamInv /\ CopyInv => CopyIsComplete
  <2> SUFFICES ASSUME StreamInv, CopyInv, phase = "ended", chain = <<"tree">>,
                      switched.open = 0, ListedOnce
               PROVE  LET sent == Content(source, 1)
                          from == IF root = 1 THEN 1 ELSE switched.at
                      IN  Content(nodes, root) = SubSeq(sent, from, Len(sent))
    BY DEF CopyIsComplete
  <2>1. NodesInv /\ Ranked(nodes, Len(source)) /\ switched.at \in Nat \ {0}
    BY DEF StreamInv, CopyInv
  <2>2. CurrentSink = "tree"
    BY DEF CurrentSink
  <2>3. CASE root = 1
    <3> DEFINE sent == Content(source, 1)
               n == Len(source[1].children)
    <3>1. Content(nodes, 1) = sent
      BY <2>1, SameTree
    <3>2. source \in Sources /\ 1 \in 1..Len(source) /\ n \in Nat /\ DOMAIN source = 1..Len(source)
          /\ DOMAIN source[1].children = 1..n
      BY <2>1, SourceFacts DEF NodesInv
    <3>3. OfLength(sent, n)
      <4>1. sent = Holds(source, 1, Contents(source))
        BY <3>2, SourceUnfolds DEF Unfolds
      <4> QED
        BY <3>2, <4>1 DEF Holds, OfLength
    <3> HIDE DEF sent, n
    <3>4. EndsAs(sent, n, sent, 1)
      BY <3>2 DEF EndsAs
    <3>5. n + 1 = n + 1 /\ 1 \in Nat \ {0}
      OBVIOUS
    <3>6. sent = SubSeq(sent, 1, Len(sent))
      BY <3>2, <3>3, <3>4, <3>5, LastOnes
    <3> QED
      BY <2>3, <3>1, <3>6 DEF sent
  <2>4. CASE root # 1
    <3>1. CopyGoesOn /\ stack = <<root>> /\ walk[1].cont = 1
          /\ walk[1].at = Len(source[1].children) + 1
      BY <2>2, <2>4 DEF CopyInv, Running
    <3>2. PICK f : Copying(f)
      BY <3>1 DEF CopyGoesOn
    <3> QED
      BY <2>1, <2>4, <3>1, <3>2, BuiltTree
  <2> QED
    BY <2>3, <2>4
<1> QED
  BY <1>1, StreamInvariant, CopyInvariant, PTL

============================================================================
