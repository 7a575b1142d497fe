-------------------------- MODULE DeserializerProofs --------------------------
(***************************************************************************)
(* Proofs about the deserializers, for every set of declarations and for   *)
(* every sender: the stream of Deserializer and the one that Serializer    *)
(* writes.                                                                 *)
(***************************************************************************)
EXTENDS Serializer, SequenceTheorems, WellFoundedInduction, TLAPS

-----------------------------------------------------------------------------
(* Declarations.                                                           *)

(* A set of natural numbers has a least element.                           *)
LEMMA MinExists ==
    ASSUME NEW T \in SUBSET Nat, T # {}
    PROVE  \E m \in T : \A n \in T : m <= n
<1> DEFINE R == {ss \in Nat \X Nat : ss[1] < ss[2]}
<1>1. OpToRel(<, Nat) = R
  BY DEF OpToRel
<1>2. IsWellFoundedOn(R, Nat)
  BY NatLessThanWellFounded, <1>1
<1>3. \A m, n \in Nat : n < m => <<n, m>> \in R
  OBVIOUS
<1> HIDE DEF R
<1>4. PICK m \in T : \A n \in T : ~(<<n, m>> \in R)
  BY <1>2, WFMin
<1>5. \A k, n \in Nat : k <= n \/ n < k
  OBVIOUS
<1> QED
  BY <1>3, <1>4, <1>5

LEMMA MinIn ==
    ASSUME NEW T \in SUBSET Nat, T # {}
    PROVE  Min(T) \in T
BY MinExists, Zenon DEF Min

(* Who reads a node is of the node's type, and a member of what it is in.  *)
LEMMA FoundFacts ==
    ASSUME NEW d \in Decls \cup {Null}, Kind(d) # "value", NEW node
    PROVE  /\ Found(d, node) \in Decls \cup {Null}
           /\ d = Null => Found(d, node) = Null
           /\ Kind(d) = "record" => Found(d, node) = d
           /\ Kind(d) # "record" =>
                 /\ Kind(Found(d, node)) # "only"
                 /\ Kind(Found(d, node)) = "value" => ~node.cont
<1>1. Null \notin Decls /\ Kind(Null) = "null"
  BY DeclAssumption DEF Kind
<1>2. ASSUME NEW e \in Decls PROVE Kind(e) = Decl[e].kind /\ Kind(e) \in Kinds
  BY <1>1, DeclAssumption DEF Kind
<1>3. CASE d = Null
  <2>1. Matching(d, node) = {} /\ Kind(d) = "null"
    BY <1>1, <1>3 DEF Matching
  <2> QED
    BY <1>1, <1>3, <2>1 DEF Found
<1>4. CASE Kind(d) = "record"
  BY <1>1, <1>4 DEF Found
<1>5. CASE d \in Decls /\ Kind(d) # "record"
  <2> DEFINE members == Decl[d].members
             i == Min(Matching(d, node))
  <2>1. members \in Seq({m \in Decls : Decl[m].kind # "only"})
    BY <1>2, <1>5, DeclAssumption
  <2>2. Found(d, node) = IF Matching(d, node) = {} THEN Null ELSE members[i]
    BY <1>5 DEF Found
  <2>3. ASSUME Matching(d, node) # {}
        PROVE  /\ members[i] \in Decls /\ Kind(members[i]) # "only"
               /\ Kind(members[i]) = "value" => ~node.cont
    <3>1. Matching(d, node) = {k \in DOMAIN members : Matches(members[k], node)}
      BY <1>1, <1>5 DEF Matching
    <3>2. Matching(d, node) \in SUBSET Nat
      BY <2>1, <3>1
    <3>3. i \in DOMAIN members /\ Matches(members[i], node)
      BY <3>1, <3>2, <2>3, MinIn
    <3>4. members[i] \in Decls /\ Decl[members[i]].kind # "only"
      BY <2>1, <3>3
    <3>5. node.cont = (Decl[members[i]].kind # "value")
      BY <3>3 DEF Matches
    <3> QED
      BY <1>2, <3>4, <3>5
  <2> QED
    BY <1>1, <1>5, <2>2, <2>3
<1> QED
  BY <1>3, <1>4, <1>5

-----------------------------------------------------------------------------
(* Chains of deserializers.                                                *)

(* Removing the last element of a nonempty sequence.                       *)
LEMMA FrontFacts ==
    ASSUME NEW S, NEW s \in Seq(S), s # <<>>
    PROVE  /\ Front(s) \in Seq(S)
           /\ Len(Front(s)) = Len(s) - 1
           /\ \A i \in 1..(Len(s) - 1) : Front(s)[i] = s[i]
<1>1. Len(s) \in Nat \ {0}
  BY EmptySeq, LenProperties
<1> DEFINE n == Len(s) - 1
<1>2. n \in Nat /\ (\A i \in 1..n : s[i] \in S) /\ n = Len(s) - 1
  BY <1>1
<1>3. Front(s) = SubSeq(s, 1, n)
  BY DEF Front
<1> HIDE DEF n
<1>4. /\ SubSeq(s, 1, n) \in Seq(S)
      /\ Len(SubSeq(s, 1, n)) = IF 1 <= n THEN n - 1 + 1 ELSE 0
      /\ \A i \in 1..(n - 1 + 1) : SubSeq(s, 1, n)[i] = s[1 + i - 1]
  BY <1>2, SubSeqProperties
<1> QED
  BY <1>2, <1>3, <1>4

(* The last element of a nonempty sequence.                                *)
LEMMA LastFacts ==
    ASSUME NEW S, NEW s \in Seq(S), s # <<>>
    PROVE  /\ Len(s) \in Nat \ {0} /\ Len(s) \in DOMAIN s
           /\ Last(s) = s[Len(s)] /\ Last(s) \in S
<1>1. Len(s) \in Nat \ {0}
  BY EmptySeq, LenProperties
<1> QED
  BY <1>1 DEF Last

(* Only the last element of s is another one in t.                         *)
SameBelow(s, t) ==
    Len(t) = Len(s) /\ \A i \in 1..(Len(s) - 1) : t[i] = s[i]

LEMMA LastReplaced ==
    ASSUME NEW S, NEW s \in Seq(S), s # <<>>, NEW v \in S,
           NEW t, t = [s EXCEPT ![Len(s)] = v]
    PROVE  t \in Seq(S) /\ t # <<>> /\ SameBelow(s, t) /\ Last(t) = v
<1>1. Len(s) \in Nat \ {0} /\ Len(s) \in DOMAIN s
  BY LastFacts
<1>2. /\ t \in Seq(S) /\ Len(t) = Len(s)
      /\ \A i \in 1..Len(s) : t[i] = IF i = Len(s) THEN v ELSE s[i]
  BY <1>1
<1>3. t # <<>>
  BY <1>1, <1>2
<1>4. \A i \in 1..(Len(s) - 1) : i \in 1..Len(s) /\ i # Len(s)
  BY <1>1
<1>5. \A i \in 1..(Len(s) - 1) : t[i] = s[i]
  BY <1>2, <1>4
<1>6. Last(t) = v
  BY <1>1, <1>2 DEF Last
<1> QED
  BY <1>2, <1>3, <1>5, <1>6 DEF SameBelow

(* The chain but for its last deserializer, which is l now.                *)
Replaced(s, t, l) ==
    t \in Seq(LevelType) /\ t # <<>> /\ SameBelow(s, t) /\ Last(t) = l

(* One counter of a deserializer changes.                                  *)
LEMMA LevelUpdates ==
    ASSUME NEW l \in LevelType, NEW k \in Nat
    PROVE  [l EXCEPT !.offs = k] \in LevelType /\ [l EXCEPT !.depth = k] \in LevelType
BY DEF LevelType

(* Storing an item.                                                        *)
LEMMA SubmittedFacts ==
    ASSUME NEW chain \in Seq(LevelType), chain # <<>>
    PROVE  LET l == Last(chain) IN
           Replaced(chain, Submitted(chain),
                    [l EXCEPT !.offs = IF Overflows(l) THEN @ ELSE @ + 1])
<1> DEFINE l == Last(chain)
           m == [l EXCEPT !.offs = IF Overflows(l) THEN @ ELSE @ + 1]
<1>1. l \in LevelType /\ l = chain[Len(chain)]
  BY LastFacts
<1>2. m \in LevelType
  BY <1>1 DEF LevelType
<1>3. CASE Overflows(l)
  <2>1. m = l
    BY <1>1, <1>3 DEF LevelType
  <2> QED
    BY <1>3, <2>1 DEF Submitted, Replaced, SameBelow
<1>4. CASE ~Overflows(l)
  <2>1. m = [chain[Len(chain)] EXCEPT !.offs = @ + 1]
    BY <1>1, <1>4
  <2>2. Submitted(chain) = [chain EXCEPT ![Len(chain)] = m]
    BY <1>4, <2>1 DEF Submitted
  <2> HIDE DEF m
  <2>3. Replaced(chain, Submitted(chain), m)
    BY <1>2, <2>2, LastReplaced DEF Replaced
  <2> QED
    BY <2>3 DEF m
<1> QED
  BY <1>3, <1>4

(* Storing a node of a record.                                             *)
LEMMA KeptFacts ==
    ASSUME NEW chain \in Seq(LevelType), chain # <<>>
    PROVE  Replaced(chain, Kept(chain), [Last(chain) EXCEPT !.offs = @ + 1])
<1> DEFINE m == [chain[Len(chain)] EXCEPT !.offs = @ + 1]
<1>1. Last(chain) \in LevelType /\ Last(chain) = chain[Len(chain)]
  BY LastFacts
<1>2. m = [Last(chain) EXCEPT !.offs = @ + 1]
  BY <1>1
<1>3. m \in LevelType
  <2>1. chain[Len(chain)].offs + 1 \in Nat
    BY <1>1 DEF LevelType
  <2> QED
    BY <1>1, <2>1, LevelUpdates
<1>4. Kept(chain) = [chain EXCEPT ![Len(chain)] = m]
  BY DEF Kept
<1> HIDE DEF m
<1>5. Replaced(chain, Kept(chain), m)
  BY <1>3, <1>4, LastReplaced DEF Replaced
<1> QED
  BY <1>2, <1>5

(* Taking note of the child that has been found.                           *)
LEMMA NotingFoundFacts ==
    ASSUME NEW chain \in Seq(LevelType), chain # <<>>
    PROVE  Replaced(chain, NotingFound(chain),
                    [Last(chain) EXCEPT !.found = @ \/ Kind(Last(chain).decl) \in {"only", "wrap"}])
<1> DEFINE m == [chain[Len(chain)] EXCEPT
                    !.found = @ \/ Kind(Last(chain).decl) \in {"only", "wrap"}]
<1>1. Last(chain) \in LevelType /\ Last(chain) = chain[Len(chain)]
  BY LastFacts
<1>2. m = [Last(chain) EXCEPT !.found = @ \/ Kind(Last(chain).decl) \in {"only", "wrap"}]
  BY <1>1
<1>3. m \in LevelType
  <2>1. (chain[Len(chain)].found \/ Kind(Last(chain).decl) \in {"only", "wrap"}) \in BOOLEAN
    OBVIOUS
  <2> QED
    BY <1>1, <2>1 DEF LevelType
<1>4. NotingFound(chain) = [chain EXCEPT ![Len(chain)] = m]
  BY DEF NotingFound
<1> HIDE DEF m
<1>5. Replaced(chain, NotingFound(chain), m)
  BY <1>3, <1>4, LastReplaced DEF Replaced
<1> QED
  BY <1>2, <1>5

(* What is noted about the deserializers that pass an event on.            *)
LEMMA DeeperFacts ==
    ASSUME NEW chain \in Seq(LevelType), chain # <<>>
    PROVE  /\ Deeper(chain) \in Seq(LevelType) /\ Len(Deeper(chain)) = Len(chain)
           /\ \A i \in 1..Len(chain) :
                 Deeper(chain)[i] =
                    IF chain[i].depth > 0
                    THEN [chain[i] EXCEPT !.depth = chain[i].depth + 1] ELSE chain[i]
<1> DEFINE D(i) == IF chain[i].depth > 0
                   THEN [chain[i] EXCEPT !.depth = chain[i].depth + 1] ELSE chain[i]
<1>1. \A i \in 1..Len(chain) : chain[i] \in LevelType
  OBVIOUS
<1>2. ASSUME NEW i \in 1..Len(chain) PROVE D(i) \in LevelType
  <2>1. chain[i] \in LevelType /\ chain[i].depth \in Nat
    BY <1>1 DEF LevelType
  <2>2. CASE chain[i].depth > 0
    <3>1. chain[i].depth + 1 \in Nat
      BY <2>1, <2>2
    <3> QED
      BY <2>1, <2>2, <3>1, LevelUpdates
  <2> QED
    BY <2>1, <2>2
<1>3. Deeper(chain) = [i \in 1..Len(chain) |-> D(i)]
  BY DEF Deeper
<1>4. \A i \in 1..Len(chain) :
         D(i) = IF chain[i].depth > 0
                THEN [chain[i] EXCEPT !.depth = chain[i].depth + 1] ELSE chain[i]
  OBVIOUS
<1> HIDE DEF D
<1> QED
  BY <1>2, <1>3, <1>4

LEMMA ShallowerFacts ==
    ASSUME NEW chain \in Seq(LevelType), chain # <<>>
    PROVE  /\ Shallower(chain) \in Seq(LevelType) /\ Len(Shallower(chain)) = Len(chain)
           /\ \A i \in 1..Len(chain) :
                 Shallower(chain)[i] =
                    IF chain[i].depth > 0
                    THEN [chain[i] EXCEPT !.depth = chain[i].depth - 1] ELSE chain[i]
<1> DEFINE D(i) == IF chain[i].depth > 0
                   THEN [chain[i] EXCEPT !.depth = chain[i].depth - 1] ELSE chain[i]
<1>1. \A i \in 1..Len(chain) : chain[i] \in LevelType
  OBVIOUS
<1>2. ASSUME NEW i \in 1..Len(chain) PROVE D(i) \in LevelType
  <2>1. chain[i] \in LevelType /\ chain[i].depth \in Nat
    BY <1>1 DEF LevelType
  <2>2. CASE chain[i].depth > 0
    <3>1. chain[i].depth - 1 \in Nat
      BY <2>1, <2>2
    <3> QED
      BY <2>1, <2>2, <3>1, LevelUpdates
  <2> QED
    BY <2>1, <2>2
<1>3. Shallower(chain) = [i \in 1..Len(chain) |-> D(i)]
  BY DEF Shallower
<1>4. \A i \in 1..Len(chain) :
         D(i) = IF chain[i].depth > 0
                THEN [chain[i] EXCEPT !.depth = chain[i].depth - 1] ELSE chain[i]
  OBVIOUS
<1> HIDE DEF D
<1> QED
  BY <1>2, <1>3, <1>4

(* Nesting a new deserializer.                                             *)
LEMMA NestFacts ==
    ASSUME NEW chain \in Seq(LevelType), chain # <<>>, NEW d \in Decls \cup {Null}
    PROVE  LET t == Nest(chain, d)
               n == Len(chain)
           IN  /\ t \in Seq(LevelType) /\ Len(t) = n + 1
               /\ \A i \in 1..(n - 1) : t[i] = chain[i]
               /\ t[n] = [chain[n] EXCEPT !.depth = 1]
               /\ t[n + 1] = Level(d)
<1> DEFINE n == Len(chain)
           m == [chain[n] EXCEPT !.depth = 1]
           s == [chain EXCEPT ![n] = m]
<1>1. n \in Nat \ {0} /\ chain[n] \in LevelType
  BY LastFacts
<1>2. m \in LevelType /\ Level(d) \in LevelType
  BY <1>1 DEF LevelType, Level
<1>3. Nest(chain, d) = Append(s, Level(d))
  BY DEF Nest
<1> HIDE DEF m
<1>4. s \in Seq(LevelType) /\ Len(s) = n /\ s[n] = m
      /\ \A i \in 1..(n - 1) : s[i] = chain[i]
  BY <1>1, <1>2
<1> HIDE DEF s
<1>5. /\ Append(s, Level(d)) \in Seq(LevelType)
      /\ Len(Append(s, Level(d))) = n + 1
      /\ \A i \in 1..n : Append(s, Level(d))[i] = s[i]
      /\ Append(s, Level(d))[n + 1] = Level(d)
  BY <1>2, <1>4, AppendProperties
<1> QED
  BY <1>1, <1>3, <1>4, <1>5 DEF m

(* What a node adds to the truth about the innermost container.            *)
LEMMA NotedFacts ==
    ASSUME open \in Seq(OpenType), open # <<>>, NEW node, node.cont \in BOOLEAN
    PROVE  LET d == Found(Last(open).decl, node)
               o == Last(open)
               t == Noted(node)
           IN  /\ t \in Seq(OpenType) /\ t # <<>> /\ SameBelow(open, t)
               /\ Last(t) \in OpenType
               /\ Last(t).decl = o.decl
               /\ Last(t).found = IF d # Null THEN o.found + 1 ELSE o.found
               /\ Last(t).foreign = (o.foreign \/ (node.cont /\ d = Null))
<1> DEFINE d == Found(Last(open).decl, node)
           o == open[Len(open)]
           f == IF d # Null THEN o.found + 1 ELSE o.found
           g == o.foreign \/ (node.cont /\ d = Null)
           v == [o EXCEPT !.found = f, !.foreign = g]
<1>1. o \in OpenType /\ o = Last(open)
  BY LastFacts
<1>2. f \in Nat /\ g \in BOOLEAN
  BY <1>1 DEF OpenType
<1>3. Noted(node) = [open EXCEPT ![Len(open)] = v]
  BY DEF Noted
<1> HIDE DEF f, g
<1>4. v \in OpenType /\ v.decl = o.decl /\ v.found = f /\ v.foreign = g
  BY <1>1, <1>2 DEF OpenType
<1> HIDE DEF v
<1>5. Noted(node) \in Seq(OpenType) /\ Noted(node) # <<>>
      /\ SameBelow(open, Noted(node)) /\ Last(Noted(node)) = v
  BY <1>3, <1>4, LastReplaced
<1> QED
  BY <1>1, <1>4, <1>5 DEF f, g

-----------------------------------------------------------------------------
(* The inductive invariant.                                                *)

(* The chain reads the open containers from the outermost on, each by the  *)
(* deserializer of its declaration; what is deeper than the chain is in a  *)
(* container nobody knows or in a record.                                  *)
Chained(chain, os) ==
    /\ chain \in Seq(LevelType) /\ os \in Seq(OpenType)
    /\ chain # <<>> /\ Len(chain) <= Len(os)
    /\ \A i \in 1..Len(os) : Kind(os[i].decl) # "value"
    /\ \A i \in 1..Len(chain) :
          /\ chain[i].decl = os[i].decl
          /\ chain[i].depth = IF i = Len(chain) THEN 0 ELSE Len(os) - i
          /\ i < Len(chain) => Kind(chain[i].decl) \notin {"null", "record"}
          /\ i > 1 => Kind(chain[i].decl) # "only"
    /\ \A i \in 1..Len(os) :
          i > Len(chain) => /\ Kind(Last(chain).decl) \in {"null", "record"}
                            /\ os[i].decl = Last(chain).decl

(* What l has stored of o, of whose children all but the nested one have   *)
(* ended; `last' when none is nested.                                      *)
Ended(o, last) == IF last THEN o.found ELSE o.found - 1

ItemsCounted(l, o, last) ==
    /\ Kind(l.decl) = "seq" /\ ~o.foreign => l.offs = Ended(o, last)
    /\ Kind(l.decl) = "array" /\ ~o.foreign =>
          /\ l.offs = IF Ended(o, last) <= Decl[l.decl].count
                      THEN Ended(o, last) ELSE Decl[l.decl].count
          /\ Decl[l.decl].strict => Ended(o, last) <= Decl[l.decl].count
    /\ Kind(l.decl) \in {"wrap", "only"} =>
          /\ o.found <= 1
          /\ l.found <=> o.found = 1
    /\ Kind(l.decl) = "only" =>
          /\ ~l.thrown
          /\ last => o.found = 0

AllCounted(chain, os) ==
    \A i \in 1..Len(chain) :
        /\ i = Len(chain) => ItemsCounted(chain[i], os[i], TRUE)
        /\ i # Len(chain) => ItemsCounted(chain[i], os[i], FALSE)

DInv ==
    /\ TypeOK /\ open # <<>>
    /\ status = "live" => Chained(levels, open) /\ AllCounted(levels, open)
    /\ status = "refused" => Len(open) = 1 /\ Kind(open[1].decl) = "only" /\ open[1].found = 1
    /\ Kind(open[1].decl) = "only" => open[1].found <= 1
    /\ status \in {"live", "refused", "ended"} => \A o \in unmet : o.foreign

-----------------------------------------------------------------------------
(* One deserializer.                                                       *)

LEMMA LevelFields ==
    ASSUME NEW l \in LevelType
    PROVE  /\ l.decl \in Decls \cup {Null} /\ l.depth \in Nat /\ l.offs \in Nat
           /\ l.found \in BOOLEAN /\ l.thrown \in BOOLEAN
           /\ \A k : LET m == [l EXCEPT !.offs = k]
                     IN  /\ m.decl = l.decl /\ m.depth = l.depth /\ m.offs = k
                         /\ m.found = l.found /\ m.thrown = l.thrown
           /\ \A k : LET m == [l EXCEPT !.depth = k]
                     IN  /\ m.decl = l.decl /\ m.depth = k /\ m.offs = l.offs
                         /\ m.found = l.found /\ m.thrown = l.thrown
           /\ \A k : LET m == [l EXCEPT !.found = k]
                     IN  /\ m.decl = l.decl /\ m.depth = l.depth /\ m.offs = l.offs
                         /\ m.found = k /\ m.thrown = l.thrown
BY DEF LevelType

LEMMA OpenFields ==
    ASSUME NEW o \in OpenType
    PROVE  o.decl \in Decls \cup {Null} /\ o.found \in Nat /\ o.foreign \in BOOLEAN
BY DEF OpenType

LEMMA DeclFields ==
    ASSUME NEW d \in Decls \cup {Null}
    PROVE  /\ d = Null <=> Kind(d) = "null"
           /\ Kind(d) \in Kinds \cup {"null"}
           /\ Kind(d) = "array" => /\ Decl[d].count \in Nat
                                   /\ Decl[d].all \in BOOLEAN
                                   /\ Decl[d].strict \in BOOLEAN
BY DeclAssumption DEF Kind, Kinds

(* Storing the item that has ended keeps the count.                        *)
LEMMA StoredCounted ==
    ASSUME NEW l \in LevelType, NEW o \in OpenType, NEW p \in OpenType,
           NEW last \in BOOLEAN,
           Kind(l.decl) \in {"seq", "array"}, p.foreign = o.foreign,
           ItemsCounted(l, o, last), Ended(p, TRUE) = Ended(o, last) + 1,
           ~(Overflows(l) /\ Decl[l.decl].strict)
    PROVE  ItemsCounted([l EXCEPT !.offs = IF Overflows(l) THEN @ ELSE @ + 1], p, TRUE)
<1> DEFINE k == IF Overflows(l) THEN l.offs ELSE l.offs + 1
           m == [l EXCEPT !.offs = k]
<1>1. m.decl = l.decl /\ m.offs = k
  BY LevelFields
<1>2. m = [l EXCEPT !.offs = IF Overflows(l) THEN @ ELSE @ + 1]
  OBVIOUS
<1>3. /\ l.offs \in Nat /\ o.found \in Nat /\ p.found \in Nat
      /\ o.foreign \in BOOLEAN /\ l.decl \in Decls \cup {Null}
  BY LevelFields, OpenFields
<1>4. Ended(o, last) \in Int /\ Ended(p, TRUE) \in Int
  BY <1>3 DEF Ended
<1> HIDE DEF m
<1>5. ASSUME Kind(l.decl) = "seq" PROVE ItemsCounted(m, p, TRUE)
  <2>1. ~o.foreign => l.offs = Ended(o, last)
    BY <1>5 DEF ItemsCounted
  <2>2. k = l.offs + 1
    BY <1>5 DEF Overflows
  <2>3. ~p.foreign => m.offs = Ended(p, TRUE)
    BY <1>1, <2>1, <2>2
  <2> QED
    BY <1>1, <1>5, <2>3 DEF ItemsCounted
<1>6. ASSUME Kind(l.decl) = "array" PROVE ItemsCounted(m, p, TRUE)
  <2> DEFINE e == Ended(o, last)
             count == Decl[l.decl].count
  <2>1. count \in Nat
    BY <1>3, <1>6, DeclFields
  <2>2. Overflows(l) <=> l.offs >= count
    BY <1>6 DEF Overflows
  <2>3. ~o.foreign => /\ l.offs = IF e <= count THEN e ELSE count
                      /\ Decl[l.decl].strict => e <= count
    BY <1>6 DEF ItemsCounted
  <2>4. e \in Int /\ Ended(p, TRUE) = e + 1
    BY <1>4
  <2> HIDE DEF e, count
  <2>5. ~o.foreign => /\ k = IF e + 1 <= count THEN e + 1 ELSE count
                      /\ ~Overflows(l) => e + 1 <= count
    BY <1>3, <2>1, <2>2, <2>3, <2>4
  <2>6. ~p.foreign => /\ m.offs = IF e + 1 <= count THEN e + 1 ELSE count
                      /\ Decl[l.decl].strict => e + 1 <= count
    BY <1>1, <2>5
  <2> QED
    BY <1>1, <1>6, <2>4, <2>6 DEF ItemsCounted, count
<1> QED
  BY <1>2, <1>5, <1>6

(* A child that is found in a wrapper or an object is the first.           *)
LEMMA NotedCounted ==
    ASSUME NEW l \in LevelType, NEW o \in OpenType, NEW p \in OpenType, NEW last \in BOOLEAN,
           Kind(l.decl) \in {"struct", "wrap", "only"},
           Kind(l.decl) = "only" => ~last,
           ItemsCounted(l, o, TRUE), p.found = o.found + 1,
           Kind(l.decl) = "wrap" => ~l.found
    PROVE  ItemsCounted([l EXCEPT !.found = @ \/ Kind(l.decl) \in {"only", "wrap"}], p, last)
<1> DEFINE k == l.found \/ Kind(l.decl) \in {"only", "wrap"}
           m == [l EXCEPT !.found = k]
<1>1. m.decl = l.decl /\ m.found = k /\ m.thrown = l.thrown
  BY LevelFields
<1>2. m = [l EXCEPT !.found = @ \/ Kind(l.decl) \in {"only", "wrap"}]
  OBVIOUS
<1>3. /\ o.found \in Nat /\ p.found \in Nat /\ l.found \in BOOLEAN
  BY LevelFields, OpenFields
<1> HIDE DEF m
<1>4. ASSUME Kind(l.decl) = "struct" PROVE ItemsCounted(m, p, last)
  BY <1>1, <1>4 DEF ItemsCounted
<1>5. ASSUME Kind(l.decl) \in {"wrap", "only"} PROVE ItemsCounted(m, p, last)
  <2>1. o.found = 0
    BY <1>3, <1>5 DEF ItemsCounted
  <2>2. p.found = 1 /\ m.found /\ (Kind(l.decl) = "only" => ~m.thrown)
    <3>1. Kind(l.decl) = "only" => ~l.thrown
      BY <1>5 DEF ItemsCounted
    <3>2. m.found = k /\ k
      BY <1>1, <1>5
    <3>3. p.found = 1
      BY <2>1
    <3>4. Kind(l.decl) = "only" => ~m.thrown
      BY <1>1, <3>1
    <3> QED
      BY <3>2, <3>3, <3>4
  <2> QED
    BY <1>1, <1>5, <2>2 DEF ItemsCounted
<1> QED
  BY <1>2, <1>4, <1>5

(* What is counted is what the deserializer of the container has stored,   *)
(* and so a requirement that is not met is missing, but for an unknown     *)
(* container.                                                              *)
LEMMA UnmetFacts ==
    ASSUME NEW l \in LevelType, NEW o \in OpenType, o.decl = l.decl,
           ItemsCounted(l, o, TRUE), Unmet(o), ~o.foreign
    PROVE  \/ Missing(l)
           \/ Kind(l.decl) = "only" /\ ~l.found
<1>1. /\ l.offs \in Nat /\ o.found \in Nat /\ l.found \in BOOLEAN
      /\ l.decl \in Decls \cup {Null}
  BY LevelFields, OpenFields
<1>2. CASE Kind(l.decl) = "array"
  <2>1. /\ Decl[l.decl].count \in Nat
        /\ Decl[l.decl].strict \in BOOLEAN /\ Decl[l.decl].all \in BOOLEAN
    BY <1>1, <1>2, DeclFields
  <2>2. \/ Decl[l.decl].all /\ o.found < Decl[l.decl].count
        \/ Decl[l.decl].strict /\ o.found > Decl[l.decl].count
    BY <1>2 DEF Unmet
  <2>3. /\ ~o.foreign
        /\ l.offs = IF o.found <= Decl[l.decl].count THEN o.found ELSE Decl[l.decl].count
        /\ Decl[l.decl].strict => o.found <= Decl[l.decl].count
    BY <1>2 DEF ItemsCounted, Ended
  <2>4. Decl[l.decl].all /\ l.offs # Decl[l.decl].count
    BY <1>1, <2>1, <2>2, <2>3
  <2> QED
    BY <1>2, <2>4 DEF Missing
<1>3. CASE Kind(l.decl) = "wrap"
  <2>1. o.found # 1
    BY <1>3 DEF Unmet
  <2>2. ~l.found
    BY <1>3, <2>1 DEF ItemsCounted
  <2> QED
    BY <1>3, <2>2 DEF Missing
<1>4. CASE Kind(l.decl) = "only"
  <2>1. o.found = 0
    BY <1>4 DEF Unmet
  <2> QED
    BY <1>4, <2>1 DEF ItemsCounted
<1>5. CASE Kind(l.decl) \notin {"array", "wrap", "only"}
  BY <1>5 DEF Unmet
<1> QED
  BY <1>2, <1>3, <1>4, <1>5

-----------------------------------------------------------------------------
(* Chains that read the open containers.                                   *)

LEMMA ChainedFacts ==
    ASSUME NEW s, NEW os, Chained(s, os)
    PROVE  /\ s \in Seq(LevelType) /\ os \in Seq(OpenType) /\ s # <<>> /\ os # <<>>
           /\ Len(s) \in Nat \ {0} /\ Len(os) \in Nat \ {0} /\ Len(s) <= Len(os)
           /\ Last(s) = s[Len(s)] /\ Last(s) \in LevelType
           /\ Last(os) = os[Len(os)] /\ Last(os) \in OpenType
           /\ Last(os).decl = Last(s).decl /\ Last(s).depth = 0
           /\ Kind(Last(s).decl) # "value"
           /\ Kind(Last(s).decl) \notin {"null", "record"} => Len(s) = Len(os)
<1>1. s \in Seq(LevelType) /\ os \in Seq(OpenType) /\ s # <<>> /\ Len(s) <= Len(os)
  BY DEF Chained
<1>2. Len(s) \in Nat \ {0} /\ Last(s) = s[Len(s)] /\ Last(s) \in LevelType
  BY <1>1, LastFacts
<1>3. Len(os) \in Nat \ {0} /\ os # <<>>
  BY <1>1, <1>2, EmptySeq, LenProperties
<1>4. Last(os) = os[Len(os)] /\ Last(os) \in OpenType
  BY <1>1, <1>3, LastFacts
<1>5. s[Len(s)].decl = os[Len(s)].decl /\ s[Len(s)].depth = 0
      /\ Kind(os[Len(os)].decl) # "value"
  BY <1>2, <1>3 DEF Chained
<1>6. Len(os) > Len(s) => /\ Kind(Last(s).decl) \in {"null", "record"}
                          /\ os[Len(os)].decl = Last(s).decl
  BY <1>3 DEF Chained
<1>7. Len(os) = Len(s) \/ Len(os) > Len(s)
  BY <1>1, <1>2, <1>3
<1>8. os[Len(os)].decl = s[Len(s)].decl
  BY <1>2, <1>5, <1>6, <1>7
<1> QED
  BY <1>1, <1>2, <1>3, <1>4, <1>5, <1>6, <1>7, <1>8

(* An event that only the last deserializer handles and that neither opens *)
(* nor ends a container.                                                   *)
LEMMA ReplacedChained ==
    ASSUME NEW s, NEW t, NEW os, NEW ps,
           Chained(s, os), AllCounted(s, os),
           t \in Seq(LevelType), SameBelow(s, t),
           ps \in Seq(OpenType), SameBelow(os, ps),
           Last(t).decl = Last(s).decl, Last(t).depth = 0,
           Last(ps).decl = Last(os).decl,
           Len(s) = Len(os) => ItemsCounted(Last(t), Last(ps), TRUE)
    PROVE  Chained(t, ps) /\ AllCounted(t, ps)
<1> DEFINE n == Len(s)
           m == Len(os)
<1>0. n = m => ItemsCounted(Last(t), Last(ps), TRUE)
  OBVIOUS
<1>1. /\ n \in Nat \ {0} /\ m \in Nat \ {0} /\ n <= m
      /\ Last(s) = s[n] /\ Last(os) = os[m]
      /\ Last(os).decl = Last(s).decl
      /\ Kind(Last(s).decl) # "value"
      /\ Kind(Last(s).decl) \notin {"null", "record"} => n = m
  BY ChainedFacts
<1>2. /\ Len(t) = n /\ Len(ps) = m
      /\ \A i \in 1..(n - 1) : t[i] = s[i]
      /\ \A i \in 1..(m - 1) : ps[i] = os[i]
  BY DEF SameBelow
<1>3. Last(t) = t[n] /\ Last(ps) = ps[m]
  BY <1>2 DEF Last
<1> HIDE DEF n, m
<1>4. t # <<>>
  BY <1>1, <1>2, EmptySeq, LenProperties
<1>5. \A i \in 1..m : ps[i].decl = os[i].decl
  <2> TAKE i \in 1..m
  <2>1. i = m \/ i \in 1..(m - 1)
    BY <1>1
  <2> QED
    BY <1>1, <1>2, <1>3, <2>1
<1>6. \A i \in 1..n : /\ t[i].decl = s[i].decl
                      /\ t[i].depth = IF i = n THEN 0 ELSE s[i].depth
                      /\ i \in 1..m
  <2> TAKE i \in 1..n
  <2>1. i = n \/ (i \in 1..(n - 1) /\ i # n)
    BY <1>1
  <2> QED
    BY <1>1, <1>2, <1>3, <2>1
<1>7. Chained(t, ps)
  BY <1>1, <1>2, <1>3, <1>4, <1>5, <1>6 DEF Chained, n, m
<1>8. ASSUME NEW i \in 1..n, i # n PROVE ItemsCounted(t[i], ps[i], FALSE)
  <2>1. i \in 1..(n - 1) /\ i \in 1..(m - 1)
    BY <1>1, <1>8
  <2>2. t[i] = s[i] /\ ps[i] = os[i] /\ ItemsCounted(s[i], os[i], FALSE)
    BY <1>2, <1>8, <2>1 DEF AllCounted, n
  <2> QED
    BY <2>2
<1>9. ItemsCounted(t[n], ps[n], TRUE)
  <2>1. CASE n = m
    BY <1>0, <1>3, <2>1
  <2>2. CASE n # m
    <3>1. n \in 1..n
      BY <1>1
    <3>2. Kind(t[n].decl) \in {"null", "record"}
      BY <1>1, <1>6, <2>2, <3>1
    <3> QED
      BY <3>2 DEF ItemsCounted
  <2> QED
    BY <2>1, <2>2
<1>10. AllCounted(t, ps)
  BY <1>2, <1>8, <1>9 DEF AllCounted
<1> QED
  BY <1>7, <1>10

(* Opening a container within what the last deserializer has for itself:   *)
(* the outer ones count it.                                                *)
LEMMA DeeperChained ==
    ASSUME NEW s, NEW os, NEW ps, NEW o \in OpenType,
           Chained(s, os), AllCounted(s, os),
           Kind(Last(s).decl) \in {"null", "record"},
           NEW t, t \in Seq(LevelType), SameBelow(Deeper(s), t),
           Last(t).decl = Last(s).decl, Last(t).depth = 0,
           ps \in Seq(OpenType), SameBelow(os, ps),
           Last(ps).decl = Last(os).decl, o.decl = Last(s).decl
    PROVE  Chained(t, Append(ps, o)) /\ AllCounted(t, Append(ps, o))
<1> DEFINE n == Len(s)
           m == Len(os)
           qs == Append(ps, o)
<1>1. /\ n \in Nat \ {0} /\ m \in Nat \ {0} /\ n <= m
      /\ Last(s) = s[n] /\ Last(os) = os[m]
      /\ Last(os).decl = Last(s).decl
      /\ Kind(Last(s).decl) # "value"
      /\ s \in Seq(LevelType) /\ s # <<>>
  BY ChainedFacts
<1>2. \A i \in 1..n : s[i] \in LevelType
  BY <1>1
<1>3. \A i \in 1..n :
         Deeper(s)[i] = IF s[i].depth > 0
                        THEN [s[i] EXCEPT !.depth = s[i].depth + 1] ELSE s[i]
  BY <1>1, DeeperFacts
<1>4. /\ Len(t) = n /\ Len(ps) = m
      /\ \A i \in 1..(n - 1) : t[i] = Deeper(s)[i]
      /\ \A i \in 1..(m - 1) : ps[i] = os[i]
  BY <1>1, DeeperFacts DEF SameBelow
<1>5. Last(t) = t[n] /\ Last(ps) = ps[m]
  BY <1>4 DEF Last
<1>6. /\ qs \in Seq(OpenType) /\ Len(qs) = m + 1 /\ qs[m + 1] = o
      /\ \A i \in 1..m : qs[i] = ps[i]
  BY <1>4, AppendProperties
<1>7. \A i \in 1..n : /\ s[i].decl = os[i].decl
                      /\ s[i].depth = IF i = n THEN 0 ELSE m - i
                      /\ i < n => Kind(s[i].decl) \notin {"null", "record"}
                      /\ i > 1 => Kind(s[i].decl) # "only"
  BY DEF Chained
<1>8. \A i \in 1..m : /\ Kind(os[i].decl) # "value"
                      /\ i > n => os[i].decl = Last(s).decl
  BY DEF Chained
<1> HIDE DEF n, m, qs
<1>9. ASSUME NEW i \in 1..(n - 1)
      PROVE  /\ t[i].decl = s[i].decl /\ t[i].depth = (m + 1) - i
             /\ t[i].offs = s[i].offs /\ t[i].found = s[i].found
             /\ t[i].thrown = s[i].thrown
             /\ qs[i] = os[i]
  <2>1. i \in 1..n /\ i \in 1..m /\ i \in 1..(m - 1) /\ i # n
    BY <1>1
  <2>2. s[i].depth = m - i /\ s[i].depth > 0
    BY <1>1, <1>7, <2>1
  <2>3. t[i] = [s[i] EXCEPT !.depth = s[i].depth + 1]
    BY <1>3, <1>4, <2>1, <2>2
  <2>4. s[i].depth + 1 = (m + 1) - i
    BY <1>1, <2>2
  <2> QED
    BY <1>2, <1>4, <1>6, <2>1, <2>3, <2>4, LevelFields
<1>10. \A i \in 1..(m + 1) : /\ Kind(qs[i].decl) # "value"
                             /\ i > n => qs[i].decl = Last(t).decl
  <2> TAKE i \in 1..(m + 1)
  <2>1. CASE i = m + 1
    BY <1>1, <1>6, <2>1
  <2>2. CASE i = m
    <3>1. i \in 1..m
      BY <1>1, <2>2
    <3> QED
      BY <1>1, <1>4, <1>5, <1>6, <2>2, <3>1
  <2>3. CASE i # m /\ i # m + 1
    <3>1. i \in 1..m /\ i \in 1..(m - 1)
      BY <1>1, <2>3
    <3> QED
      BY <1>4, <1>6, <1>8, <3>1
  <2> QED
    BY <2>1, <2>2, <2>3
<1>11. \A i \in 1..n : /\ t[i].decl = s[i].decl /\ t[i].decl = qs[i].decl
                       /\ t[i].depth = IF i = n THEN 0 ELSE (m + 1) - i
  <2> TAKE i \in 1..n
  <2>1. CASE i = n
    <3>1. n \in 1..m /\ qs[n] = ps[n] /\ (n = m \/ n \in 1..(m - 1))
      BY <1>1, <1>6
    <3>2. ps[n].decl = os[n].decl
      BY <1>1, <1>4, <1>5, <3>1
    <3> QED
      BY <1>1, <1>5, <1>7, <2>1, <3>1, <3>2
  <2>2. CASE i # n
    <3>1. i \in 1..(n - 1)
      BY <1>1, <2>2
    <3> QED
      BY <1>7, <1>9, <2>2, <3>1
  <2> QED
    BY <2>1, <2>2
<1>12. t # <<>>
  BY <1>1, <1>4, EmptySeq, LenProperties
<1>13. Len(t) <= Len(qs)
  BY <1>1, <1>4, <1>6
<1>14. Chained(t, qs)
  BY <1>4, <1>6, <1>7, <1>10, <1>11, <1>12, <1>13 DEF Chained
<1>15. ASSUME NEW i \in 1..n, i # n PROVE ItemsCounted(t[i], qs[i], FALSE)
  <2>1. i \in 1..(n - 1)
    BY <1>1, <1>15
  <2>2. ItemsCounted(s[i], os[i], FALSE)
    BY <1>15 DEF AllCounted, n
  <2> QED
    BY <1>9, <2>1, <2>2 DEF ItemsCounted
<1>16. ItemsCounted(t[n], qs[n], TRUE)
  BY <1>5 DEF ItemsCounted
<1>17. AllCounted(t, qs)
  BY <1>4, <1>15, <1>16 DEF AllCounted
<1> QED
  BY <1>14, <1>17 DEF qs

(* Nesting a deserializer for the container that opens.                    *)
LEMMA NestChained ==
    ASSUME NEW s, NEW os, NEW ps, NEW o \in OpenType, NEW d \in Decls \cup {Null},
           Chained(s, os), AllCounted(s, os),
           Kind(Last(s).decl) \notin {"null", "record"},
           Kind(d) \notin {"value", "only"},
           NEW t, Replaced(s, t, Last(t)),
           Last(t).decl = Last(s).decl, Last(t).depth = 0,
           ps \in Seq(OpenType), SameBelow(os, ps),
           Last(ps).decl = Last(os).decl,
           ItemsCounted(Last(t), Last(ps), FALSE),
           o.decl = d, o.found = 0
    PROVE  /\ Chained(Nest(Deeper(t), d), Append(ps, o))
           /\ AllCounted(Nest(Deeper(t), d), Append(ps, o))
<1> DEFINE n == Len(s)
           qs == Append(ps, o)
           u == Nest(Deeper(t), d)
<1>1. /\ n \in Nat \ {0} /\ Len(os) = n
      /\ Last(s) = s[n] /\ Last(os) = os[n]
      /\ Last(os).decl = Last(s).decl
      /\ Kind(Last(s).decl) # "value"
  BY ChainedFacts
<1>2. /\ t \in Seq(LevelType) /\ t # <<>> /\ Len(t) = n /\ Len(ps) = n
      /\ \A i \in 1..(n - 1) : t[i] = s[i] /\ ps[i] = os[i]
  BY <1>1 DEF Replaced, SameBelow
<1>3. Last(t) = t[n] /\ Last(ps) = ps[n]
  BY <1>2 DEF Last
<1>4. \A i \in 1..n : t[i] \in LevelType
  BY <1>2
<1>5. /\ Deeper(t) \in Seq(LevelType) /\ Len(Deeper(t)) = n
      /\ \A i \in 1..n :
         Deeper(t)[i] = IF t[i].depth > 0
                        THEN [t[i] EXCEPT !.depth = t[i].depth + 1] ELSE t[i]
  BY <1>2, DeeperFacts
<1>6. Deeper(t) # <<>>
  BY <1>1, <1>5, EmptySeq, LenProperties
<1>7. /\ u \in Seq(LevelType) /\ Len(u) = n + 1
      /\ \A i \in 1..(n - 1) : u[i] = Deeper(t)[i]
      /\ u[n] = [Deeper(t)[n] EXCEPT !.depth = 1]
      /\ u[n + 1] = Level(d)
  <2> DEFINE c == Deeper(t)
  <2>1. c \in Seq(LevelType) /\ c # <<>> /\ Len(c) = n
    BY <1>5, <1>6
  <2> HIDE DEF c
  <2>2. /\ Nest(c, d) \in Seq(LevelType) /\ Len(Nest(c, d)) = Len(c) + 1
        /\ \A i \in 1..(Len(c) - 1) : Nest(c, d)[i] = c[i]
        /\ Nest(c, d)[Len(c)] = [c[Len(c)] EXCEPT !.depth = 1]
        /\ Nest(c, d)[Len(c) + 1] = Level(d)
    BY <2>1, NestFacts
  <2> QED
    BY <2>1, <2>2 DEF c
<1>8. /\ qs \in Seq(OpenType) /\ Len(qs) = n + 1 /\ qs[n + 1] = o
      /\ \A i \in 1..n : qs[i] = ps[i]
  BY <1>2, AppendProperties
<1>9. \A i \in 1..n : /\ s[i].decl = os[i].decl
                      /\ s[i].depth = IF i = n THEN 0 ELSE n - i
                      /\ i < n => Kind(s[i].decl) \notin {"null", "record"}
                      /\ i > 1 => Kind(s[i].decl) # "only"
                      /\ Kind(os[i].decl) # "value"
  BY <1>1 DEF Chained
<1> HIDE DEF n, qs, u
<1>10. ASSUME NEW i \in 1..(n - 1)
       PROVE  /\ u[i].decl = s[i].decl /\ u[i].depth = (n + 1) - i
              /\ u[i].offs = s[i].offs /\ u[i].found = s[i].found
              /\ u[i].thrown = s[i].thrown
              /\ qs[i] = os[i]
  <2>1. i \in 1..n /\ i # n /\ t[i] = s[i]
    BY <1>1, <1>2
  <2>2. s[i].depth = n - i /\ s[i].depth > 0
    BY <1>1, <1>9, <2>1
  <2>3. u[i] = [s[i] EXCEPT !.depth = s[i].depth + 1]
    BY <1>5, <1>7, <2>1, <2>2
  <2>4. s[i].depth + 1 = (n + 1) - i /\ s[i] \in LevelType
    BY <1>1, <1>4, <2>1, <2>2
  <2> QED
    BY <1>2, <1>8, <2>1, <2>3, <2>4, LevelFields
<1>11. /\ u[n].decl = s[n].decl /\ u[n].depth = (n + 1) - n
       /\ u[n].offs = t[n].offs /\ u[n].found = t[n].found
       /\ u[n].thrown = t[n].thrown
       /\ qs[n] = ps[n] /\ ps[n].decl = os[n].decl
  <2>1. n \in 1..n /\ t[n].depth = 0 /\ t[n].decl = s[n].decl /\ 1 = (n + 1) - n
    BY <1>1, <1>3
  <2>2. u[n] = [t[n] EXCEPT !.depth = 1]
    <3>1. Deeper(t)[n] = IF t[n].depth > 0
                         THEN [t[n] EXCEPT !.depth = t[n].depth + 1] ELSE t[n]
      BY <1>5, <2>1
    <3>2. Deeper(t)[n] = t[n]
      BY <2>1, <3>1
    <3> QED
      BY <1>7, <3>2
  <2>3. t[n] \in LevelType
    BY <1>4, <2>1
  <2> QED
    BY <1>1, <1>3, <1>8, <2>1, <2>2, <2>3, LevelFields
<1>12. /\ Level(d).decl = d /\ Level(d).depth = 0 /\ Level(d).offs = 0
       /\ Level(d).found = FALSE /\ Level(d).thrown = FALSE
  BY DEF Level
<1>13. \A i \in 1..(n + 1) :
          /\ Kind(qs[i].decl) # "value"
          /\ u[i].decl = qs[i].decl
          /\ u[i].depth = IF i = n + 1 THEN 0 ELSE (n + 1) - i
          /\ i < n + 1 => Kind(u[i].decl) \notin {"null", "record"}
          /\ i > 1 => Kind(u[i].decl) # "only"
  <2> TAKE i \in 1..(n + 1)
  <2>1. CASE i = n + 1
    BY <1>1, <1>7, <1>8, <1>12, <2>1
  <2>2. CASE i = n
    <3>1. n \in 1..n /\ n # n + 1
      BY <1>1
    <3>2. Kind(os[n].decl) # "value" /\ (n > 1 => Kind(s[n].decl) # "only")
      BY <1>9, <3>1
    <3>3. Kind(s[n].decl) \notin {"null", "record"} /\ os[n].decl = s[n].decl
      BY <1>1
    <3>4. /\ Kind(qs[n].decl) # "value" /\ u[n].decl = qs[n].decl
          /\ u[n].depth = (n + 1) - n
          /\ Kind(u[n].decl) \notin {"null", "record"}
          /\ n > 1 => Kind(u[n].decl) # "only"
      BY <1>11, <3>2, <3>3
    <3> QED
      BY <2>2, <3>1, <3>4
  <2>3. CASE i # n /\ i # n + 1
    <3>1. i \in 1..n /\ i \in 1..(n - 1) /\ i < n
      BY <1>1, <2>3
    <3> QED
      BY <1>9, <1>10, <2>3, <3>1
  <2> QED
    BY <2>1, <2>2, <2>3
<1>14. u # <<>>
  BY <1>1, <1>7, EmptySeq, LenProperties
<1>15. \A i \in 1..(n + 1) : ~(i > n + 1)
  BY <1>1
<1>16. n + 1 <= n + 1
  BY <1>1
<1>17. Chained(u, qs)
  <2>1. /\ u \in Seq(LevelType) /\ qs \in Seq(OpenType)
        /\ u # <<>> /\ Len(u) <= Len(qs) /\ Len(u) = n + 1 /\ Len(qs) = n + 1
    BY <1>7, <1>8, <1>14, <1>16
  <2> QED
    BY <1>13, <1>15, <2>1 DEF Chained
<1>18. ASSUME NEW i \in 1..(n + 1), i # n + 1
       PROVE  ItemsCounted(u[i], qs[i], FALSE)
  <2>1. CASE i = n
    <3>1. ItemsCounted(t[n], ps[n], FALSE)
      BY <1>3
    <3>2. u[n].decl = t[n].decl
      BY <1>1, <1>3, <1>11
    <3> QED
      BY <1>11, <2>1, <3>1, <3>2 DEF ItemsCounted
  <2>2. CASE i # n
    <3>1. i \in 1..(n - 1) /\ i \in 1..n
      BY <1>1, <1>18, <2>2
    <3>2. ItemsCounted(s[i], os[i], FALSE)
      BY <2>2, <3>1 DEF AllCounted, n
    <3> QED
      BY <1>10, <3>1, <3>2 DEF ItemsCounted
  <2> QED
    BY <2>1, <2>2
<1>19. ItemsCounted(u[n + 1], qs[n + 1], TRUE)
  <2>1. Kind(d) = "array" => Decl[d].count \in Nat
    BY DeclFields
  <2>2. 0 <= 1 /\ (Kind(d) = "array" => 0 <= Decl[d].count)
    BY <2>1
  <2> QED
    BY <1>7, <1>8, <1>12, <2>2 DEF ItemsCounted, Ended
<1>20. AllCounted(u, qs)
  BY <1>7, <1>18, <1>19 DEF AllCounted
<1> QED
  BY <1>17, <1>20 DEF u, qs

(* The end of a container nobody knows or in a record: no deserializer is  *)
(* nested for it.                                                          *)
LEMMA EndWithinChained ==
    ASSUME NEW s, NEW os, NEW ps,
           Chained(s, os), AllCounted(s, os), Len(os) > 1,
           \A i \in 1..Len(s) : s[i].depth # 1,
           ps \in Seq(OpenType), Len(ps) = Len(os) - 1,
           \A i \in 1..(Len(os) - 2) : ps[i] = os[i],
           ps[Len(os) - 1].decl = os[Len(os) - 1].decl
    PROVE  /\ Kind(Last(os).decl) \in {"null", "record"}
           /\ Chained(Shallower(s), ps) /\ AllCounted(Shallower(s), ps)
<1> DEFINE n == Len(s)
           m == Len(os)
           t == Shallower(s)
<1>1. /\ n \in Nat \ {0} /\ m \in Nat \ {0} /\ n <= m /\ m > 1
      /\ s \in Seq(LevelType) /\ s # <<>>
      /\ Last(s) = s[n] /\ Last(os).decl = Last(s).decl
  BY ChainedFacts
<1>2. /\ t \in Seq(LevelType) /\ Len(t) = n
      /\ \A i \in 1..n :
            t[i] = IF s[i].depth > 0
                   THEN [s[i] EXCEPT !.depth = s[i].depth - 1] ELSE s[i]
  BY <1>1, ShallowerFacts
<1>3. \A i \in 1..n : /\ s[i].decl = os[i].decl
                      /\ s[i].depth = IF i = n THEN 0 ELSE m - i
                      /\ i < n => Kind(s[i].decl) \notin {"null", "record"}
                      /\ i > 1 => Kind(s[i].decl) # "only"
                      /\ s[i] \in LevelType /\ s[i].depth # 1
  BY <1>1 DEF Chained
<1>4. \A i \in 1..m : /\ Kind(os[i].decl) # "value"
                      /\ i > n => /\ Kind(Last(s).decl) \in {"null", "record"}
                                  /\ os[i].decl = Last(s).decl
  BY DEF Chained
<1>5. /\ Len(ps) = m - 1
      /\ \A i \in 1..(m - 2) : ps[i] = os[i]
      /\ ps[m - 1].decl = os[m - 1].decl
  OBVIOUS
<1> HIDE DEF n, m, t
<1>6. n < m
  <2>1. ASSUME n = m PROVE FALSE
    <3>1. n - 1 \in 1..n /\ n - 1 # n /\ m - (n - 1) = 1
      BY <1>1, <2>1
    <3>2. s[n - 1].depth = m - (n - 1)
      BY <1>3, <3>1
    <3> QED
      BY <1>3, <3>1, <3>2
  <2> QED
    BY <1>1, <2>1
<1>7. Kind(Last(s).decl) \in {"null", "record"}
  <2>1. m \in 1..m /\ m > n
    BY <1>1, <1>6
  <2> QED
    BY <1>4, <2>1
<1>8. \A i \in 1..(m - 1) : ps[i].decl = os[i].decl /\ i \in 1..m
  <2> TAKE i \in 1..(m - 1)
  <2>1. (i = m - 1 \/ i \in 1..(m - 2)) /\ i \in 1..m
    BY <1>1
  <2> QED
    BY <1>5, <2>1
<1>9. \A i \in 1..n : /\ t[i].decl = s[i].decl
                      /\ t[i].depth = IF i = n THEN 0 ELSE (m - 1) - i
                      /\ t[i].offs = s[i].offs /\ t[i].found = s[i].found
                      /\ t[i].thrown = s[i].thrown
                      /\ i \in 1..(m - 1)
  <2> TAKE i \in 1..n
  <2>1. i \in 1..(m - 1)
    BY <1>1, <1>6
  <2>2. CASE i = n
    <3>1. t[i] = s[i]
      BY <1>2, <1>3, <2>2
    <3> QED
      BY <1>3, <2>1, <2>2, <3>1
  <2>3. CASE i # n
    <3>1. s[i].depth = m - i /\ s[i].depth > 0 /\ s[i].depth - 1 = (m - 1) - i
      BY <1>1, <1>3, <1>6, <2>3
    <3>2. t[i] = [s[i] EXCEPT !.depth = s[i].depth - 1]
      BY <1>2, <3>1
    <3>3. s[i] \in LevelType
      BY <1>3
    <3> QED
      BY <2>1, <2>3, <3>1, <3>2, <3>3, LevelFields
  <2> QED
    BY <2>2, <2>3
<1>10. Last(t) = t[n] /\ n \in 1..n
  BY <1>1, <1>2 DEF Last
<1>11. t # <<>> /\ Len(t) <= Len(ps)
  BY <1>1, <1>2, <1>5, <1>6, EmptySeq, LenProperties
<1>12. \A i \in 1..n : /\ t[i].decl = ps[i].decl
                       /\ i < n => Kind(t[i].decl) \notin {"null", "record"}
                       /\ i > 1 => Kind(t[i].decl) # "only"
  BY <1>3, <1>8, <1>9
<1>13. \A i \in 1..(m - 1) :
          /\ Kind(ps[i].decl) # "value"
          /\ i > n => /\ Kind(Last(t).decl) \in {"null", "record"}
                      /\ ps[i].decl = Last(t).decl
  BY <1>1, <1>4, <1>7, <1>8, <1>9, <1>10
<1>14. Chained(t, ps)
  BY <1>2, <1>5, <1>9, <1>11, <1>12, <1>13 DEF Chained
<1>15. ASSUME NEW i \in 1..n, i # n PROVE ItemsCounted(t[i], ps[i], FALSE)
  <2>1. i \in 1..(m - 2)
    BY <1>1, <1>6, <1>15
  <2>2. ItemsCounted(s[i], os[i], FALSE)
    BY <1>15 DEF AllCounted, n
  <2>3. ps[i] = os[i]
    BY <1>5, <2>1
  <2> QED
    BY <1>9, <2>2, <2>3 DEF ItemsCounted
<1>16. ItemsCounted(t[n], ps[n], TRUE)
  <2>1. Kind(t[n].decl) \in {"null", "record"}
    BY <1>1, <1>7, <1>9, <1>10
  <2> QED
    BY <2>1 DEF ItemsCounted
<1>17. AllCounted(t, ps)
  BY <1>2, <1>15, <1>16 DEF AllCounted
<1> QED
  BY <1>1, <1>7, <1>14, <1>17 DEF t

(* The deserializer that is nested in i for the innermost container.       *)
LEMMA EndingFacts ==
    ASSUME NEW s, NEW os, Chained(s, os), NEW i \in 1..Len(s), s[i].depth = 1
    PROVE  /\ Len(os) = Len(s) /\ i = Len(s) - 1 /\ i \in Nat \ {0}
           /\ s[i + 1] = Last(s)
           /\ Kind(s[i].decl) \notin {"null", "record", "value"}
           /\ Kind(s[i + 1].decl) \notin {"only", "value"}
<1>1. /\ Len(s) \in Nat \ {0} /\ Len(os) \in Nat \ {0} /\ Len(s) <= Len(os)
      /\ Last(s) = s[Len(s)] /\ Kind(Last(s).decl) # "value"
  BY ChainedFacts
<1>2. i # Len(s) /\ Len(os) - i = 1
  BY DEF Chained
<1>3. Len(os) = Len(s) /\ i = Len(s) - 1 /\ i \in Nat \ {0}
  BY <1>1, <1>2
<1>4. i \in 1..Len(s) /\ i < Len(s) /\ i + 1 \in 1..Len(s) /\ i + 1 > 1
      /\ i \in 1..Len(os) /\ i + 1 = Len(s)
  BY <1>1, <1>3
<1>5. Kind(s[i].decl) \notin {"null", "record"} /\ Kind(s[i + 1].decl) # "only"
      /\ s[i].decl = os[i].decl /\ Kind(os[i].decl) # "value"
  BY <1>4 DEF Chained
<1> QED
  BY <1>1, <1>3, <1>4, <1>5

(* The chain that is left when the nested deserializer is gone.            *)
LEMMA LeftFacts ==
    ASSUME NEW s, NEW os, Chained(s, os), NEW i \in 1..Len(s), s[i].depth = 1
    PROVE  LET c == SubSeq(Shallower(s), 1, i) IN
           /\ c \in Seq(LevelType) /\ c # <<>> /\ Len(c) = i
           /\ \A j \in 1..i : /\ c[j].decl = s[j].decl
                              /\ c[j].depth = IF j = i THEN 0 ELSE i - j
                              /\ c[j].offs = s[j].offs /\ c[j].found = s[j].found
                              /\ c[j].thrown = s[j].thrown
           /\ Last(c) = c[i] /\ c[i] \in LevelType
<1> DEFINE t == Shallower(s)
           c == SubSeq(t, 1, i)
<1>1. /\ Len(os) = Len(s) /\ i = Len(s) - 1 /\ i \in Nat \ {0}
      /\ s \in Seq(LevelType) /\ s # <<>>
  BY EndingFacts, ChainedFacts
<1>2. /\ t \in Seq(LevelType) /\ Len(t) = Len(s)
      /\ \A j \in 1..Len(s) :
            t[j] = IF s[j].depth > 0
                   THEN [s[j] EXCEPT !.depth = s[j].depth - 1] ELSE s[j]
  BY <1>1, ShallowerFacts
<1> HIDE DEF t
<1>3. \A j \in 1..i : t[j] \in LevelType
  BY <1>1, <1>2
<1>4. /\ c \in Seq(LevelType)
      /\ Len(c) = IF 1 <= i THEN i - 1 + 1 ELSE 0
      /\ \A j \in 1..(i - 1 + 1) : c[j] = t[1 + j - 1]
  BY <1>1, <1>3, SubSeqProperties
<1> HIDE DEF c
<1>5. Len(c) = i /\ \A j \in 1..i : c[j] = t[j]
  BY <1>1, <1>4
<1>6. c # <<>>
  BY <1>1, <1>5, EmptySeq, LenProperties
<1>7. Last(c) = c[i] /\ c[i] \in LevelType
  BY <1>1, <1>3, <1>5 DEF Last
<1>8. ASSUME NEW j \in 1..i
      PROVE  /\ c[j].decl = s[j].decl
             /\ c[j].depth = IF j = i THEN 0 ELSE i - j
             /\ c[j].offs = s[j].offs /\ c[j].found = s[j].found
             /\ c[j].thrown = s[j].thrown
  <2>1. j \in 1..Len(s) /\ j # Len(s)
    BY <1>1
  <2>2. s[j].depth = Len(s) - j /\ s[j] \in LevelType
    BY <1>1, <2>1 DEF Chained
  <2>3. s[j].depth > 0 /\ s[j].depth - 1 = IF j = i THEN 0 ELSE i - j
    BY <1>1, <2>2
  <2>4. c[j] = [s[j] EXCEPT !.depth = s[j].depth - 1]
    BY <1>2, <1>5, <2>1, <2>3
  <2> QED
    BY <2>2, <2>3, <2>4, LevelFields
<1> QED
  BY <1>4, <1>5, <1>6, <1>7, <1>8 DEF c, t

(* What is left goes on reading what is open.                              *)
LEMMA EndNestedChained ==
    ASSUME NEW s, NEW os, NEW i \in 1..Len(s), NEW t,
           Chained(s, os), AllCounted(s, os), s[i].depth = 1,
           Replaced(SubSeq(Shallower(s), 1, i), t, Last(t)),
           Last(t).decl = s[i].decl, Last(t).depth = 0,
           ItemsCounted(Last(t), os[i], TRUE)
    PROVE  Chained(t, Front(os)) /\ AllCounted(t, Front(os))
<1> DEFINE c == SubSeq(Shallower(s), 1, i)
           ps == Front(os)
<1>1. /\ Len(os) = Len(s) /\ i = Len(s) - 1 /\ i \in Nat \ {0}
      /\ s \in Seq(LevelType) /\ os \in Seq(OpenType) /\ os # <<>>
  BY EndingFacts, ChainedFacts
<1>2. ps \in Seq(OpenType) /\ Len(ps) = i /\ \A j \in 1..i : ps[j] = os[j]
  BY <1>1, FrontFacts
<1>3. /\ Len(c) = i
      /\ \A j \in 1..i : /\ c[j].decl = s[j].decl
                         /\ c[j].depth = IF j = i THEN 0 ELSE i - j
                         /\ c[j].offs = s[j].offs /\ c[j].found = s[j].found
                         /\ c[j].thrown = s[j].thrown
  BY LeftFacts
<1> HIDE DEF c
<1>4. /\ t \in Seq(LevelType) /\ t # <<>> /\ Len(t) = i
      /\ \A j \in 1..(i - 1) : t[j] = c[j]
  BY <1>3 DEF Replaced, SameBelow, c
<1>5. Last(t) = t[i] /\ i \in 1..i
  BY <1>1, <1>4 DEF Last
<1> HIDE DEF ps
<1>6. \A j \in 1..i : /\ t[j].decl = s[j].decl
                      /\ t[j].depth = IF j = i THEN 0 ELSE i - j
  <2> TAKE j \in 1..i
  <2>1. j = i \/ (j \in 1..(i - 1) /\ j # i)
    BY <1>1
  <2> QED
    BY <1>3, <1>4, <1>5, <2>1
<1>7. \A j \in 1..i : /\ s[j].decl = os[j].decl
                      /\ Kind(s[j].decl) \notin {"null", "record"}
                      /\ j > 1 => Kind(s[j].decl) # "only"
                      /\ Kind(os[j].decl) # "value"
  <2> TAKE j \in 1..i
  <2>1. j \in 1..Len(s) /\ j < Len(s) /\ j \in 1..Len(os)
    BY <1>1
  <2> QED
    BY <2>1 DEF Chained
<1>8. i <= i /\ \A j \in 1..i : ~(j > i)
  BY <1>1
<1>9. Chained(t, ps)
  <2>1. /\ \A j \in 1..i : Kind(ps[j].decl) # "value"
        /\ \A j \in 1..i : /\ t[j].decl = ps[j].decl
                           /\ t[j].depth = IF j = i THEN 0 ELSE i - j
                           /\ Kind(t[j].decl) \notin {"null", "record"}
                           /\ j > 1 => Kind(t[j].decl) # "only"
    BY <1>2, <1>6, <1>7
  <2>2. /\ t \in Seq(LevelType) /\ ps \in Seq(OpenType) /\ t # <<>>
        /\ Len(t) = i /\ Len(ps) = i /\ Len(t) <= Len(ps)
    BY <1>2, <1>4, <1>8
  <2> QED
    BY <1>8, <2>1, <2>2 DEF Chained
<1>10. ASSUME NEW j \in 1..i, j # i PROVE ItemsCounted(t[j], ps[j], FALSE)
  <2>1. j \in 1..(i - 1) /\ j \in 1..Len(s) /\ j # Len(s)
    BY <1>1, <1>10
  <2>2. ItemsCounted(s[j], os[j], FALSE)
    BY <2>1 DEF AllCounted
  <2>3. t[j] = c[j] /\ ps[j] = os[j]
    BY <1>2, <1>4, <2>1
  <2>4. /\ t[j].decl = s[j].decl /\ t[j].offs = s[j].offs
        /\ t[j].found = s[j].found /\ t[j].thrown = s[j].thrown
    BY <1>3, <2>3
  <2> QED
    BY <2>2, <2>3, <2>4 DEF ItemsCounted
<1>11. ItemsCounted(t[i], ps[i], TRUE)
  BY <1>2, <1>5
<1>12. AllCounted(t, ps)
  BY <1>4, <1>10, <1>11 DEF AllCounted
<1> QED
  BY <1>9, <1>12 DEF ps

-----------------------------------------------------------------------------
(* Every step of the sink.                                                 *)

(* What holds when an event arrives.                                       *)
LEMMA LiveFacts ==
    ASSUME DInv, Live
    PROVE  /\ status = "live" /\ Chained(levels, open) /\ AllCounted(levels, open)
           /\ levels \in Seq(LevelType) /\ levels # <<>>
           /\ open \in Seq(OpenType) /\ open # <<>>
           /\ Last(open).decl = Handler.decl /\ Handler \in LevelType
           /\ Last(open) \in OpenType
           /\ Kind(Handler.decl) # "value" /\ Handler.decl \in Decls \cup {Null}
           /\ Handler.depth = 0
           /\ Kind(Handler.decl) \notin {"null", "record"} =>
                 ItemsCounted(Handler, Last(open), TRUE)
           /\ events' \in Nat
           /\ \A o \in unmet : o.foreign /\ o \in OpenType
           /\ Kind(open[1].decl) = "only" => open[1].found <= 1
<1>1. /\ status = "live" /\ Chained(levels, open) /\ AllCounted(levels, open)
      /\ events' \in Nat /\ \A o \in unmet : o.foreign /\ o \in OpenType
      /\ Kind(open[1].decl) = "only" => open[1].found <= 1
  BY DEF DInv, TypeOK, Live
<1>2. /\ levels \in Seq(LevelType) /\ levels # <<>>
      /\ open \in Seq(OpenType) /\ open # <<>>
      /\ Last(open).decl = Last(levels).decl /\ Last(levels) \in LevelType
      /\ Last(open) \in OpenType /\ Last(levels).depth = 0
      /\ Kind(Last(levels).decl) # "value"
      /\ Last(levels) = levels[Len(levels)] /\ Last(open) = open[Len(open)]
      /\ Len(levels) \in Nat \ {0}
      /\ Kind(Last(levels).decl) \notin {"null", "record"} => Len(levels) = Len(open)
  BY <1>1, ChainedFacts
<1>3. Last(levels).decl \in Decls \cup {Null}
  BY <1>2, LevelFields
<1>4. ASSUME Kind(Last(levels).decl) \notin {"null", "record"}
      PROVE  ItemsCounted(Last(levels), Last(open), TRUE)
  <2>1. Len(levels) \in 1..Len(levels) /\ Len(levels) = Len(open)
    BY <1>2, <1>4
  <2>2. ItemsCounted(levels[Len(levels)], open[Len(levels)], TRUE)
    BY <1>1, <2>1 DEF AllCounted
  <2> QED
    BY <1>2, <2>1, <2>2
<1> QED
  BY <1>1, <1>2, <1>3, <1>4 DEF Handler

(* The outermost container changes only if it is the innermost.            *)
LEMMA FirstKept ==
    ASSUME NEW os \in Seq(OpenType), NEW ps \in Seq(OpenType), os # <<>>,
           SameBelow(os, ps), Last(ps).decl = Last(os).decl,
           Kind(os[1].decl) = "only" => os[1].found <= 1,
           Kind(Last(os).decl) = "only" => Last(ps).found <= 1
    PROVE  Kind(ps[1].decl) = "only" => ps[1].found <= 1
<1>1. /\ Len(os) \in Nat \ {0} /\ Last(os) = os[Len(os)]
      /\ Len(ps) = Len(os) /\ Last(ps) = ps[Len(os)]
  BY LastFacts DEF SameBelow, Last
<1>2. CASE Len(os) = 1
  BY <1>1, <1>2
<1>3. CASE Len(os) # 1
  <2>1. 1 \in 1..(Len(os) - 1)
    BY <1>1, <1>3
  <2>2. ps[1] = os[1]
    BY <2>1 DEF SameBelow
  <2> QED
    BY <2>2
<1> QED
  BY <1>2, <1>3

LEMMA RefuseChildInv ==
    ASSUME DInv, NEW node, RefuseChild(node)
    PROVE  DInv'
<1>1. Live /\ open' = open /\ unmet' = unmet /\ status' = "thrown"
      /\ levels' = IF Kind(Handler.decl) = "only"
                   THEN [levels EXCEPT ![Len(levels)].thrown = TRUE] ELSE levels
  BY DEF RefuseChild, Throw
<1>2. /\ levels \in Seq(LevelType) /\ levels # <<>> /\ events' \in Nat
      /\ open \in Seq(OpenType) /\ open # <<>>
      /\ \A o \in unmet : o \in OpenType
      /\ Kind(open[1].decl) = "only" => open[1].found <= 1
  BY <1>1, LiveFacts
<1>3. levels' \in Seq(LevelType)
  <2>1. levels[Len(levels)] \in LevelType
    BY <1>2, LastFacts
  <2>2. [levels[Len(levels)] EXCEPT !.thrown = TRUE] \in LevelType
    BY <2>1 DEF LevelType
  <2> QED
    BY <1>1, <1>2, <2>2
<1>4. TypeOK'
  BY <1>1, <1>2, <1>3 DEF TypeOK
<1> QED
  BY <1>1, <1>2, <1>4 DEF DInv

(* A value is stored by the deserializer of the container it is in.        *)
LEMMA PushNodeInv ==
    ASSUME DInv, NEW node, node.cont \in BOOLEAN, PushNode(node)
    PROVE  DInv'
<1> DEFINE h == Handler
           o == Last(open)
           known == Found(h.decl, node) # Null
           p == Last(open')
<1>1. /\ Live /\ ~node.cont /\ ~Refuses(h, node)
      /\ open' = Noted(node) /\ unmet' = unmet
  BY DEF PushNode
<1>2. /\ Chained(levels, open) /\ AllCounted(levels, open)
      /\ levels \in Seq(LevelType) /\ levels # <<>>
      /\ open \in Seq(OpenType) /\ open # <<>>
      /\ o.decl = h.decl /\ h \in LevelType /\ o \in OpenType
      /\ Kind(h.decl) # "value" /\ h.decl \in Decls \cup {Null} /\ h.depth = 0
      /\ Kind(h.decl) \notin {"null", "record"} => ItemsCounted(h, o, TRUE)
      /\ events' \in Nat
      /\ \A u \in unmet : u.foreign /\ u \in OpenType
      /\ Kind(open[1].decl) = "only" => open[1].found <= 1
  BY <1>1, LiveFacts
<1>3. h = Last(levels)
  BY DEF Handler
<1>4. /\ open' \in Seq(OpenType) /\ open' # <<>> /\ SameBelow(open, open')
      /\ p \in OpenType /\ p.decl = o.decl
      /\ p.found = IF known THEN o.found + 1 ELSE o.found
      /\ p.foreign = o.foreign
  <2>1. /\ Noted(node) \in Seq(OpenType) /\ Noted(node) # <<>>
        /\ SameBelow(open, Noted(node))
        /\ Last(Noted(node)) \in OpenType
        /\ Last(Noted(node)).decl = o.decl
        /\ Last(Noted(node)).found = IF Found(o.decl, node) # Null THEN o.found + 1 ELSE o.found
        /\ Last(Noted(node)).foreign = (o.foreign \/ (node.cont /\ Found(o.decl, node) = Null))
    BY <1>2, NotedFacts
  <2>2. o.foreign \in BOOLEAN
    BY <1>2, OpenFields
  <2> QED
    BY <1>1, <1>2, <2>1, <2>2
<1>5. /\ ~known => levels' = levels /\ Reply(TRUE)
      /\ known /\ Kind(h.decl) \in {"seq", "array"} => Submit(levels)
      /\ known /\ Kind(h.decl) = "record" => levels' = Kept(levels) /\ Reply(TRUE)
      /\ known /\ Kind(h.decl) = "only" => levels' = NotingFound(levels) /\ Reply(FALSE)
      /\ known /\ Kind(h.decl) \notin {"seq", "array", "record", "only"} =>
            levels' = NotingFound(levels) /\ Reply(TRUE)
  BY DEF PushNode
<1>6. h.decl = Null => ~known
  BY <1>2, FoundFacts
<1>7. o.found \in Nat /\ h.found \in BOOLEAN /\ o.foreign \in BOOLEAN
  BY <1>2, LevelFields, OpenFields
<1>8. Kind(open'[1].decl) = "only" => open'[1].found <= 1
  <2>1. Kind(o.decl) = "only" => p.found <= 1
    <3>1. Kind(o.decl) = "only" => o.found = 0
      BY <1>2 DEF ItemsCounted
    <3> QED
      BY <1>4, <3>1
  <2> QED
    BY <1>2, <1>4, <2>1, FirstKept
<1> HIDE DEF h, o, p, known
(* It is enough to look at the chain that is left, unless it has thrown.   *)
<1>9. ASSUME levels' \in Seq(LevelType), status' = "thrown" PROVE DInv'
  BY <1>1, <1>2, <1>4, <1>8, <1>9 DEF DInv, TypeOK
<1>10. ASSUME SameBelow(levels, levels'), levels' \in Seq(LevelType), status' = "live",
              Last(levels').decl = h.decl, Last(levels').depth = 0,
              Kind(h.decl) \notin {"null", "record"} => ItemsCounted(Last(levels'), p, TRUE)
       PROVE  DInv'
  <2>1. Kind(h.decl) \in {"null", "record"} => ItemsCounted(Last(levels'), p, TRUE)
    BY <1>10 DEF ItemsCounted
  <2>2. ItemsCounted(Last(levels'), p, TRUE)
    BY <1>10, <2>1
  <2>3. Chained(levels', open') /\ AllCounted(levels', open')
    BY <1>2, <1>3, <1>4, <1>10, <2>2, ReplacedChained DEF h, o, p
  <2>4. TypeOK'
    BY <1>1, <1>2, <1>4, <1>10 DEF TypeOK
  <2> QED
    BY <1>1, <1>2, <1>4, <1>8, <1>10, <2>3, <2>4 DEF DInv
<1>11. CASE ~known
  <2>1. levels' = levels /\ status' = "live"
    BY <1>5, <1>11 DEF Reply
  <2>2. SameBelow(levels, levels') /\ levels' \in Seq(LevelType)
    BY <1>2, <2>1 DEF SameBelow
  <2>3. Kind(h.decl) \notin {"null", "record"} => ItemsCounted(h, p, TRUE)
    BY <1>2, <1>4, <1>11 DEF ItemsCounted, Ended
  <2>4. Last(levels') = h
    BY <1>3, <2>1
  <2> QED
    BY <1>2, <1>10, <2>1, <2>2, <2>3, <2>4
<1>12. CASE known /\ Kind(h.decl) \in {"seq", "array"}
  <2> DEFINE l == [h EXCEPT !.offs = IF Overflows(h) THEN @ ELSE @ + 1]
  <2>1. Submit(levels)
    BY <1>5, <1>12
  <2>2. CASE SubmitThrows(levels)
    <3>1. levels' = levels /\ status' = "thrown"
      BY <2>1, <2>2 DEF Submit, Throw
    <3> QED
      BY <1>2, <1>9, <3>1
  <2>3. CASE ~SubmitThrows(levels)
    <3>1. levels' = Submitted(levels) /\ status' = "live"
      BY <2>1, <2>3 DEF Submit, Reply
    <3>2. Replaced(levels, Submitted(levels), l)
      BY <1>2, <1>3, SubmittedFacts
    <3>3. /\ levels' \in Seq(LevelType) /\ SameBelow(levels, levels')
          /\ Last(levels') = l
      BY <3>1, <3>2 DEF Replaced
    <3>4. l.decl = h.decl /\ l.depth = 0
      BY <1>2, LevelFields
    <3>5. ~(Overflows(h) /\ Decl[h.decl].strict)
      BY <1>3, <2>3 DEF SubmitThrows
    <3>6. Ended(p, TRUE) = Ended(o, TRUE) + 1
      BY <1>4, <1>12 DEF Ended
    <3>7. ItemsCounted(h, o, TRUE)
      BY <1>2, <1>12
    <3>8. ItemsCounted(l, p, TRUE)
      BY <1>2, <1>4, <1>12, <3>5, <3>6, <3>7, StoredCounted
    <3> HIDE DEF l
    <3> QED
      BY <1>10, <3>1, <3>3, <3>4, <3>8
  <2> QED
    BY <2>2, <2>3
<1>13. CASE known /\ Kind(h.decl) = "record"
  <2> DEFINE l == [h EXCEPT !.offs = @ + 1]
  <2>1. levels' = Kept(levels) /\ status' = "live"
    BY <1>5, <1>13 DEF Reply
  <2>2. Replaced(levels, Kept(levels), l)
    BY <1>2, <1>3, KeptFacts
  <2>3. /\ levels' \in Seq(LevelType) /\ SameBelow(levels, levels')
        /\ Last(levels') = l
    BY <2>1, <2>2 DEF Replaced
  <2>4. l.decl = h.decl /\ l.depth = 0
    BY <1>2, LevelFields
  <2> HIDE DEF l
  <2> QED
    BY <1>10, <1>13, <2>1, <2>3, <2>4
<1>14. CASE known /\ Kind(h.decl) = "only"
  <2>1. levels' = NotingFound(levels) /\ status' = "refused"
    BY <1>5, <1>14 DEF Reply
  <2>2. levels' \in Seq(LevelType)
    BY <1>2, <2>1, NotingFoundFacts DEF Replaced
  <2>3. Len(levels) = Len(open) /\ Len(levels) \in Nat \ {0}
        /\ h = levels[Len(levels)]
    BY <1>2, <1>3, <1>14, ChainedFacts
  <2>4. Len(levels) = 1
    <3>1. Len(levels) \in 1..Len(levels)
      BY <2>3
    <3>2. ~(Len(levels) > 1)
      BY <1>2, <1>14, <2>3, <3>1 DEF Chained
    <3> QED
      BY <2>3, <3>2
  <2>5. Len(open') = 1 /\ open'[1] = p
    BY <1>4, <2>3, <2>4 DEF SameBelow, Last, p
  <2>6. o.found = 0
    BY <1>2, <1>14 DEF ItemsCounted
  <2>7. p.found = 1 /\ Kind(p.decl) = "only"
    BY <1>2, <1>4, <1>14, <2>6
  <2>8. TypeOK'
    BY <1>1, <1>2, <1>4, <2>1, <2>2 DEF TypeOK
  <2> QED
    BY <1>1, <1>2, <1>4, <1>8, <2>1, <2>5, <2>7, <2>8 DEF DInv
<1>15. CASE known /\ Kind(h.decl) \notin {"seq", "array", "record", "only"}
  <2> DEFINE l == [h EXCEPT !.found = @ \/ Kind(h.decl) \in {"only", "wrap"}]
  <2>1. levels' = NotingFound(levels) /\ status' = "live"
    BY <1>5, <1>15 DEF Reply
  <2>2. Replaced(levels, NotingFound(levels), l)
    BY <1>2, <1>3, NotingFoundFacts
  <2>3. /\ levels' \in Seq(LevelType) /\ SameBelow(levels, levels')
        /\ Last(levels') = l
    BY <2>1, <2>2 DEF Replaced
  <2>4. l.decl = h.decl /\ l.depth = 0
    BY <1>2, LevelFields
  <2>5. Kind(h.decl) \in {"struct", "wrap"}
    BY <1>2, <1>6, <1>15, DeclFields DEF Kinds
  <2>6. Kind(h.decl) = "wrap" => ~h.found
    BY <1>1 DEF Refuses
  <2>7. ItemsCounted(h, o, TRUE) /\ p.found = o.found + 1
    BY <1>2, <1>4, <1>15, <2>5
  <2>8. ItemsCounted(l, p, TRUE)
    BY <1>2, <1>4, <1>15, <2>5, <2>6, <2>7, NotedCounted
  <2> HIDE DEF l
  <2> QED
    BY <1>10, <2>1, <2>3, <2>4, <2>8
<1> QED
  BY <1>11, <1>12, <1>13, <1>14, <1>15

(* A container is read by a deserializer of its own, or belongs to the     *)
(* last one.                                                               *)
LEMMA StartContainerInv ==
    ASSUME DInv, NEW node, node.cont \in BOOLEAN, StartContainer(node)
    PROVE  DInv'
<1> DEFINE h == Handler
           o == Last(open)
           d == Found(h.decl, node)
           ps == Noted(node)
           q == [decl |-> Found(o.decl, node), found |-> 0, foreign |-> FALSE]
           kept == IF d = Null THEN levels ELSE NotingFound(levels)
<1>1. /\ Live /\ node.cont /\ ~Refuses(h, node)
      /\ open' = Append(ps, q) /\ unmet' = unmet /\ status' = "live"
  BY DEF StartContainer, Reply
<1>2. /\ Chained(levels, open) /\ AllCounted(levels, open)
      /\ levels \in Seq(LevelType) /\ levels # <<>>
      /\ open \in Seq(OpenType) /\ open # <<>>
      /\ o.decl = h.decl /\ h \in LevelType /\ o \in OpenType
      /\ Kind(h.decl) # "value" /\ h.decl \in Decls \cup {Null} /\ h.depth = 0
      /\ Kind(h.decl) \notin {"null", "record"} => ItemsCounted(h, o, TRUE)
      /\ events' \in Nat
      /\ \A u \in unmet : u.foreign /\ u \in OpenType
      /\ Kind(open[1].decl) = "only" => open[1].found <= 1
  BY <1>1, LiveFacts
<1>3. h = Last(levels) /\ Len(levels) \in Nat \ {0} /\ h = levels[Len(levels)]
  BY <1>2, LastFacts DEF Handler
<1>4. /\ d \in Decls \cup {Null}
      /\ h.decl = Null => d = Null
      /\ Kind(h.decl) = "record" => d = h.decl
      /\ Kind(h.decl) # "record" => Kind(d) \notin {"only", "value"}
  BY <1>1, <1>2, FoundFacts
<1>5. /\ ps \in Seq(OpenType) /\ ps # <<>> /\ SameBelow(open, ps)
      /\ Last(ps) \in OpenType /\ Last(ps).decl = o.decl
      /\ Last(ps).found = IF d # Null THEN o.found + 1 ELSE o.found
      /\ Last(ps).foreign = (o.foreign \/ (node.cont /\ d = Null))
  BY <1>2, NotedFacts
<1>6. q \in OpenType /\ q.decl = d /\ q.found = 0
  BY <1>2, <1>4 DEF OpenType
<1>7. /\ open' \in Seq(OpenType) /\ open' # <<>>
      /\ open'[1] = ps[1]
  <2>1. Len(ps) \in Nat \ {0}
    BY <1>5, EmptySeq, LenProperties
  <2>2. /\ Append(ps, q) \in Seq(OpenType) /\ Len(Append(ps, q)) = Len(ps) + 1
        /\ \A i \in 1..Len(ps) : Append(ps, q)[i] = ps[i]
    BY <1>5, <1>6, AppendProperties
  <2>3. Append(ps, q) # <<>>
    BY <2>1, <2>2, EmptySeq, LenProperties
  <2> QED
    BY <1>1, <2>1, <2>2, <2>3
<1>8. o.found \in Nat /\ h.found \in BOOLEAN /\ o.foreign \in BOOLEAN
  BY <1>2, LevelFields, OpenFields
<1>9. Kind(open'[1].decl) = "only" => open'[1].found <= 1
  <2>1. Kind(o.decl) = "only" => Last(ps).found <= 1
    <3>1. Kind(o.decl) = "only" => o.found = 0
      BY <1>2 DEF ItemsCounted
    <3> QED
      BY <1>5, <3>1
  <2>2. Kind(ps[1].decl) = "only" => ps[1].found <= 1
    BY <1>2, <1>5, <2>1, FirstKept
  <2> QED
    BY <1>7, <2>2
<1>10. /\ Kind(h.decl) = "null" => levels' = Deeper(levels)
       /\ Kind(h.decl) = "record" => levels' = Kept(Deeper(levels))
       /\ Kind(h.decl) \notin {"null", "record"} => levels' = Nest(Deeper(kept), d)
  BY DEF StartContainer
<1> HIDE DEF h, o, d, ps, q, kept
<1>11. ASSUME Chained(levels', Append(ps, q)), AllCounted(levels', Append(ps, q))
       PROVE  DInv'
  <2>1. levels' \in Seq(LevelType)
    BY <1>11 DEF Chained
  <2>2. TypeOK'
    BY <1>1, <1>2, <1>7, <2>1 DEF TypeOK
  <2> QED
    BY <1>1, <1>2, <1>7, <1>9, <1>11, <2>2 DEF DInv
<1>12. /\ Deeper(levels) \in Seq(LevelType) /\ Deeper(levels) # <<>>
       /\ Len(Deeper(levels)) = Len(levels)
       /\ Last(Deeper(levels)) = h
  <2>1. /\ Deeper(levels) \in Seq(LevelType) /\ Len(Deeper(levels)) = Len(levels)
        /\ Deeper(levels)[Len(levels)] = levels[Len(levels)]
    <3>1. Len(levels) \in 1..Len(levels) /\ ~(levels[Len(levels)].depth > 0)
      BY <1>2, <1>3
    <3> QED
      BY <1>2, <3>1, DeeperFacts
  <2>2. Deeper(levels) # <<>>
    BY <1>3, <2>1, EmptySeq, LenProperties
  <2> QED
    BY <1>3, <2>1, <2>2 DEF Last
<1>13. CASE Kind(h.decl) = "null"
  <2>1. d = h.decl
    BY <1>2, <1>4, <1>13, DeclFields
  <2>2. levels' = Deeper(levels) /\ SameBelow(Deeper(levels), levels')
    BY <1>10, <1>13 DEF SameBelow
  <2>3. Last(levels') = h
    BY <1>12, <2>2
  <2> QED
    BY <1>2, <1>3, <1>5, <1>6, <1>11, <1>12, <1>13, <2>1, <2>2, <2>3, DeeperChained DEF o
<1>14. CASE Kind(h.decl) = "record"
  <2> DEFINE l == [h EXCEPT !.offs = @ + 1]
  <2>1. d = h.decl /\ levels' = Kept(Deeper(levels))
    BY <1>4, <1>10, <1>14
  <2>2. Replaced(Deeper(levels), Kept(Deeper(levels)), l)
    BY <1>12, KeptFacts
  <2>3. l.decl = h.decl /\ l.depth = 0
    BY <1>2, LevelFields
  <2> HIDE DEF l
  <2>4. /\ levels' \in Seq(LevelType) /\ SameBelow(Deeper(levels), levels')
        /\ Last(levels') = l
    BY <2>1, <2>2 DEF Replaced
  <2> QED
    BY <1>2, <1>3, <1>5, <1>6, <1>11, <1>14, <2>1, <2>3, <2>4, DeeperChained DEF o
<1>15. CASE Kind(h.decl) \notin {"null", "record"}
  <2>1. levels' = Nest(Deeper(kept), d) /\ ItemsCounted(h, o, TRUE)
    BY <1>2, <1>10, <1>15
  <2>2. /\ Replaced(levels, kept, Last(kept))
        /\ Last(kept).decl = h.decl /\ Last(kept).depth = 0
        /\ ItemsCounted(Last(kept), Last(ps), FALSE)
    <3>1. CASE d = Null
      <4>1. kept = levels /\ Replaced(levels, levels, h)
        BY <1>2, <1>3, <3>1 DEF kept, Replaced, SameBelow
      <4>2. Last(ps).foreign /\ Last(ps).found = o.found
        BY <1>1, <1>5, <3>1
      <4>3. Kind(h.decl) # "wrap"
        BY <1>1, <3>1 DEF Refuses, d
      <4>4. ItemsCounted(h, Last(ps), FALSE)
        BY <2>1, <4>2, <4>3 DEF ItemsCounted
      <4> QED
        BY <1>2, <1>3, <4>1, <4>4
    <3>2. CASE d # Null
      <4> DEFINE l == [h EXCEPT !.found = @ \/ Kind(h.decl) \in {"only", "wrap"}]
      <4>1. kept = NotingFound(levels)
        BY <3>2 DEF kept
      <4>2. Replaced(levels, NotingFound(levels), l)
        BY <1>2, <1>3, NotingFoundFacts
      <4>3. /\ l.decl = h.decl /\ l.depth = 0 /\ l.offs = h.offs
        BY <1>2, LevelFields
      <4>4. Last(ps).found = o.found + 1 /\ Last(ps).foreign = o.foreign
        BY <1>5, <1>8, <3>2
      <4>5. ItemsCounted(l, Last(ps), FALSE)
        <5>1. CASE Kind(h.decl) \in {"struct", "wrap", "only"}
          <6>1. Kind(h.decl) = "wrap" => ~h.found
            BY <1>1 DEF Refuses
          <6> QED
            BY <1>2, <1>5, <2>1, <4>4, <5>1, <6>1, NotedCounted
        <5>2. CASE Kind(h.decl) \in {"seq", "array"}
          <6>1. Ended(Last(ps), FALSE) = Ended(o, TRUE)
            BY <1>8, <4>4 DEF Ended
          <6> HIDE DEF l
          <6> QED
            BY <2>1, <4>3, <4>4, <5>2, <6>1 DEF ItemsCounted
        <5> QED
          BY <1>2, <1>15, <5>1, <5>2, DeclFields DEF Kinds
      <4> HIDE DEF l
      <4>6. Last(kept) = l /\ Replaced(levels, kept, l)
        BY <4>1, <4>2 DEF Replaced
      <4> QED
        BY <4>3, <4>5, <4>6
    <3> QED
      BY <3>1, <3>2
  <2>3. Kind(d) \notin {"value", "only"}
    BY <1>4, <1>15
  <2>4. /\ Chained(Nest(Deeper(kept), d), Append(ps, q))
        /\ AllCounted(Nest(Deeper(kept), d), Append(ps, q))
    BY <1>2, <1>3, <1>4, <1>5, <1>6, <1>15, <2>2, <2>3, NestChained DEF o
  <2> QED
    BY <1>11, <2>1, <2>4
<1> QED
  BY <1>13, <1>14, <1>15

(* What is left open when the innermost container ends: only a record goes *)
(* on to count for the record it is in.                                    *)
LEMMA NoteEndFacts ==
    ASSUME NEW n \in Nat, open \in Seq(OpenType), Len(open) = n, n > 1, NoteEnd,
           \A o \in unmet : o \in OpenType
    PROVE  /\ open' \in Seq(OpenType) /\ Len(open') = n - 1 /\ open' # <<>>
           /\ \A i \in 1..(n - 2) : open'[i] = open[i]
           /\ open'[n - 1].decl = open[n - 1].decl
           /\ open'[n - 1].foreign = open[n - 1].foreign
           /\ \/ open' = Front(open)
              \/ /\ Kind(Last(open).decl) = "record"
                 /\ open[n - 1].decl = Last(open).decl
           /\ \A o \in unmet' : o \in OpenType
           /\ unmet' = IF Unmet(Last(open)) THEN unmet \cup {Last(open)} ELSE unmet
           /\ Kind(open[1].decl) = "only" => open'[1] = open[1]
<1> DEFINE outer == Front(open)
           o == Last(open)
<1>1. n - 1 \in Nat \ {0} /\ open # <<>> /\ n \in 1..n
  BY EmptySeq, LenProperties
<1>2. /\ outer \in Seq(OpenType) /\ Len(outer) = n - 1
      /\ \A i \in 1..(n - 1) : outer[i] = open[i]
      /\ o \in OpenType
  BY <1>1, FrontFacts, LastFacts
<1>3. outer # <<>>
  BY <1>1, <1>2, EmptySeq, LenProperties
<1>4. Last(outer) = outer[n - 1] /\ outer[n - 1] = open[n - 1] /\ outer[n - 1] \in OpenType
  BY <1>1, <1>2 DEF Last
<1>5. /\ open' = IF Kind(o.decl) = "record" /\ Last(outer).decl = o.decl
                 THEN [outer EXCEPT ![Len(outer)].found = @ + o.found]
                 ELSE outer
      /\ unmet' = IF Unmet(o) THEN unmet \cup {o} ELSE unmet
  BY DEF NoteEnd
<1> HIDE DEF outer, o
<1>6. \A u \in unmet' : u \in OpenType
  BY <1>2, <1>5
<1>7. CASE Kind(o.decl) = "record" /\ Last(outer).decl = o.decl
  <2> DEFINE v == [outer[n - 1] EXCEPT !.found = @ + o.found]
  <2>1. outer[n - 1].found + o.found \in Nat
    BY <1>2, <1>4, OpenFields
  <2>2. v \in OpenType
    BY <1>4, <2>1 DEF OpenType
  <2>3. v.decl = outer[n - 1].decl /\ v.foreign = outer[n - 1].foreign
    BY <1>4 DEF OpenType
  <2>4. open' \in Seq(OpenType) /\ open' # <<>> /\ SameBelow(outer, open') /\ Last(open') = v
    <3> DEFINE t == [outer EXCEPT ![Len(outer)] = v]
    <3>1. open' = t
      BY <1>2, <1>5, <1>7
    <3>2. outer \in Seq(OpenType)
      BY <1>2
    <3> HIDE DEF v
    <3>3. t \in Seq(OpenType) /\ t # <<>> /\ SameBelow(outer, t) /\ Last(t) = v
      BY <1>3, <2>2, <3>2, LastReplaced
    <3> HIDE DEF t
    <3> QED
      BY <3>1, <3>3
  <2> HIDE DEF v
  <2>5. Len(open') = n - 1 /\ \A i \in 1..(n - 2) : open'[i] = outer[i]
    BY <1>1, <1>2, <2>4 DEF SameBelow
  <2>6. \A i \in 1..(n - 2) : i \in 1..(n - 1)
    BY <1>1
  <2>7. open'[n - 1] = v
    BY <2>4, <2>5 DEF Last
  <2>8. Kind(open[1].decl) = "only" => open'[1] = open[1]
    <3>1. CASE n - 1 = 1
      BY <1>4, <1>7, <3>1
    <3>2. CASE n - 1 # 1
      <4>1. 1 \in 1..(n - 2)
        BY <1>1, <3>2
      <4> QED
        BY <1>2, <2>5, <2>6, <4>1
    <3> QED
      BY <3>1, <3>2
  <2> QED
    BY <1>2, <1>4, <1>5, <1>6, <1>7, <2>3, <2>4, <2>5, <2>6, <2>7, <2>8 DEF o
<1>8. CASE ~(Kind(o.decl) = "record" /\ Last(outer).decl = o.decl)
  <2>1. open' = outer
    BY <1>5, <1>8
  <2>2. \A i \in 1..(n - 2) : i \in 1..(n - 1)
    BY <1>1
  <2>3. 1 \in 1..(n - 1) /\ n - 1 \in 1..(n - 1)
    BY <1>1
  <2> QED
    BY <1>2, <1>3, <1>5, <1>6, <2>1, <2>2, <2>3 DEF outer, o
<1> QED
  BY <1>7, <1>8

LEMMA EndWithinInv ==
    ASSUME DInv, EndWithin
    PROVE  DInv'
<1> DEFINE n == Len(open)
<1>1. /\ Live /\ n > 1 /\ Ending = {} /\ levels' = Shallower(levels)
      /\ status' = "live" /\ NoteEnd
  BY DEF EndWithin, Reply
<1>2. /\ Chained(levels, open) /\ AllCounted(levels, open)
      /\ levels \in Seq(LevelType) /\ levels # <<>>
      /\ open \in Seq(OpenType) /\ open # <<>>
      /\ events' \in Nat
      /\ \A u \in unmet : u.foreign /\ u \in OpenType
      /\ Kind(open[1].decl) = "only" => open[1].found <= 1
  BY <1>1, LiveFacts
<1>3. n \in Nat /\ n > 1
  BY <1>1, <1>2
<1>4. \A i \in 1..Len(levels) : levels[i].depth # 1
  BY <1>1, <1>2 DEF Ending
<1>5. /\ open' \in Seq(OpenType) /\ Len(open') = n - 1 /\ open' # <<>>
      /\ \A i \in 1..(n - 2) : open'[i] = open[i]
      /\ open'[n - 1].decl = open[n - 1].decl
      /\ unmet' = IF Unmet(Last(open)) THEN unmet \cup {Last(open)} ELSE unmet
      /\ Kind(open[1].decl) = "only" => open'[1] = open[1]
  BY <1>1, <1>2, <1>3, NoteEndFacts
<1>6. /\ Kind(Last(open).decl) \in {"null", "record"}
      /\ Chained(levels', open') /\ AllCounted(levels', open')
  BY <1>1, <1>2, <1>4, <1>5, EndWithinChained
<1>7. unmet' = unmet
  BY <1>5, <1>6 DEF Unmet
<1> HIDE DEF n
<1>8. open'[1].decl = open[1].decl
  <2>1. n - 1 = 1 \/ 1 \in 1..(n - 2)
    BY <1>3
  <2> QED
    BY <1>5, <2>1
<1>9. levels' \in Seq(LevelType)
  BY <1>6 DEF Chained
<1>10. TypeOK'
  BY <1>1, <1>2, <1>5, <1>7, <1>9 DEF TypeOK
<1> QED
  BY <1>1, <1>2, <1>5, <1>6, <1>7, <1>8, <1>10 DEF DInv

(* What a deserializer that is finalized without an exception has read     *)
(* met its requirements.                                                   *)
LEMMA FinalizedFacts ==
    ASSUME NEW chain, NEW i \in Nat \ {0}, NEW o \in OpenType, Len(chain) \in Nat,
           i <= Len(chain), chain[i] \in LevelType, chain[i].decl = o.decl,
           ItemsCounted(chain[i], o, TRUE), ~FinalizeThrows(chain, i),
           Kind(o.decl) = "only" => chain[i].found
    PROVE  Unmet(o) => o.foreign
<1>1. i \in i..Len(chain) /\ i..(i - 1) = {}
  OBVIOUS
<1>2. ~Missing(chain[i])
  BY <1>1 DEF FinalizeThrows
<1> QED
  BY <1>2, UnmetFacts

LEMMA EndNestedInv ==
    ASSUME DInv, EndNested
    PROVE  DInv'
<1> DEFINE n == Len(open)
<1>1. PICK i \in Ending :
         IF FinalizeThrows(levels, i + 1) THEN Throw(Shallower(levels))
         ELSE LET chain == SubSeq(Shallower(levels), 1, i) IN
              IF Kind(chain[i].decl) \in {"seq", "array"} THEN Submit(chain)
              ELSE levels' = chain /\ Reply(GoesOn(chain[i]))
  BY DEF EndNested
<1>2. Live /\ n > 1 /\ NoteEnd
  BY DEF EndNested
<1>3. /\ Chained(levels, open) /\ AllCounted(levels, open)
      /\ levels \in Seq(LevelType) /\ levels # <<>>
      /\ open \in Seq(OpenType) /\ open # <<>>
      /\ Last(open).decl = Handler.decl /\ Handler \in LevelType
      /\ Last(open) \in OpenType
      /\ Kind(Handler.decl) \notin {"null", "record"} =>
            ItemsCounted(Handler, Last(open), TRUE)
      /\ events' \in Nat
      /\ \A u \in unmet : u.foreign /\ u \in OpenType
      /\ Kind(open[1].decl) = "only" => open[1].found <= 1
  BY <1>2, LiveFacts
<1>4. i \in 1..Len(levels) /\ levels[i].depth = 1
  BY <1>3 DEF Ending
<1>5. /\ n = Len(levels) /\ i = n - 1 /\ i \in Nat \ {0} /\ n \in Nat
      /\ levels[i + 1] = Handler
      /\ Kind(levels[i].decl) \notin {"null", "record", "value"}
      /\ Kind(levels[i + 1].decl) \notin {"only", "value"}
  BY <1>3, <1>4, EndingFacts DEF Handler
<1>6. /\ open' \in Seq(OpenType) /\ Len(open') = n - 1 /\ open' # <<>>
      /\ \A j \in 1..(n - 2) : open'[j] = open[j]
      /\ open'[n - 1].decl = open[n - 1].decl
      /\ \/ open' = Front(open)
         \/ /\ Kind(Last(open).decl) = "record"
            /\ open[n - 1].decl = Last(open).decl
      /\ \A u \in unmet' : u \in OpenType
      /\ unmet' = IF Unmet(Last(open)) THEN unmet \cup {Last(open)} ELSE unmet
      /\ Kind(open[1].decl) = "only" => open'[1] = open[1]
  BY <1>2, <1>3, <1>5, NoteEndFacts
<1>7. /\ open[i].decl = levels[i].decl /\ i \in 1..n /\ open[i] \in OpenType
      /\ levels[i] \in LevelType /\ ItemsCounted(levels[i], open[i], FALSE)
  <2>1. i \in 1..Len(levels) /\ i # Len(levels) /\ i \in 1..n
    BY <1>5
  <2>2. open[i].decl = levels[i].decl
    BY <1>3, <1>4 DEF Chained
  <2>3. ItemsCounted(levels[i], open[i], FALSE)
    BY <1>3, <2>1 DEF AllCounted
  <2>4. open[i] \in OpenType /\ levels[i] \in LevelType
    BY <1>3, <2>1
  <2> QED
    BY <2>1, <2>2, <2>3, <2>4
<1>8. open' = Front(open)
  BY <1>5, <1>6, <1>7
<1>9. /\ Front(open)[i] = open[i]
      /\ Kind(open'[1].decl) = "only" => open'[1].found <= 1
  <2>1. i \in 1..(n - 1) /\ 1 \in 1..(n - 1)
    BY <1>5
  <2> QED
    BY <1>3, <1>8, <2>1, FrontFacts
<1>10. CASE FinalizeThrows(levels, i + 1)
  <2>1. levels' = Shallower(levels) /\ status' = "thrown"
    BY <1>1, <1>10 DEF Throw
  <2>2. levels' \in Seq(LevelType)
    BY <1>3, <2>1, ShallowerFacts
  <2>3. TypeOK'
    BY <1>3, <1>6, <2>1, <2>2 DEF TypeOK
  <2> QED
    BY <1>6, <1>9, <2>1, <2>3 DEF DInv
<1>11. CASE ~FinalizeThrows(levels, i + 1)
  <2> DEFINE chain == SubSeq(Shallower(levels), 1, i)
             l == chain[i]
  <2>1. /\ chain \in Seq(LevelType) /\ chain # <<>> /\ Len(chain) = i
        /\ l.decl = levels[i].decl /\ l.depth = 0
        /\ l.offs = levels[i].offs /\ l.found = levels[i].found
        /\ l.thrown = levels[i].thrown
        /\ Last(chain) = l /\ l \in LevelType
    <3>1. i \in 1..i
      BY <1>5
    <3> DEFINE c == SubSeq(Shallower(levels), 1, i)
    <3>2. /\ c \in Seq(LevelType) /\ c # <<>> /\ Len(c) = i
          /\ \A j \in 1..i : /\ c[j].decl = levels[j].decl
                             /\ c[j].depth = IF j = i THEN 0 ELSE i - j
                             /\ c[j].offs = levels[j].offs /\ c[j].found = levels[j].found
                             /\ c[j].thrown = levels[j].thrown
          /\ Last(c) = c[i] /\ c[i] \in LevelType
      BY <1>3, <1>4, LeftFacts, Zenon
    <3> HIDE DEF c
    <3>3. /\ c[i].decl = levels[i].decl /\ c[i].depth = 0
          /\ c[i].offs = levels[i].offs /\ c[i].found = levels[i].found
          /\ c[i].thrown = levels[i].thrown
      BY <3>1, <3>2
    <3> QED
      BY <3>2, <3>3 DEF c
  <2>2. ItemsCounted(l, open[i], FALSE)
    BY <1>7, <2>1 DEF ItemsCounted
  <2>3. \A u \in unmet' : u.foreign
    <3>1. Unmet(Last(open)) => Last(open).foreign
      <4>1. CASE Kind(Handler.decl) \in {"null", "record"}
        BY <1>3, <4>1 DEF Unmet
      <4>2. CASE Kind(Handler.decl) \notin {"null", "record"}
        <5>1. ItemsCounted(levels[i + 1], Last(open), TRUE)
          BY <1>3, <1>5, <4>2
        <5>2. i + 1 \in Nat \ {0} /\ i + 1 <= Len(levels) /\ Len(levels) \in Nat
          BY <1>5
        <5>3. Kind(Last(open).decl) # "only"
          BY <1>3, <1>5
        <5> QED
          BY <1>3, <1>5, <1>11, <5>1, <5>2, <5>3, FinalizedFacts
      <4> QED
        BY <4>1, <4>2
    <3> QED
      BY <1>3, <1>6, <3>1
  <2>4. IF Kind(l.decl) \in {"seq", "array"} THEN Submit(chain)
        ELSE levels' = chain /\ Reply(GoesOn(l))
    BY <1>1, <1>11
  <2> HIDE DEF chain, l
  <2>5. ASSUME levels' \in Seq(LevelType), status' \in {"thrown", "live", "refused"}
        PROVE  TypeOK'
    BY <1>3, <1>6, <2>5 DEF TypeOK
  <2>6. ASSUME Replaced(chain, levels', Last(levels')), status' = "live",
               Last(levels').decl = l.decl, Last(levels').depth = 0,
               ItemsCounted(Last(levels'), open[i], TRUE)
        PROVE  DInv'
    <3>1. Chained(levels', open') /\ AllCounted(levels', open')
      BY <1>3, <1>4, <1>8, <2>1, <2>6, EndNestedChained DEF chain
    <3>2. levels' \in Seq(LevelType)
      BY <2>6 DEF Replaced
    <3> QED
      BY <1>6, <1>9, <2>3, <2>5, <2>6, <3>1, <3>2 DEF DInv
  <2>7. CASE Kind(l.decl) \in {"seq", "array"} /\ SubmitThrows(chain)
    <3>1. levels' = chain /\ status' = "thrown"
      BY <2>4, <2>7 DEF Submit, Throw
    <3> QED
      BY <1>6, <1>9, <2>1, <2>5, <3>1 DEF DInv
  <2>8. CASE Kind(l.decl) \in {"seq", "array"} /\ ~SubmitThrows(chain)
    <3> DEFINE k == [l EXCEPT !.offs = IF Overflows(l) THEN @ ELSE @ + 1]
    <3>1. levels' = Submitted(chain) /\ status' = "live"
      BY <2>4, <2>8 DEF Submit, Reply
    <3>2. Replaced(chain, Submitted(chain), k)
      BY <2>1, SubmittedFacts
    <3>3. k.decl = l.decl /\ k.depth = 0
      BY <2>1, LevelFields
    <3>4. ~(Overflows(l) /\ Decl[l.decl].strict)
      BY <2>1, <2>8 DEF SubmitThrows
    <3>5. Ended(open[i], TRUE) = Ended(open[i], FALSE) + 1
      BY <1>7, OpenFields DEF Ended
    <3>6. ItemsCounted(k, open[i], TRUE)
      BY <1>7, <2>1, <2>2, <2>8, <3>4, <3>5, StoredCounted
    <3> HIDE DEF k
    <3>7. Last(levels') = k /\ Replaced(chain, levels', k)
      BY <3>1, <3>2 DEF Replaced
    <3> QED
      BY <2>6, <3>1, <3>3, <3>6, <3>7
  <2>9. CASE Kind(l.decl) \notin {"seq", "array"}
    <3>1. levels' = chain /\ status' = IF GoesOn(l) THEN "live" ELSE "refused"
      BY <2>4, <2>9 DEF Reply
    <3>2. CASE GoesOn(l)
      <4>1. Replaced(chain, levels', l) /\ Last(levels') = l
        BY <2>1, <3>1 DEF Replaced, SameBelow
      <4>2. ItemsCounted(l, open[i], TRUE)
        <5>1. Kind(l.decl) = "only" => ~l.found
          BY <3>2 DEF GoesOn
        <5>2. open[i].found \in Nat
          BY <1>7, OpenFields
        <5>3. Kind(l.decl) = "only" => open[i].found = 0
          BY <2>2, <5>1, <5>2 DEF ItemsCounted
        <5>4. Kind(l.decl) # "array" /\ Kind(l.decl) # "seq"
          BY <2>9
        <5> QED
          BY <2>2, <5>3, <5>4 DEF ItemsCounted
      <4> QED
        BY <2>1, <2>6, <3>1, <3>2, <4>1, <4>2
    <3>3. CASE ~GoesOn(l)
      <4>1. Kind(l.decl) = "only" /\ l.found
        BY <3>3 DEF GoesOn
      <4>2. open[i].found = 1 /\ Kind(open[i].decl) = "only"
        BY <1>7, <2>1, <2>2, <4>1 DEF ItemsCounted
      <4>3. i = 1
        <5>1. ~(i > 1)
          BY <1>3, <1>4, <2>1, <4>1 DEF Chained
        <5> QED
          BY <1>5, <5>1
      <4>4. Len(open') = 1 /\ open'[1] = open[1]
        BY <1>5, <1>6, <1>8, <1>9, <4>3
      <4>5. status' = "refused" /\ levels' \in Seq(LevelType)
        BY <2>1, <3>1, <3>3
      <4> QED
        BY <1>6, <1>9, <2>3, <2>5, <4>2, <4>3, <4>4, <4>5 DEF DInv
    <3> QED
      BY <3>2, <3>3
  <2> QED
    BY <2>7, <2>8, <2>9
<1> QED
  BY <1>10, <1>11

(* The sink is told of the end: it has thrown if a requirement that it     *)
(* knows of is not met.                                                    *)
LEMMA EndOfStreamInv ==
    ASSUME DInv, EndOfStream
    PROVE  DInv'
<1>1. /\ status \in {"live", "refused"} /\ Len(open) = 1 /\ levels' = <<>>
      /\ status' \in {"terminated", "failed", "ended"}
      /\ status' = "ended" => ~ChildThrows
      /\ unmet' = IF Unmet(open[1]) THEN unmet \cup {open[1]} ELSE unmet
      /\ events' = events /\ open' = open
  BY DEF EndOfStream
<1>2. /\ open \in Seq(OpenType) /\ open # <<>> /\ events \in Nat
      /\ levels \in Seq(LevelType)
      /\ \A o \in unmet : o.foreign /\ o \in OpenType
      /\ Kind(open[1].decl) = "only" => open[1].found <= 1
      /\ status = "live" => Chained(levels, open) /\ AllCounted(levels, open)
      /\ status = "refused" => Kind(open[1].decl) = "only" /\ open[1].found = 1
  BY <1>1 DEF DInv, TypeOK
<1>3. open[1] \in OpenType
  BY <1>1, <1>2
<1>4. \A o \in unmet' : o \in OpenType
  BY <1>1, <1>2, <1>3
<1>5. <<>> \in Seq(LevelType)
  OBVIOUS
<1>6. TypeOK'
  BY <1>1, <1>2, <1>4, <1>5 DEF TypeOK
<1>7. ASSUME status' = "ended", Unmet(open[1]) PROVE open[1].foreign
  <2>1. CASE status = "refused"
    BY <1>2, <1>7, <2>1 DEF Unmet
  <2>2. CASE status = "live"
    <3>1. /\ Len(levels) = 1 /\ levels[1] \in LevelType
          /\ levels[1].decl = open[1].decl
          /\ ItemsCounted(levels[1], open[1], TRUE)
          /\ Kind(levels[1].decl) = "only" => ~levels[1].thrown
      <4>1. Len(levels) \in Nat \ {0} /\ Len(levels) <= 1
        BY <1>1, <1>2, <2>2, ChainedFacts
      <4>2. \A k \in Nat \ {0} : k <= 1 => k = 1 /\ 1 \in 1..k
        OBVIOUS
      <4>3. Len(levels) = 1 /\ 1 \in 1..Len(levels)
        BY <4>1, <4>2
      <4>4. levels[1].decl = open[1].decl
        BY <1>2, <2>2, <4>3 DEF Chained
      <4>5. ItemsCounted(levels[1], open[1], TRUE)
        BY <1>2, <2>2, <4>3 DEF AllCounted
      <4>6. Kind(levels[1].decl) = "only" => ~levels[1].thrown
        BY <4>5 DEF ItemsCounted
      <4>7. levels[1] \in LevelType
        BY <1>2, <4>3
      <4> QED
        BY <4>3, <4>4, <4>5, <4>6, <4>7
    <3>2. /\ ~FinalizeThrows(levels, 1)
          /\ Kind(levels[1].decl) = "only" => levels[1].found \/ levels[1].thrown
      BY <1>1, <1>7 DEF ChildThrows
    <3>3. Kind(open[1].decl) = "only" => levels[1].found
      BY <3>1, <3>2
    <3>4. 1 \in Nat \ {0} /\ 1 <= Len(levels) /\ Len(levels) \in Nat
      BY <3>1
    <3> QED
      BY <1>3, <1>7, <3>1, <3>2, <3>3, <3>4, FinalizedFacts
  <2> QED
    BY <1>1, <2>1, <2>2
<1>8. status' = "ended" => \A o \in unmet' : o.foreign
  BY <1>1, <1>2, <1>7
<1> QED
  BY <1>1, <1>2, <1>6, <1>8 DEF DInv

LEMMA DestroyInv ==
    ASSUME DInv, Destroy
    PROVE  DInv'
<1>1. /\ levels' = <<>> /\ status' \in {"terminated", "destroyed"}
      /\ events' = events /\ open' = open /\ unmet' = unmet
  BY DEF Destroy
<1>2. <<>> \in Seq(LevelType)
  OBVIOUS
<1>3. TypeOK'
  BY <1>1, <1>2 DEF DInv, TypeOK
<1> QED
  BY <1>1, <1>3 DEF DInv

LEMMA UnchangedInv ==
    ASSUME DInv, UNCHANGED vars
    PROVE  DInv'
<1>1. TypeOK'
  BY DEF DInv, TypeOK, vars
<1> QED
  BY <1>1 DEF DInv, Chained, AllCounted, vars

LEMMA SingleFacts ==
    ASSUME NEW S, NEW x \in S, NEW s, s = <<x>>
    PROVE  s \in Seq(S) /\ s # <<>> /\ Len(s) = 1 /\ s[1] = x /\ Last(s) = x
BY DEF Last

(* A stream begins with the deserializer of a declaration that is no value.*)
LEMMA BeginInv ==
    ASSUME NEW d \in Decls, Decl[d].kind # "value",
           levels = <<Level(d)>>,
           open = <<[decl |-> d, found |-> 0, foreign |-> FALSE]>>,
           status = "live", events = 0, unmet = {}
    PROVE  DInv
<1> DEFINE l == Level(d)
           o == [decl |-> d, found |-> 0, foreign |-> FALSE]
<1>1. l \in LevelType /\ o \in OpenType
  BY DEF Level, LevelType, OpenType
<1>2. /\ l.decl = d /\ l.depth = 0 /\ l.offs = 0 /\ l.found = FALSE /\ l.thrown = FALSE
      /\ o.decl = d /\ o.found = 0 /\ o.foreign = FALSE
  BY DEF Level
<1>3. levels = <<l>> /\ open = <<o>>
  OBVIOUS
<1> HIDE DEF l, o
<1>4. /\ levels \in Seq(LevelType) /\ open \in Seq(OpenType)
      /\ Len(levels) = 1 /\ Len(open) = 1 /\ levels[1] = l /\ open[1] = o
      /\ levels # <<>> /\ open # <<>> /\ Last(levels) = l
  BY <1>1, <1>3, SingleFacts
<1>5. Kind(d) # "value"
  BY DeclAssumption DEF Kind
<1>6. \A i \in 1..1 : i = 1 /\ ~(i > 1) /\ ~(i < 1)
  OBVIOUS
<1>7. Chained(levels, open)
  BY <1>2, <1>4, <1>5, <1>6 DEF Chained
<1>8. ItemsCounted(l, o, TRUE)
  <2>1. Kind(d) = "array" => 0 <= Decl[d].count
    BY DeclFields
  <2>2. 0 <= 1
    OBVIOUS
  <2> QED
    BY <1>2, <2>1, <2>2 DEF ItemsCounted, Ended
<1>9. AllCounted(levels, open)
  BY <1>4, <1>6, <1>8 DEF AllCounted
<1>10. TypeOK
  BY <1>4 DEF TypeOK
<1> QED
  BY <1>2, <1>4, <1>7, <1>9, <1>10 DEF DInv

-----------------------------------------------------------------------------
(* Any stream, and the stream that serialize_to_sink writes.               *)

LEMMA InitInv == ASSUME Init PROVE DInv
<1>1. PICK d \in Roots :
         /\ levels = <<Level(d)>>
         /\ open = <<[decl |-> d, found |-> 0, foreign |-> FALSE]>>
  BY DEF Init
<1>2. d \in Decls /\ Decl[d].kind # "value"
  BY DeclAssumption
<1>3. status = "live" /\ events = 0 /\ unmet = {}
  BY DEF Init
<1> QED
  BY <1>1, <1>2, <1>3, BeginInv

LEMMA StepInv == ASSUME DInv, [Next]_vars PROVE DInv'
<1>1. CASE \E node \in Nodes : RefuseChild(node)
  BY <1>1, RefuseChildInv
<1>2. CASE \E node \in Nodes : PushNode(node)
  BY <1>2, PushNodeInv, DeclAssumption
<1>3. CASE \E node \in Nodes : StartContainer(node)
  BY <1>3, StartContainerInv, DeclAssumption
<1>4. CASE EndWithin
  BY <1>4, EndWithinInv
<1>5. CASE EndNested
  BY <1>5, EndNestedInv
<1>6. CASE EndOfStream
  BY <1>6, EndOfStreamInv
<1>7. CASE Destroy
  BY <1>7, DestroyInv
<1>8. CASE Gone
  BY <1>8, UnchangedInv DEF Gone
<1>9. CASE UNCHANGED vars
  BY <1>9, UnchangedInv
<1> QED
  BY <1>1, <1>2, <1>3, <1>4, <1>5, <1>6, <1>7, <1>8, <1>9 DEF Next

LEMMA SerializerInitInv == ASSUME SerializerInit PROVE DInv
<1>1. CASE Init
  BY <1>1, InitInv
<1>2. CASE ~Init
  <2>1. /\ \E d \in Objects :
              /\ levels = <<Level(d)>>
              /\ open = <<[decl |-> d, found |-> 0, foreign |-> FALSE]>>
        /\ status = "live" /\ events = 0 /\ unmet = {}
    BY <1>2 DEF SerializerInit
  <2>2. PICK d \in Objects :
           /\ levels = <<Level(d)>>
           /\ open = <<[decl |-> d, found |-> 0, foreign |-> FALSE]>>
    BY <2>1
  <2>3. d \in Decls /\ Decl[d].kind # "value"
    BY ObjectsAssumption
  <2> QED
    BY <2>1, <2>2, <2>3, BeginInv
<1> QED
  BY <1>1, <1>2

LEMMA SerializerStepInv ==
    ASSUME DInv, [SerializerNext]_<<vars, writerVars, sender>>
    PROVE  DInv'
<1>1. \A d, id : Node(d, id).cont \in BOOLEAN
  BY DEF Node
<1>2. CASE WriteValue
  <2>1. \E d, id : RefuseChild(Node(d, id)) \/ PushNode(Node(d, id))
    BY <1>2 DEF WriteValue
  <2> QED
    BY <1>1, <2>1, RefuseChildInv, PushNodeInv
<1>3. CASE WriteContainer \/ WriteRecord
  <2>1. \E d, id : RefuseChild(Node(d, id)) \/ StartContainer(Node(d, id))
    BY <1>3 DEF WriteContainer, WriteRecord, WriteStart
  <2> QED
    BY <1>1, <2>1, RefuseChildInv, StartContainerInv
<1>4. CASE OmitRecord
  BY <1>4, UnchangedInv DEF OmitRecord
<1>5. CASE WriteChild
  <2> DEFINE node == [id |-> Head(todo).id, cont |-> FALSE]
  <2>1. RefuseChild(node) \/ PushNode(node)
    BY <1>5 DEF WriteChild
  <2>2. node.cont \in BOOLEAN
    OBVIOUS
  <2> HIDE DEF node
  <2> QED
    BY <2>1, <2>2, RefuseChildInv, PushNodeInv
<1>6. CASE WriteNested
  <2> DEFINE node == [id |-> Head(todo).id, cont |-> TRUE]
  <2>1. RefuseChild(node) \/ StartContainer(node)
    BY <1>6 DEF WriteNested
  <2>2. node.cont \in BOOLEAN
    OBVIOUS
  <2> HIDE DEF node
  <2> QED
    BY <2>1, <2>2, RefuseChildInv, StartContainerInv
<1>7. CASE WriteEnd
  BY <1>7, EndWithinInv, EndNestedInv DEF WriteEnd
<1>8. CASE Return
  BY <1>8, EndOfStreamInv, DestroyInv, UnchangedInv DEF Return, Gone
<1>9. CASE Receive
  BY <1>9, StepInv DEF Receive
<1>10. CASE UNCHANGED <<vars, writerVars, sender>>
  BY <1>10, UnchangedInv
<1> QED
  BY <1>2, <1>3, <1>4, <1>5, <1>6, <1>7, <1>8, <1>9, <1>10 DEF SerializerNext

(* The invariant holds of any stream and of the stream of a serializer.    *)
LEMMA DInvHolds == (Spec => []DInv) /\ (SerializerSpec => []DInv)
<1>1. Spec => []DInv
  BY InitInv, StepInv, PTL DEF Spec
<1>2. SerializerSpec => []DInv
  BY SerializerInitInv, SerializerStepInv, PTL DEF SerializerSpec
<1> QED
  BY <1>1, <1>2

(* Every variable of the sink has its type: no deserializer or container   *)
(* outside of the declarations is ever made, whatever is sent to the sink. *)
THEOREM DeserializerTypeOK == Spec \/ SerializerSpec => []TypeOK
<1>1. DInv => TypeOK
  BY DEF DInv
<1> QED
  BY <1>1, DInvHolds, PTL

(* deserializer_base passes every event on to the deserializer that was    *)
(* generated for the innermost container, however deep the nesting and     *)
(* whichever containers nobody knows or records have for themselves.       *)
THEOREM DeserializerHandlesItsOwn == Spec \/ SerializerSpec => []ContainerHandlesItsOwn
<1>1. ASSUME DInv, status = "live"
      PROVE  /\ Handler.decl = Last(open).decl
             /\ \A i \in 1..(Len(levels) - 1) : levels[i].depth = Len(open) - i
  <2>1. Chained(levels, open)
    BY <1>1 DEF DInv
  <2>2. Len(levels) \in Nat /\ Last(open).decl = Last(levels).decl
    BY <2>1, ChainedFacts
  <2>3. \A i \in 1..(Len(levels) - 1) : i \in 1..Len(levels) /\ i # Len(levels)
    BY <2>2
  <2> QED
    BY <2>1, <2>2, <2>3 DEF Chained, Handler
<1>2. DInv => ContainerHandlesItsOwn
  BY <1>1 DEF ContainerHandlesItsOwn
<1> QED
  BY <1>2, DInvHolds, PTL

LEMMA MinOfTwo ==
    ASSUME NEW a \in Int, NEW b \in Int
    PROVE  Min({a, b}) = IF a <= b THEN a ELSE b
<1> DEFINE m == IF a <= b THEN a ELSE b
           P(x) == \A y \in {a, b} : x <= y
<1>1. m \in {a, b} /\ P(m) /\ \A x \in {a, b} : P(x) => x = m
  OBVIOUS
<1>2. Min({a, b}) = CHOOSE x \in {a, b} : P(x)
  BY DEF Min
<1> HIDE DEF m, P
<1>3. Min({a, b}) \in {a, b} /\ P(Min({a, b}))
  BY <1>1, <1>2
<1>4. Min({a, b}) = m
  BY <1>1, <1>3
<1> QED
  BY <1>4 DEF m

(* iterator, container and static_array have stored the items that have    *)
(* ended, no more than there is room for, in every open container of the   *)
(* chain.                                                                  *)
THEOREM DeserializerStoresItems == Spec \/ SerializerSpec => []StoredInStep
<1>1. ASSUME DInv, status = "live", NEW i \in 1..Len(levels), ~open[i].foreign
      PROVE  LET ended == open[i].found - (IF i < Len(levels) THEN 1 ELSE 0)
             IN  /\ Kind(levels[i].decl) = "seq" => levels[i].offs = ended
                 /\ Kind(levels[i].decl) = "array" =>
                       levels[i].offs = Min({ended, Decl[levels[i].decl].count})
  <2> DEFINE ended == open[i].found - (IF i < Len(levels) THEN 1 ELSE 0)
             d == levels[i].decl
  <2>1. Chained(levels, open) /\ AllCounted(levels, open)
    BY <1>1 DEF DInv
  <2>2. /\ Len(levels) \in Nat \ {0} /\ Len(open) \in Nat /\ Len(levels) <= Len(open)
        /\ open \in Seq(OpenType) /\ levels \in Seq(LevelType)
    BY <2>1, ChainedFacts
  <2>3. i \in 1..Len(open) /\ (i < Len(levels) <=> i # Len(levels))
    BY <1>1, <2>2
  <2>4. open[i].found \in Nat
    BY <2>2, <2>3, OpenFields
  <2>5. /\ Kind(d) = "seq" => levels[i].offs = ended
        /\ Kind(d) = "array" => levels[i].offs = IF ended <= Decl[d].count
                                                 THEN ended ELSE Decl[d].count
    <3>1. CASE i = Len(levels)
      <4>1. ItemsCounted(levels[i], open[i], TRUE)
        BY <2>1, <3>1 DEF AllCounted
      <4>2. ended = open[i].found
        BY <2>3, <2>4, <3>1
      <4> QED
        BY <1>1, <4>1, <4>2 DEF ItemsCounted, Ended
    <3>2. CASE i # Len(levels)
      <4>1. ItemsCounted(levels[i], open[i], FALSE)
        BY <2>1, <3>2 DEF AllCounted
      <4>2. ended = open[i].found - 1
        BY <2>3, <2>4, <3>2
      <4> QED
        BY <1>1, <4>1, <4>2 DEF ItemsCounted, Ended
    <3> QED
      BY <3>1, <3>2
  <2>6. ended \in Int
    BY <2>4
  <2>7. d \in Decls \cup {Null}
    BY <1>1, <2>2, LevelFields
  <2>8. Kind(d) = "array" => Decl[d].count \in Nat
    BY <2>7, DeclFields
  <2> HIDE DEF ended
  <2>9. Kind(d) = "array" => levels[i].offs = Min({ended, Decl[d].count})
    BY <2>5, <2>6, <2>8, MinOfTwo
  <2> QED
    BY <2>5, <2>9 DEF ended
<1>2. DInv => levels \in Seq(LevelType)
  BY DEF DInv, TypeOK
<1>3. ASSUME DInv PROVE StoredInStep
  <2>1. DOMAIN levels = 1..Len(levels)
    BY <1>2, <1>3
  <2>2. SUFFICES ASSUME status = "live", NEW i \in 1..Len(levels), ~open[i].foreign
                 PROVE  LET ended == open[i].found - (IF i < Len(levels) THEN 1 ELSE 0)
                        IN  /\ Kind(levels[i].decl) = "seq" => levels[i].offs = ended
                            /\ Kind(levels[i].decl) = "array" =>
                                  levels[i].offs = Min({ended, Decl[levels[i].decl].count})
    BY <2>1, Zenon DEF StoredInStep
  <2> QED
    BY <1>1, <1>3, <2>2, Zenon
<1>4. DInv => StoredInStep
  BY <1>3
<1> QED
  BY <1>4, DInvHolds, PTL

(* only stores one object: it refuses all that follows, when the object    *)
(* was a value at once, when it was a container at its end.                *)
THEOREM DeserializerOnlyStoresOne == Spec \/ SerializerSpec => []OnlyStoresOne
<1>1. DInv => OnlyStoresOne
  BY DEF DInv, OnlyStoresOne
<1> QED
  BY <1>1, DInvHolds, PTL

(* finalize of the nested deserializers and of the sink reports every      *)
(* record that is missing or was not expected (errors.hpp), unless there   *)
(* was an unknown container in an array.                                   *)
THEOREM DeserializerReportsRequirements ==
    Spec \/ SerializerSpec => []KnownRequirementsReported
<1>1. DInv => KnownRequirementsReported
  BY DEF DInv, KnownRequirementsReported
<1> QED
  BY <1>1, DInvHolds, PTL

-----------------------------------------------------------------------------
(* What serialize_to_sink has still to write.                              *)

CallType ==
    [do: {"to_sink", "push_node", "start_container", "end_container"},
     decl: Decls, id: Int]

(* The calls that are left for the container that w has written, between   *)
(* the positions a and b: some of its members, or what FromTree has left   *)
(* of a record.                                                            *)
Part(w, calls, a, b) ==
    IF Kind(w) = "record"
    THEN \/ b = a + 1
         \/ a = 0 /\ b = 2 /\ calls[1] = Push(w)
         \/ a = 0 /\ b = 4 /\ calls[1] = Start(w) /\ calls[2] = Push(w) /\ calls[3] = End(w)
    ELSE \A j \in (a + 1)..(b - 1) :
            \E i \in DOMAIN Decl[w].members : calls[j] = ToSink(Decl[w].members[i])

(* The calls are those of the containers that are being written, from the  *)
(* innermost to the outermost, with an end_container after each but for    *)
(* the last one: it is at e[k] for the container at k.                     *)
Parted(e, ws, calls) ==
    LET n == Len(ws) IN
    /\ e \in [1..(n + 1) -> 0..(Len(calls) + 1)]
    /\ e[n + 1] = 0 /\ e[1] = Len(calls) + 1
    /\ \A k \in 1..n : e[k + 1] < e[k] /\ Part(ws[k], calls, e[k + 1], e[k])
    /\ \A k \in 2..n : calls[e[k]].do = "end_container"

(* With the r calls that are left what w requires will have been found.    *)
Due(w, found, r) ==
    /\ Kind(w) \in {"wrap", "only"} => found + r = 1
    /\ Kind(w) = "array" =>
          /\ found + r <= Decl[w].count
          /\ Decl[w].all => found + r = Decl[w].count

AllDue(e, ws, os) ==
    \A k \in 1..Len(ws) : Due(ws[k], os[k].found, e[k] - e[k + 1] - 1)

(* The containers are read by those that have written them (InPlace).      *)
Aligned(ws, os) ==
    Len(ws) = Len(os) /\ \A i \in 1..Len(os) : ws[i] = os[i].decl

(* Nothing has been left out or read by another declaration.               *)
Faithful == ~lossy /\ misread = {}

(* The stream has been stopped by only, which has its object.              *)
Satisfied ==
    Len(levels) = 1 /\ levels[1].decl = open[1].decl /\ levels[1].found

PartsLeft ==
    \E e : Parted(e, writers, todo) /\ (Faithful => AllDue(e, writers, open))

WInv ==
    /\ lossy \in BOOLEAN
    /\ todo \in Seq(CallType) /\ writers \in Seq(Decls)
    /\ ~lossy => \A d \in misread : Ambiguous(d)
    /\ sender = "serializer" =>
          /\ status = "live" =>
                /\ Len(writers) = Len(open) /\ Kind(writers[1]) = "only"
                /\ \A k \in 1..Len(writers) : Kind(writers[k]) # "value"
                /\ PartsLeft
                /\ Faithful => Aligned(writers, open)
          /\ status = "refused" => Satisfied
          /\ Faithful =>
                /\ status \in {"live", "refused", "ended", "destroyed"}
                /\ status # "live" => todo = <<>>
                /\ unmet = {}
                /\ \A i \in 1..Len(open) : ~open[i].foreign
          /\ status = "ended" => levels = <<>>

-----------------------------------------------------------------------------
(* The calls that are left.                                                *)

LEMMA PartMoved ==
    ASSUME NEW w, NEW c, NEW t, NEW a \in Int, NEW b \in Int, NEW s \in Int,
           Part(w, c, a, b), Kind(w) = "record" => b = a + 1,
           \A j \in (a + 1)..(b - 1) : t[j + s] = c[j]
    PROVE  Part(w, t, a + s, b + s)
<1>1. CASE Kind(w) = "record"
  <2>1. b + s = (a + s) + 1
    BY <1>1
  <2> QED
    BY <1>1, <2>1 DEF Part
<1>2. CASE Kind(w) # "record"
  <2>1. ASSUME NEW j \in (a + s + 1)..(b + s - 1)
        PROVE  \E i \in DOMAIN Decl[w].members : t[j] = ToSink(Decl[w].members[i])
    <3>1. j - s \in (a + 1)..(b - 1) /\ (j - s) + s = j
      OBVIOUS
    <3>2. t[j] = c[j - s]
      BY <3>1
    <3> QED
      BY <1>2, <3>1, <3>2 DEF Part
  <2> QED
    BY <1>2, <2>1 DEF Part
<1> QED
  BY <1>1, <1>2

LEMMA PartOuter ==
    ASSUME NEW w, NEW c, NEW a \in Nat \ {0}, NEW b, Part(w, c, a, b), Kind(w) = "record"
    PROVE  b = a + 1
BY DEF Part

(* The innermost container loses its next call.                            *)
LEMMA PartLess ==
    ASSUME NEW w, NEW c, NEW b \in Nat, Part(w, c, 0, b), Kind(w) # "record"
    PROVE  Part(w, c, 1, b)
<1>1. \A j \in (1 + 1)..(b - 1) : j \in (0 + 1)..(b - 1)
  OBVIOUS
<1> QED
  BY <1>1 DEF Part

LEMMA TailFacts ==
    ASSUME NEW S, NEW s \in Seq(S), s # <<>>
    PROVE  /\ Len(s) \in Nat \ {0} /\ Head(s) = s[1] /\ s[1] \in S
           /\ Tail(s) \in Seq(S) /\ Len(Tail(s)) = Len(s) - 1
           /\ \A j \in 1..(Len(s) - 1) : Tail(s)[j] = s[j + 1]
<1>1. Len(s) \in Nat \ {0}
  BY EmptySeq, LenProperties
<1> QED
  BY <1>1, HeadTailProperties

(* What is written next is of the innermost container.                     *)
LEMMA HeadFacts ==
    ASSUME NEW e, NEW ws \in Seq(Decls), NEW calls \in Seq(CallType),
           ws # <<>>, calls # <<>>, Parted(e, ws, calls)
    PROVE  LET n == Len(ws)
               w == Last(ws)
               h == Head(calls)
           IN  /\ n \in Nat \ {0} /\ w = ws[n] /\ w \in Decls /\ h = calls[1] /\ h \in CallType
               /\ h.do = "to_sink" =>
                     /\ Kind(w) # "record" /\ e[n] >= 2
                     /\ \E i \in DOMAIN Decl[w].members : h = ToSink(Decl[w].members[i])
               /\ h.do = "push_node" =>
                     Kind(w) = "record" /\ e[n] = 2 /\ h = Push(w)
               /\ h.do = "start_container" =>
                     /\ Kind(w) = "record" /\ e[n] = 4
                     /\ h = Start(w) /\ calls[2] = Push(w) /\ calls[3] = End(w)
               /\ h.do = "end_container" => n > 1 /\ e[n] = 1
<1> DEFINE n == Len(ws)
           w == ws[n]
           h == calls[1]
<1>1. n \in Nat \ {0} /\ Last(ws) = w /\ w \in Decls
  BY LastFacts
<1>2. Len(calls) \in Nat \ {0} /\ Head(calls) = h /\ h \in CallType
  BY TailFacts
<1>3. /\ e \in [1..(n + 1) -> 0..(Len(calls) + 1)] /\ e[n + 1] = 0 /\ e[1] = Len(calls) + 1
      /\ n \in 1..n => e[n + 1] < e[n] /\ Part(w, calls, e[n + 1], e[n])
      /\ n \in 2..n => calls[e[n]].do = "end_container"
  BY DEF Parted
<1>4. n \in 1..n /\ n \in 1..(n + 1)
  BY <1>1
<1>5. e[n] \in Nat \ {0} /\ Part(w, calls, 0, e[n])
  BY <1>3, <1>4
<1> HIDE DEF n, w, h
<1>6. CASE e[n] = 1
  <2>1. n # 1
    BY <1>2, <1>3, <1>6
  <2>2. n > 1 /\ n \in 2..n
    BY <1>1, <2>1
  <2>3. h.do = "end_container"
    BY <1>3, <1>6, <2>2 DEF h
  <2> QED
    BY <1>1, <1>2, <1>6, <2>2, <2>3 DEF n, w, h
<1>7. CASE e[n] # 1 /\ Kind(w) = "record"
  <2>1. \/ e[n] = 2 /\ h = Push(w)
        \/ e[n] = 4 /\ h = Start(w) /\ calls[2] = Push(w) /\ calls[3] = End(w)
    BY <1>5, <1>7 DEF Part, h
  <2>2. Push(w).do = "push_node" /\ Start(w).do = "start_container"
    BY DEF Push, Start, Call
  <2> QED
    BY <1>1, <1>2, <1>7, <2>1, <2>2 DEF n, w, h
<1>8. CASE e[n] # 1 /\ Kind(w) # "record"
  <2>1. 1 \in (0 + 1)..(e[n] - 1) /\ e[n] >= 2
    BY <1>5, <1>8
  <2>2. PICK i \in DOMAIN Decl[w].members : h = ToSink(Decl[w].members[i])
    BY <1>5, <1>8, <2>1 DEF Part, h
  <2>3. h.do = "to_sink"
    BY <2>2 DEF ToSink, Call
  <2> QED
    BY <1>1, <1>2, <1>8, <2>1, <2>2, <2>3 DEF n, w, h
<1> QED
  BY <1>6, <1>7, <1>8

(* The containers around the innermost keep their calls, which follow at   *)
(* other positions.                                                        *)
OuterFacts(e, ws, calls, t, s) ==
    LET n == Len(ws) IN
    /\ n \in Nat \ {0} /\ Last(ws) = ws[n] /\ n \in 1..n /\ 1 \in 1..n
    /\ e[n + 1] = 0 /\ e[1] = Len(calls) + 1
    /\ Part(ws[n], calls, 0, e[n])
    /\ \A k \in 1..n : /\ e[k] \in Nat \ {0} /\ e[k] <= Len(calls) + 1
                       /\ e[k] + s \in 0..(Len(t) + 1)
    /\ \A k \in 1..(n - 1) :
          /\ k \in 1..n /\ k + 1 \in 1..n
          /\ e[k + 1] + s < e[k] + s
          /\ Part(ws[k], t, e[k + 1] + s, e[k] + s)
    /\ \A k \in 2..n : k \in 1..n /\ (e[k] >= 2 => t[e[k] + s].do = "end_container")
    /\ \A k \in 2..(n - 1) : e[k] >= 2

LEMMA OuterKept ==
    ASSUME NEW e, NEW ws \in Seq(Decls), NEW calls \in Seq(CallType),
           NEW t \in Seq(CallType), ws # <<>>, Parted(e, ws, calls),
           NEW s \in Int, s >= -1, Len(t) = Len(calls) + s,
           \A j \in 2..Len(calls) : t[j + s] = calls[j]
    PROVE  OuterFacts(e, ws, calls, t, s)
<1> DEFINE n == Len(ws)
           l == Len(calls)
<1>1. n \in Nat \ {0} /\ Last(ws) = ws[n] /\ l \in Nat /\ Len(t) = l + s
  BY LastFacts
<1>2. /\ e \in [1..(n + 1) -> 0..(l + 1)] /\ e[n + 1] = 0 /\ e[1] = l + 1
      /\ \A k \in 1..n : e[k + 1] < e[k] /\ Part(ws[k], calls, e[k + 1], e[k])
      /\ \A k \in 2..n : calls[e[k]].do = "end_container"
  BY DEF Parted
<1>3. \A j \in 2..l : t[j + s] = calls[j]
  OBVIOUS
<1> HIDE DEF n, l
<1>4. /\ \A k \in 1..n : k \in 1..(n + 1) /\ k + 1 \in 1..(n + 1)
      /\ \A k \in 1..(n - 1) : k \in 1..n /\ k + 1 \in 1..n
      /\ \A k \in 2..n : k \in 1..n
      /\ \A k \in 2..(n - 1) : k \in 1..(n - 1)
      /\ n \in 1..n /\ 1 \in 1..n
  BY <1>1
<1>5. ASSUME NEW k \in 1..n
      PROVE  e[k] \in Nat \ {0} /\ e[k] <= l + 1 /\ e[k] + s \in 0..(Len(t) + 1)
  <2>1. e[k] \in 0..(l + 1) /\ e[k + 1] \in 0..(l + 1) /\ e[k + 1] < e[k]
    BY <1>2, <1>4
  <2>2. \A x, y \in 0..(l + 1) :
           y < x => x \in Nat \ {0} /\ x <= l + 1 /\ x + s \in 0..(l + s + 1)
    BY <1>1
  <2>3. e[k] \in Nat \ {0} /\ e[k] <= l + 1 /\ e[k] + s \in 0..(l + s + 1)
    BY <2>1, <2>2
  <2> QED
    BY <1>1, <2>3
<1>6. ASSUME NEW k \in 1..(n - 1)
      PROVE  /\ e[k + 1] + s < e[k] + s /\ e[k] >= 2
             /\ Part(ws[k], t, e[k + 1] + s, e[k] + s)
  <2>1. k \in 1..n /\ k + 1 \in 1..n
    BY <1>4
  <2>2. /\ e[k] \in Nat \ {0} /\ e[k + 1] \in Nat \ {0} /\ e[k + 1] < e[k] /\ e[k] <= l + 1
        /\ Part(ws[k], calls, e[k + 1], e[k])
    BY <1>2, <1>5, <2>1
  <2>3. \A x, y \in Nat \ {0} : x <= l + 1 =>
           /\ \A j \in (y + 1)..(x - 1) : j \in 2..l
           /\ y < x => y + s < x + s /\ x >= 2
    BY <1>1
  <2>10. \A j \in (e[k + 1] + 1)..(e[k] - 1) : j \in 2..l
    BY <2>2, <2>3
  <2>11. e[k + 1] + s < e[k] + s /\ e[k] >= 2
    BY <2>2, <2>3
  <2>4. \A j \in (e[k + 1] + 1)..(e[k] - 1) : t[j + s] = calls[j]
    BY <1>3, <2>10
  <2>5. Kind(ws[k]) = "record" => e[k] = e[k + 1] + 1
    BY <2>2, PartOuter
  <2>6. Part(ws[k], t, e[k + 1] + s, e[k] + s)
    <3>1. e[k + 1] \in Int /\ e[k] \in Int /\ s \in Int
      BY <2>2
    <3> QED
      BY <2>2, <2>4, <2>5, <3>1, PartMoved
  <2> QED
    BY <2>6, <2>11
<1>7. ASSUME NEW k \in 2..n, e[k] >= 2
      PROVE  t[e[k] + s].do = "end_container"
  <2>1. k \in 1..n /\ k # 1
    BY <1>1
  <2>2. e[k] <= l
    <3>1. k - 1 \in 1..n /\ (k - 1) + 1 = k
      BY <1>1
    <3>2. e[k] < e[k - 1] /\ e[k - 1] <= l + 1 /\ e[k] \in Nat /\ e[k - 1] \in Nat
      BY <1>2, <1>5, <2>1, <3>1
    <3> QED
      BY <1>1, <3>2
  <2>3. e[k] \in 2..l
    BY <1>1, <1>5, <1>7, <2>1, <2>2
  <2>4. t[e[k] + s] = calls[e[k]]
    BY <1>3, <2>3
  <2> QED
    BY <1>2, <2>4
<1>8. Part(ws[n], calls, 0, e[n])
  BY <1>2, <1>4
<1> QED
  BY <1>1, <1>2, <1>4, <1>5, <1>6, <1>7, <1>8 DEF OuterFacts, n, l

(* The next call is made and neither opens nor ends a container.           *)
Made(e, n) == [k \in 1..(n + 1) |-> IF k <= n THEN e[k] - 1 ELSE 0]

LEMMA PartedMade ==
    ASSUME NEW e, NEW ws \in Seq(Decls), NEW calls \in Seq(CallType),
           ws # <<>>, calls # <<>>, Parted(e, ws, calls),
           e[Len(ws)] >= 2, Kind(Last(ws)) = "record" => e[Len(ws)] = 2
    PROVE  LET n == Len(ws)
               f == Made(e, n)
           IN  /\ Parted(f, ws, Tail(calls))
               /\ \A k \in 1..(n - 1) : f[k] - f[k + 1] - 1 = e[k] - e[k + 1] - 1
               /\ f[n] - f[n + 1] - 1 = (e[n] - e[n + 1] - 1) - 1
<1> DEFINE n == Len(ws)
           l == Len(calls)
           t == Tail(calls)
           f == Made(e, n)
           s == -1
<1>0. s \in Int /\ s >= -1 /\ \A x \in Int : x + s = x - 1
  OBVIOUS
<1> HIDE DEF s
<1>1. /\ l \in Nat \ {0} /\ t \in Seq(CallType) /\ Len(t) = l - 1
      /\ \A j \in 1..(l - 1) : t[j] = calls[j + 1]
  BY TailFacts
<1> HIDE DEF t
<1>2. Len(t) = l + s /\ \A j \in 2..l : t[j + s] = calls[j]
  <2>1. Len(t) = l + s
    BY <1>0, <1>1
  <2>2. ASSUME NEW j \in 2..l PROVE t[j + s] = calls[j]
    <3>1. j + s = j - 1 /\ j - 1 \in 1..(l - 1) /\ (j - 1) + 1 = j
      BY <1>0, <1>1
    <3> QED
      BY <1>1, <3>1
  <2> QED
    BY <2>1, <2>2
<1>3. /\ n \in Nat \ {0} /\ Last(ws) = ws[n] /\ n \in 1..n /\ 1 \in 1..n
      /\ e[n + 1] = 0 /\ e[1] = l + 1
      /\ Part(ws[n], calls, 0, e[n])
      /\ \A k \in 1..n : /\ e[k] \in Nat \ {0} /\ e[k] <= l + 1
                         /\ e[k] + s \in 0..(Len(t) + 1)
      /\ \A k \in 1..(n - 1) :
            /\ k \in 1..n /\ k + 1 \in 1..n
            /\ e[k + 1] + s < e[k] + s
            /\ Part(ws[k], t, e[k + 1] + s, e[k] + s)
      /\ \A k \in 2..n : k \in 1..n /\ (e[k] >= 2 => t[e[k] + s].do = "end_container")
      /\ \A k \in 2..(n - 1) : e[k] >= 2
  <2>1. OuterFacts(e, ws, calls, t, s)
    BY <1>0, <1>1, <1>2, OuterKept
  <2> QED
    BY <2>1 DEF OuterFacts
<1>4. e[n] >= 2 /\ (Kind(ws[n]) = "record" => e[n] = 2)
  BY <1>3
<1> HIDE DEF n, l, t
<1>5. f[n + 1] = 0 /\ \A k \in 1..n : f[k] = e[k] - 1
  <2>1. n + 1 \in 1..(n + 1) /\ ~(n + 1 <= n) /\ \A k \in 1..n : k \in 1..(n + 1) /\ k <= n
    BY <1>3
  <2> QED
    BY <2>1 DEF Made
<1>6. f \in [1..(n + 1) -> 0..(Len(t) + 1)]
  <2>1. \A k \in 1..(n + 1) : k = n + 1 \/ k \in 1..n
    BY <1>3
  <2>2. 0 \in 0..(Len(t) + 1)
    BY <1>1
  <2>3. \A k \in 1..n : f[k] \in 0..(Len(t) + 1)
    <3>1. ASSUME NEW k \in 1..n PROVE f[k] \in 0..(Len(t) + 1)
      <4>1. f[k] = e[k] - 1 /\ e[k] \in Int /\ e[k] + s \in 0..(Len(t) + 1)
        BY <1>3, <1>5
      <4>2. e[k] + s = e[k] - 1
        BY <1>0, <4>1
      <4> QED
        BY <4>1, <4>2
    <3> QED
      BY <3>1
  <2>4. \A k \in 1..(n + 1) : f[k] \in 0..(Len(t) + 1)
    BY <1>5, <2>1, <2>2, <2>3
  <2>5. f = [k \in 1..(n + 1) |-> f[k]]
    BY DEF Made
  <2> HIDE DEF f
  <2> QED
    BY <2>4, <2>5
<1> HIDE DEF f
<1>7. f[1] = Len(t) + 1
  BY <1>1, <1>3, <1>5
(* The innermost container has lost its call.                              *)
<1>8. f[n + 1] < f[n] /\ Part(ws[n], t, f[n + 1], f[n])
  <2>1. f[n] = e[n] - 1 /\ e[n] \in Nat /\ e[n] <= l + 1
    BY <1>3, <1>5
  <2>2. CASE Kind(ws[n]) = "record"
    BY <1>4, <1>5, <2>1, <2>2 DEF Part
  <2>3. CASE Kind(ws[n]) # "record"
    <3>1. Part(ws[n], calls, 1, e[n])
      BY <1>3, <2>1, <2>3, PartLess
    <3>2. \A j \in (1 + 1)..(e[n] - 1) : t[j + s] = calls[j]
      <4>1. \A j \in (1 + 1)..(e[n] - 1) : j \in 2..l
        BY <1>1, <2>1
      <4> QED
        BY <1>2, <4>1
    <3>3. Part(ws[n], t, 1 + s, e[n] + s)
      <4>1. 1 \in Int /\ e[n] \in Int
        BY <2>1
      <4> QED
        BY <1>0, <2>3, <3>1, <3>2, <4>1, PartMoved
    <3>4. 1 + s = 0 /\ e[n] + s = f[n]
      BY <1>0, <2>1
    <3> QED
      BY <1>4, <1>5, <2>1, <3>3, <3>4
  <2> QED
    BY <2>2, <2>3
<1>9. ASSUME NEW k \in 1..(n - 1)
      PROVE  /\ f[k + 1] < f[k] /\ Part(ws[k], t, f[k + 1], f[k])
             /\ f[k] - f[k + 1] - 1 = e[k] - e[k + 1] - 1
  <2>1. /\ f[k] = e[k] - 1 /\ f[k + 1] = e[k + 1] - 1 /\ e[k] \in Nat /\ e[k + 1] \in Nat
        /\ e[k + 1] + s < e[k] + s
        /\ Part(ws[k], t, e[k + 1] + s, e[k] + s)
    BY <1>3, <1>5
  <2>2. f[k] = e[k] + s /\ f[k + 1] = e[k + 1] + s
    BY <1>0, <2>1
  <2> QED
    BY <2>1, <2>2
<1>10. \A k \in 1..n : f[k + 1] < f[k] /\ Part(ws[k], t, f[k + 1], f[k])
  <2>1. \A k \in 1..n : k = n \/ k \in 1..(n - 1)
    BY <1>3
  <2> QED
    BY <1>8, <1>9, <2>1
<1>11. ASSUME NEW k \in 2..n PROVE t[f[k]].do = "end_container"
  <2>1. e[k] >= 2 /\ e[k] \in Nat /\ f[k] = e[k] - 1
    <3>1. k = n \/ k \in 2..(n - 1)
      BY <1>3
    <3>2. k \in 1..n
      BY <1>3
    <3> QED
      BY <1>3, <1>4, <1>5, <3>1, <3>2
  <2>2. f[k] = e[k] + s
    BY <1>0, <2>1
  <2> QED
    BY <1>3, <2>1, <2>2
<1>12. Parted(f, ws, t)
  BY <1>5, <1>6, <1>7, <1>10, <1>11 DEF Parted, n
<1>13. f[n] - f[n + 1] - 1 = (e[n] - e[n + 1] - 1) - 1
  BY <1>3, <1>5
<1> QED
  BY <1>9, <1>12, <1>13 DEF f, n, t

(* The innermost container has ended.                                      *)
Popped(e, n) == [k \in 1..n |-> e[k] - 1]

LEMMA PartedPopped ==
    ASSUME NEW e, NEW ws \in Seq(Decls), NEW calls \in Seq(CallType),
           ws # <<>>, calls # <<>>, Parted(e, ws, calls), Len(ws) > 1, e[Len(ws)] = 1
    PROVE  LET n == Len(ws)
               f == Popped(e, n)
           IN  /\ Parted(f, Front(ws), Tail(calls))
               /\ \A k \in 1..(n - 1) : f[k] - f[k + 1] - 1 = e[k] - e[k + 1] - 1
<1> DEFINE n == Len(ws)
           l == Len(calls)
           t == Tail(calls)
           us == Front(ws)
           f == Popped(e, n)
           s == -1
<1>0. s \in Int /\ s >= -1 /\ \A x \in Int : x + s = x - 1
  OBVIOUS
<1> HIDE DEF s
<1>1. /\ l \in Nat \ {0} /\ t \in Seq(CallType) /\ Len(t) = l - 1
      /\ \A j \in 1..(l - 1) : t[j] = calls[j + 1]
  BY TailFacts
<1>2. us \in Seq(Decls) /\ Len(us) = n - 1 /\ \A k \in 1..(n - 1) : us[k] = ws[k]
  BY FrontFacts
<1> HIDE DEF t, us
<1>3. OuterFacts(e, ws, calls, t, s)
  <2>1. Len(t) = l + s
    BY <1>0, <1>1
  <2>2. ASSUME NEW j \in 2..l PROVE t[j + s] = calls[j]
    <3>1. j + s = j - 1 /\ j - 1 \in 1..(l - 1) /\ (j - 1) + 1 = j
      BY <1>0, <1>1
    <3> QED
      BY <1>1, <3>1
  <2> QED
    BY <1>0, <1>1, <2>1, <2>2, OuterKept
<1>4. /\ n \in Nat \ {0} /\ n \in 1..n /\ 1 \in 1..n
      /\ e[1] = l + 1
      /\ \A k \in 1..n : e[k] \in Nat \ {0} /\ e[k] + s \in 0..(Len(t) + 1)
      /\ \A k \in 1..(n - 1) :
            /\ k \in 1..n /\ k + 1 \in 1..n
            /\ e[k + 1] + s < e[k] + s
            /\ Part(ws[k], t, e[k + 1] + s, e[k] + s)
      /\ \A k \in 2..n : k \in 1..n /\ (e[k] >= 2 => t[e[k] + s].do = "end_container")
      /\ \A k \in 2..(n - 1) : e[k] >= 2
  BY <1>3 DEF OuterFacts
<1>5. e[n] = 1 /\ n > 1
  OBVIOUS
<1> HIDE DEF n, l
<1>6. \A k \in 1..n : f[k] = e[k] - 1 /\ e[k] + s = e[k] - 1
  BY <1>0, <1>4 DEF Popped
<1>7. f \in [1..n -> 0..(Len(t) + 1)]
  <2> DEFINE S == 0..(Len(t) + 1)
  <2>1. f = [k \in 1..n |-> f[k]]
    BY DEF Popped
  <2>2. ASSUME NEW k \in 1..n PROVE f[k] \in S
    <3>1. f[k] = e[k] + s
      BY <1>6
    <3>2. e[k] + s \in S
      BY <1>4
    <3> QED
      BY <3>1, <3>2
  <2> HIDE DEF f, S
  <2>3. f \in [1..n -> S]
    BY <2>1, <2>2
  <2> QED
    BY <2>3 DEF S
<1> HIDE DEF f
<1>8. f[1] = Len(t) + 1 /\ f[n] = 0
  BY <1>1, <1>4, <1>5, <1>6
<1>9. ASSUME NEW k \in 1..(n - 1)
      PROVE  /\ f[k + 1] < f[k] /\ Part(us[k], t, f[k + 1], f[k])
             /\ f[k] - f[k + 1] - 1 = e[k] - e[k + 1] - 1
  <2>1. /\ f[k] = e[k] + s /\ f[k + 1] = e[k + 1] + s
        /\ f[k] = e[k] - 1 /\ f[k + 1] = e[k + 1] - 1
        /\ e[k] \in Nat /\ e[k + 1] \in Nat
        /\ e[k + 1] + s < e[k] + s
        /\ Part(ws[k], t, e[k + 1] + s, e[k] + s)
    BY <1>4, <1>6
  <2>2. us[k] = ws[k]
    BY <1>2
  <2>3. f[k] - f[k + 1] - 1 = e[k] - e[k + 1] - 1
    BY <2>1
  <2> QED
    BY <2>1, <2>2, <2>3
<1>10. \A k \in 2..(n - 1) : t[f[k]].do = "end_container"
  <2>1. ASSUME NEW k \in 2..(n - 1) PROVE t[f[k]].do = "end_container"
    <3>1. k \in 2..n /\ k \in 1..n
      BY <1>4
    <3>2. t[e[k] + s].do = "end_container"
      BY <1>4, <3>1
    <3>3. f[k] = e[k] + s
      BY <1>6, <3>1
    <3> QED
      BY <3>2, <3>3
  <2> QED
    BY <2>1
<1>11. Parted(f, us, t)
  <2> DEFINE i == n - 1
  <2>1. Len(us) = i /\ i + 1 = n
    BY <1>2, <1>4
  <2> HIDE DEF i
  <2>2. /\ \A k \in 1..i : f[k + 1] < f[k] /\ Part(us[k], t, f[k + 1], f[k])
        /\ \A k \in 2..i : t[f[k]].do = "end_container"
    BY <1>9, <1>10 DEF i
  <2> QED
    BY <1>7, <1>8, <2>1, <2>2 DEF Parted
<1> QED
  BY <1>9, <1>11 DEF f, n, t, us

(* A container is started within the innermost one: its calls are those up *)
(* to p, the others move by s.                                             *)
Pushed(e, n, s, p) ==
    [k \in 1..(n + 2) |-> IF k <= n THEN e[k] + s ELSE IF k = n + 1 THEN p ELSE 0]

PushedFacts(e, ws, d, t, s, p) ==
    LET n == Len(ws)
        f == Pushed(e, n, s, p)
    IN  /\ Parted(f, Append(ws, d), t)
        /\ \A k \in 1..(n - 1) : f[k] - f[k + 1] - 1 = e[k] - e[k + 1] - 1
        /\ f[n] - f[n + 1] - 1 = e[n] + s - p - 1
        /\ f[n + 1] - f[n + 2] - 1 = p - 1

LEMMA PartedPushed ==
    ASSUME NEW e, NEW ws \in Seq(Decls), NEW calls \in Seq(CallType),
           NEW t \in Seq(CallType), ws # <<>>, Parted(e, ws, calls),
           NEW s \in Int, s >= -1, Len(t) = Len(calls) + s,
           \A j \in 2..Len(calls) : t[j + s] = calls[j],
           NEW d \in Decls, NEW p \in Nat \ {0}, e[Len(ws)] >= 2,
           p < e[Len(ws)] + s, Part(Last(ws), t, p, e[Len(ws)] + s),
           Part(d, t, 0, p), t[p].do = "end_container"
    PROVE  PushedFacts(e, ws, d, t, s, p)
<1> DEFINE n == Len(ws)
           l == Len(calls)
           us == Append(ws, d)
           f == Pushed(e, n, s, p)
<1>1. l \in Nat /\ Len(t) = l + s
  OBVIOUS
<1>2. us \in Seq(Decls) /\ Len(us) = n + 1 /\ us[n + 1] = d
      /\ \A k \in 1..n : us[k] = ws[k]
  BY AppendProperties
<1> HIDE DEF us
<1>3. OuterFacts(e, ws, calls, t, s)
  BY OuterKept
<1>4. /\ n \in Nat \ {0} /\ n \in 1..n /\ 1 \in 1..n /\ Last(ws) = ws[n]
      /\ e[1] = l + 1
      /\ \A k \in 1..n : e[k] \in Nat \ {0} /\ e[k] + s \in 0..(Len(t) + 1)
      /\ \A k \in 1..(n - 1) :
            /\ k \in 1..n /\ k + 1 \in 1..n
            /\ e[k + 1] + s < e[k] + s
            /\ Part(ws[k], t, e[k + 1] + s, e[k] + s)
      /\ \A k \in 2..n : k \in 1..n /\ (e[k] >= 2 => t[e[k] + s].do = "end_container")
      /\ \A k \in 2..(n - 1) : e[k] >= 2
  BY <1>3 DEF OuterFacts
<1>5. e[n] >= 2 /\ p < e[n] + s /\ Part(ws[n], t, p, e[n] + s)
  BY <1>4
<1> HIDE DEF n, l
<1>6. /\ f[n + 2] = 0 /\ f[n + 1] = p
      /\ \A k \in 1..n : f[k] = e[k] + s
  <2>1. /\ n + 2 \in 1..(n + 2) /\ ~(n + 2 <= n) /\ n + 2 # n + 1
        /\ n + 1 \in 1..(n + 2) /\ ~(n + 1 <= n)
        /\ \A k \in 1..n : k \in 1..(n + 2) /\ k <= n
    BY <1>4
  <2> QED
    BY <2>1 DEF Pushed
<1>7. f \in [1..(n + 2) -> 0..(Len(t) + 1)]
  <2>1. f = [k \in 1..(n + 2) |-> f[k]]
    BY DEF Pushed
  <2>2. \A k \in 1..n : f[k] \in 0..(Len(t) + 1)
    BY <1>4, <1>6
  <2>3. p \in 0..(Len(t) + 1) /\ 0 \in 0..(Len(t) + 1)
    <3>1. e[n] + s \in 0..(Len(t) + 1) /\ p < e[n] + s
      BY <1>4, <1>5
    <3>2. \A x \in 0..(Len(t) + 1) : p < x => p \in 0..(Len(t) + 1) /\ 0 \in 0..(Len(t) + 1)
      BY <1>1
    <3> QED
      BY <3>1, <3>2
  <2>4. \A k \in 1..(n + 2) : k \in 1..n \/ k = n + 1 \/ k = n + 2
    BY <1>4
  <2>5. \A k \in 1..(n + 2) : f[k] \in 0..(Len(t) + 1)
    BY <1>6, <2>2, <2>3, <2>4
  <2> HIDE DEF f
  <2> QED
    BY <2>1, <2>5
<1> HIDE DEF f
<1>8. f[1] = Len(t) + 1
  BY <1>1, <1>4, <1>6
<1>9. ASSUME NEW k \in 1..(n - 1)
      PROVE  /\ f[k + 1] < f[k] /\ Part(us[k], t, f[k + 1], f[k])
             /\ f[k] - f[k + 1] - 1 = e[k] - e[k + 1] - 1
  <2>1. /\ f[k] = e[k] + s /\ f[k + 1] = e[k + 1] + s
        /\ e[k] \in Nat /\ e[k + 1] \in Nat
        /\ e[k + 1] + s < e[k] + s
        /\ Part(ws[k], t, e[k + 1] + s, e[k] + s)
        /\ k \in 1..n
    BY <1>4, <1>6
  <2>2. us[k] = ws[k]
    BY <1>2, <2>1
  <2>3. f[k] - f[k + 1] - 1 = e[k] - e[k + 1] - 1
    BY <2>1
  <2> QED
    BY <2>1, <2>2, <2>3
<1>10. f[n + 1] < f[n] /\ Part(us[n], t, f[n + 1], f[n])
  <2>1. us[n] = ws[n] /\ f[n] = e[n] + s
    BY <1>2, <1>4, <1>6
  <2> QED
    BY <1>5, <1>6, <2>1
<1>11. f[n + 2] < f[n + 1] /\ Part(us[n + 1], t, f[n + 2], f[n + 1])
  BY <1>2, <1>6
<1>12. \A k \in 1..(n + 1) : f[k + 1] < f[k] /\ Part(us[k], t, f[k + 1], f[k])
  <2>1. ASSUME NEW k \in 1..(n + 1)
        PROVE  f[k + 1] < f[k] /\ Part(us[k], t, f[k + 1], f[k])
    <3>1. k \in 1..(n - 1) \/ k = n \/ k = n + 1
      BY <1>4
    <3>2. (n + 1) + 1 = n + 2
      BY <1>4
    <3>3. CASE k \in 1..(n - 1)
      BY <1>9, <3>3
    <3>4. CASE k = n
      BY <1>10, <3>4
    <3>5. CASE k = n + 1
      BY <1>11, <3>2, <3>5
    <3> QED
      BY <3>1, <3>3, <3>4, <3>5
  <2> QED
    BY <2>1
<1>13. \A k \in 2..(n + 1) : t[f[k]].do = "end_container"
  <2>1. ASSUME NEW k \in 2..(n + 1) PROVE t[f[k]].do = "end_container"
    <3>1. k = n + 1 \/ (k \in 2..n /\ (k = n \/ k \in 2..(n - 1)))
      BY <1>4
    <3>2. CASE k = n + 1
      BY <1>6, <3>2
    <3>3. CASE k \in 2..n
      <4>1. e[k] >= 2 /\ k \in 1..n
        BY <1>4, <1>5, <3>1, <3>3
      <4> QED
        BY <1>4, <1>6, <3>3, <4>1
    <3> QED
      BY <3>1, <3>2, <3>3
  <2> QED
    BY <2>1
<1>14. Parted(f, us, t)
  <2>1. Len(us) + 1 = n + 2
    BY <1>2, <1>4
  <2> QED
    BY <1>2, <1>6, <1>7, <1>8, <1>12, <1>13, <2>1 DEF Parted
<1>15. f[n] - f[n + 1] - 1 = e[n] + s - p - 1 /\ f[n + 1] - f[n + 2] - 1 = p - 1
  <2>1. f[n] = e[n] + s /\ f[n + 1] = p /\ f[n + 2] = 0 /\ e[n] \in Nat
    BY <1>4, <1>6
  <2>2. p - 0 - 1 = p - 1
    OBVIOUS
  <2>3. f[n] - f[n + 1] - 1 = e[n] + s - p - 1
    BY <2>1
  <2>4. f[n + 1] - f[n + 2] - 1 = p - 1
    BY <2>1, <2>2
  <2> QED
    BY <2>3, <2>4
<1> QED
  BY <1>9, <1>14, <1>15 DEF PushedFacts, f, n, us

-----------------------------------------------------------------------------
(* Who reads what is written.                                              *)

(* What a serializer makes a node for has the id that it is read with.     *)
LEMMA FirstFacts ==
    ASSUME NEW d \in Decls, Kind(d) # "only"
    PROVE  /\ Matches(d, Node(d, First(d)))
           /\ First(d) \in WrittenIds(d) /\ First(d) \in Int
<1>1. Kind(d) = Decl[d].kind
  BY DeclAssumption DEF Kind
<1>2. Decl[d].ids \in Seq(Int) /\ Decl[d].ids # <<>>
  BY <1>1, WrittenAssumption
<1>3. Len(Decl[d].ids) \in Nat \ {0} /\ Head(Decl[d].ids) = Decl[d].ids[1]
      /\ Decl[d].ids[1] \in Int
  BY <1>2, TailFacts
<1>4. 1 \in DOMAIN Decl[d].ids
  BY <1>2, <1>3
<1>5. First(d) \in ToSet(Decl[d].ids)
  BY <1>3, <1>4 DEF First, ToSet
<1>6. Node(d, First(d)).id = First(d) /\ Node(d, First(d)).cont = (Kind(d) # "value")
  BY DEF Node
<1> QED
  BY <1>1, <1>3, <1>5, <1>6 DEF Matches, WrittenIds, First

(* A member that another declaration reads has an earlier one that the     *)
(* same node matches.                                                      *)
LEMMA ReadByAnother ==
    ASSUME NEW w \in Decls, Kind(w) \notin {"record", "value"},
           NEW j \in DOMAIN Decl[w].members, NEW id, id \in WrittenIds(Decl[w].members[j]),
           Matches(Decl[w].members[j], Node(Decl[w].members[j], id)),
           Found(w, Node(Decl[w].members[j], id)) # Decl[w].members[j]
    PROVE  Ambiguous(w)
<1> DEFINE members == Decl[w].members
           node == Node(members[j], id)
           R == Matching(w, node)
           i == Min(R)
<1>1. w # Null /\ Kind(w) = Decl[w].kind /\ Kind(w) \in Kinds
  BY DeclAssumption DEF Kind
<1>2. members \in Seq({m \in Decls : Decl[m].kind # "only"})
  BY <1>1, DeclAssumption
<1>3. R = {k \in DOMAIN members : Matches(members[k], node)}
  BY <1>1 DEF Matching
<1>4. j \in R /\ R \in SUBSET Nat
  BY <1>2, <1>3
<1>5. i \in R /\ \A k \in R : i <= k
  <2>1. PICK m \in R : \A k \in R : m <= k
    BY <1>4, MinExists
  <2> HIDE DEF R
  <2>2. \E x \in R : \A k \in R : x <= k
    BY <2>1
  <2>3. Min(R) = CHOOSE x \in R : \A k \in R : x <= k
    BY DEF Min
  <2> QED
    BY <2>2, <2>3
<1>6. Found(w, node) = members[i]
  BY <1>1, <1>4 DEF Found
<1>7. i # j
  BY <1>6
<1> HIDE DEF i, R
<1>8. i < j /\ i \in DOMAIN members /\ Matches(members[i], node)
  <2>1. i <= j /\ i \in Nat /\ j \in Nat
    BY <1>4, <1>5
  <2> QED
    BY <1>3, <1>5, <1>7, <2>1
<1>9. Kind(w) = "struct"
  <2>1. CASE Kind(w) \in {"seq", "array", "wrap", "only"}
    <3>1. Len(members) = 1
      BY <1>1, <2>1, WrittenAssumption
    <3>2. i \in 1..1 /\ j \in 1..1
      BY <1>2, <1>8, <3>1
    <3> QED
      BY <1>7, <3>2
  <2> QED
    BY <1>1, <2>1 DEF Kinds
<1> QED
  BY <1>8, <1>9 DEF Ambiguous

(* InPlace, of sequences.                                                  *)
LEMMA AlignedFacts ==
    ASSUME NEW ws \in Seq(Decls), NEW os \in Seq(OpenType)
    PROVE  ws = [i \in DOMAIN os |-> os[i].decl] <=> Aligned(ws, os)
<1> DEFINE r == [i \in 1..Len(os) |-> os[i].decl]
<1>1. Len(os) \in Nat /\ DOMAIN os = 1..Len(os)
  BY LenProperties
<1>2. \A i \in 1..Len(os) : os[i].decl \in Decls \cup {Null}
  <2>1. \A i \in 1..Len(os) : os[i] \in OpenType
    OBVIOUS
  <2> QED
    BY <2>1, OpenFields
<1>3. r \in Seq(Decls \cup {Null}) /\ Len(r) = Len(os)
  BY <1>1, <1>2
<1>4. ws \in Seq(Decls \cup {Null})
  OBVIOUS
<1>5. \A i \in 1..Len(os) : r[i] = os[i].decl
  OBVIOUS
<1> HIDE DEF r
<1>6. ws = r => Aligned(ws, os)
  BY <1>3, <1>5 DEF Aligned
<1>7. Aligned(ws, os) => ws = r
  <2>1. ASSUME Aligned(ws, os) PROVE ws = r
    <3>1. Len(ws) = Len(r) /\ \A i \in 1..Len(ws) : ws[i] = r[i]
      BY <1>3, <1>5, <2>1 DEF Aligned
    <3> QED
      BY <1>3, <1>4, <3>1, SeqEqual
  <2> QED
    BY <2>1
<1> QED
  BY <1>1, <1>6, <1>7 DEF r

(* What a declaration is written as is read by it, or a part of it is      *)
(* ambiguous.                                                              *)
LEMMA ReaderFacts ==
    ASSUME DInv, Live, NEW d, NEW node, NoteReader(d, node),
           writers \in Seq(Decls), writers # <<>>,
           ~lossy', ~lossy' => ~lossy, ~lossy => \A u \in misread : Ambiguous(u),
           Found(Last(writers), node) # d => Ambiguous(Last(writers))
    PROVE  /\ \A u \in misread' : Ambiguous(u)
           /\ misread' = {} =>
                 /\ misread = {}
                 /\ Aligned(writers, open) => Found(Handler.decl, node) = d
<1>1. misread' = IF InPlace /\ Found(Handler.decl, node) # d
                 THEN misread \cup {Last(writers)} ELSE misread
  BY DEF NoteReader
<1>2. /\ Last(open).decl = Handler.decl /\ open \in Seq(OpenType) /\ open # <<>>
  BY LiveFacts
<1>3. InPlace <=> Aligned(writers, open)
  BY <1>2, AlignedFacts DEF InPlace
<1>4. Aligned(writers, open) => Handler.decl = Last(writers)
  <2>1. Len(open) \in 1..Len(open) /\ Last(open) = open[Len(open)]
    BY <1>2, LastFacts
  <2> QED
    BY <1>2, <2>1 DEF Aligned, Last
<1> QED
  BY <1>1, <1>3, <1>4

(* A declaration that still requires what it is sent does not refuse it.   *)
LEMMA Welcome ==
    ASSUME DInv, Live, NEW node, Found(Handler.decl, node) # Null,
           ~Last(open).foreign, NEW r \in Nat \ {0},
           Due(Last(open).decl, Last(open).found, r)
    PROVE  ~Refuses(Handler, node) /\ ~SubmitThrows(levels)
<1> DEFINE h == Handler
           o == Last(open)
           count == Decl[h.decl].count
<1>1. /\ h \in LevelType /\ o \in OpenType /\ o.decl = h.decl
      /\ h.decl \in Decls \cup {Null}
      /\ Kind(h.decl) \notin {"null", "record"} => ItemsCounted(h, o, TRUE)
      /\ levels \in Seq(LevelType) /\ levels # <<>>
  BY LiveFacts
<1>2. h = Last(levels)
  BY DEF Handler
<1>3. o.found \in Nat /\ h.offs \in Nat
  BY <1>1, OpenFields, LevelFields
<1>4. Due(h.decl, o.found, r)
  BY <1>1
<1> HIDE DEF h, o
<1>5. Kind(h.decl) = "wrap" => ~h.found
  <2>1. Kind(h.decl) = "wrap" => o.found + r = 1
    BY <1>4 DEF Due
  <2>2. Kind(h.decl) = "wrap" => o.found = 0
    BY <1>3, <2>1
  <2> QED
    BY <1>1, <2>2 DEF ItemsCounted
<1>6. Kind(h.decl) = "array" => h.offs < count
  <2>1. Kind(h.decl) = "array" => o.found + r <= count /\ count \in Nat
    BY <1>1, <1>4, DeclFields DEF Due
  <2>2. Kind(h.decl) = "array" => o.found < count
    BY <1>3, <2>1
  <2>3. Kind(h.decl) = "array" =>
           h.offs = IF o.found <= count THEN o.found ELSE count
    BY <1>1 DEF ItemsCounted, Ended, o
  <2> QED
    BY <1>3, <2>1, <2>2, <2>3
<1>7. ~SubmitThrows(levels)
  <2>1. Kind(h.decl) = "array" => count \in Nat
    BY <1>1, DeclFields
  <2>2. ~(Kind(h.decl) = "array" /\ h.offs >= count)
    BY <1>3, <1>6, <2>1
  <2> QED
    BY <1>2, <2>2 DEF SubmitThrows, Overflows
<1> QED
  BY <1>5, <1>7 DEF Refuses, h

-----------------------------------------------------------------------------
(* What the sink does with what is written.                                *)

(* The containers that were open, the innermost with one child more.       *)
Grown(os, ps) ==
    LET n == Len(os) IN
    /\ \A i \in 1..n : ps[i].foreign = os[i].foreign
    /\ \A i \in 1..(n - 1) : ps[i].found = os[i].found
    /\ ps[n].found = os[n].found + 1

LEMMA NotedEffect ==
    ASSUME DInv, Live, NEW node, node.cont \in BOOLEAN
    PROVE  LET t == Noted(node)
               n == Len(open)
           IN  /\ open \in Seq(OpenType) /\ n \in Nat \ {0}
               /\ t \in Seq(OpenType) /\ Len(t) = n
               /\ \A i \in 1..n : t[i].decl = open[i].decl
               /\ Found(Handler.decl, node) # Null => Grown(open, t)
<1> DEFINE t == Noted(node)
           n == Len(open)
           d == Found(Last(open).decl, node)
<1>1. /\ open \in Seq(OpenType) /\ open # <<>> /\ Last(open).decl = Handler.decl
      /\ Last(open) \in OpenType
  BY LiveFacts
<1>2. n \in Nat \ {0} /\ Last(open) = open[n]
  BY <1>1, LastFacts
<1>3. /\ t \in Seq(OpenType) /\ t # <<>> /\ SameBelow(open, t)
      /\ Last(t).decl = Last(open).decl
      /\ Last(t).found = IF d # Null THEN Last(open).found + 1 ELSE Last(open).found
      /\ Last(t).foreign = (Last(open).foreign \/ (node.cont /\ d = Null))
  BY <1>1, NotedFacts
<1>4. Last(open).foreign \in BOOLEAN
  BY <1>1, OpenFields
<1>5. d = Found(Handler.decl, node)
  BY <1>1
<1> HIDE DEF t, n, d
<1>6. Len(t) = n /\ \A i \in 1..(n - 1) : t[i] = open[i]
  BY <1>3 DEF SameBelow, n
<1>7. Last(t) = t[n]
  BY <1>6 DEF Last
<1>8. \A i \in 1..n : i = n \/ i \in 1..(n - 1)
  BY <1>2
<1>9. \A i \in 1..n : t[i].decl = open[i].decl
  BY <1>2, <1>3, <1>6, <1>7, <1>8
<1>10. ASSUME Found(Handler.decl, node) # Null PROVE Grown(open, t)
  <2>1. t[n].found = open[n].found + 1
    BY <1>2, <1>3, <1>5, <1>7, <1>10
  <2>2. t[n].foreign = open[n].foreign
    BY <1>2, <1>3, <1>4, <1>5, <1>7, <1>10
  <2> QED
    BY <1>6, <1>8, <2>1, <2>2 DEF Grown, n
<1> QED
  BY <1>1, <1>2, <1>3, <1>6, <1>9, <1>10 DEF t, n

LEMMA PushEffect ==
    ASSUME DInv, NEW node, node.cont \in BOOLEAN, PushNode(node)
    PROVE  /\ Live /\ unmet' = unmet /\ open' = Noted(node)
           /\ status' \in {"live", "refused", "thrown"}
           /\ status' = "thrown" => SubmitThrows(levels)
           /\ status' = "refused" =>
                 /\ Satisfied' /\ Len(open) = 1 /\ Kind(open[1].decl) = "only"
                 /\ open[1].found = 0
<1> DEFINE h == Handler
<1>1. /\ Live /\ unmet' = unmet /\ open' = Noted(node)
      /\ \/ levels' = levels /\ status' = "live"
         \/ Submit(levels)
         \/ levels' = Kept(levels) /\ status' = "live"
         \/ Kind(h.decl) = "only" /\ levels' = NotingFound(levels) /\ status' = "refused"
         \/ levels' = NotingFound(levels) /\ status' = "live"
  <2>1. /\ Live /\ unmet' = unmet /\ open' = Noted(node)
        /\ LET known == Found(Handler.decl, node) # Null IN
           IF ~known THEN UNCHANGED levels /\ Reply(TRUE)
           ELSE CASE Kind(Handler.decl) \in {"seq", "array"} -> Submit(levels)
                  [] Kind(Handler.decl) = "record" -> levels' = Kept(levels) /\ Reply(TRUE)
                  [] Kind(Handler.decl) = "only" ->
                        levels' = NotingFound(levels) /\ Reply(FALSE)
                  [] OTHER -> levels' = NotingFound(levels) /\ Reply(TRUE)
    BY DEF PushNode
  <2>2. Reply(TRUE) => status' = "live"
    BY DEF Reply
  <2>3. Reply(FALSE) => status' = "refused"
    BY DEF Reply
  <2> HIDE DEF h
  <2>4. CASE Found(Handler.decl, node) = Null
    BY <2>1, <2>2, <2>4
  <2>5. CASE Found(Handler.decl, node) # Null
    <3>1. CASE Kind(Handler.decl) \in {"seq", "array"}
      BY <2>1, <2>5, <3>1
    <3>2. CASE Kind(Handler.decl) = "record"
      BY <2>1, <2>2, <2>5, <3>2
    <3>3. CASE Kind(Handler.decl) = "only"
      BY <2>1, <2>3, <2>5, <3>3 DEF h
    <3>4. CASE Kind(Handler.decl) \notin {"seq", "array", "record", "only"}
      BY <2>1, <2>2, <2>5, <3>4
    <3> QED
      BY <3>1, <3>2, <3>3, <3>4
  <2> QED
    BY <2>4, <2>5
<1>2. Submit(levels) => status' \in {"live", "thrown"} /\ (status' = "thrown" => SubmitThrows(levels))
  BY DEF Submit, Throw, Reply
<1>3. ASSUME Kind(h.decl) = "only", levels' = NotingFound(levels)
      PROVE  /\ Satisfied' /\ Len(open) = 1 /\ Kind(open[1].decl) = "only"
             /\ open[1].found = 0
  <2>1. /\ Chained(levels, open) /\ levels \in Seq(LevelType) /\ levels # <<>>
        /\ h \in LevelType /\ Last(open).decl = h.decl
        /\ ItemsCounted(h, Last(open), TRUE)
    BY <1>1, <1>3, LiveFacts
  <2>2. /\ Len(levels) \in Nat \ {0} /\ Last(levels) = levels[Len(levels)]
        /\ Len(levels) = Len(open) /\ Last(open) = open[Len(open)]
    BY <1>3, <2>1, ChainedFacts DEF Handler
  <2>3. h = levels[Len(levels)] /\ Len(levels) \in 1..Len(levels)
    BY <2>2 DEF Handler
  <2>4. ~(Len(levels) > 1)
    BY <1>3, <2>1, <2>3 DEF Chained
  <2>5. Len(levels) = 1 /\ Len(open) = 1 /\ open[1].decl = h.decl /\ Last(open) = open[1]
    BY <2>1, <2>2, <2>4
  <2>6. open[1].found = 0
    BY <1>3, <2>1, <2>5 DEF ItemsCounted
  <2>7. Replaced(levels, levels',
                 [h EXCEPT !.found = @ \/ Kind(h.decl) \in {"only", "wrap"}])
    BY <1>3, <2>1, NotingFoundFacts DEF Handler
  <2> DEFINE m == [h EXCEPT !.found = @ \/ Kind(h.decl) \in {"only", "wrap"}]
  <2>8. m.decl = h.decl /\ m.found
    BY <1>3, <2>1 DEF LevelType
  <2>9. Len(levels') = 1 /\ Last(levels') = m
    BY <2>5, <2>7 DEF Replaced, SameBelow
  <2>10. levels'[1] = m
    BY <2>9 DEF Last
  <2> HIDE DEF m
  <2>11. open'[1].decl = open[1].decl
    <3>1. \A i \in 1..Len(open) : Noted(node)[i].decl = open[i].decl
      BY <1>1, NotedEffect
    <3>2. 1 \in 1..Len(open)
      BY <2>5
    <3> QED
      BY <1>1, <3>1, <3>2
  <2> QED
    BY <1>3, <2>5, <2>6, <2>8, <2>9, <2>10, <2>11 DEF Satisfied
<1> QED
  BY <1>1, <1>2, <1>3

LEMMA StartEffect ==
    ASSUME DInv, NEW node, node.cont \in BOOLEAN, StartContainer(node)
    PROVE  LET n == Len(open)
               d == Found(Handler.decl, node)
           IN  /\ Live /\ unmet' = unmet /\ status' = "live"
               /\ open' \in Seq(OpenType) /\ Len(open') = n + 1 /\ n \in Nat \ {0}
               /\ \A i \in 1..n : open'[i].decl = open[i].decl
               /\ d # Null => Grown(open, open')
               /\ open'[n + 1] = [decl |-> d, found |-> 0, foreign |-> FALSE]
<1> DEFINE n == Len(open)
           t == Noted(node)
           o == [decl |-> Found(Last(open).decl, node), found |-> 0, foreign |-> FALSE]
<1>1. /\ Live /\ unmet' = unmet /\ status' = "live"
      /\ open' = Append(t, o)
  BY DEF StartContainer, Reply
<1>2. /\ n \in Nat \ {0} /\ t \in Seq(OpenType) /\ Len(t) = n
      /\ \A i \in 1..n : t[i].decl = open[i].decl
      /\ Found(Handler.decl, node) # Null => Grown(open, t)
  BY <1>1, NotedEffect
<1>3. Last(open).decl = Handler.decl /\ Handler.decl \in Decls \cup {Null}
      /\ Kind(Handler.decl) # "value"
  BY <1>1, LiveFacts
<1>4. o \in OpenType
  BY <1>3, FoundFacts DEF OpenType
<1>5. o = [decl |-> Found(Handler.decl, node), found |-> 0, foreign |-> FALSE]
  BY <1>3
<1> HIDE DEF t, o
<1>6. /\ open' \in Seq(OpenType) /\ Len(open') = n + 1 /\ open'[n + 1] = o
      /\ \A i \in 1..n : open'[i] = t[i]
  BY <1>1, <1>2, <1>4, AppendProperties
<1>7. Grown(open, t) => Grown(open, open')
  <2>1. n \in 1..n /\ \A i \in 1..(n - 1) : i \in 1..n
    BY <1>2
  <2> QED
    BY <1>6, <2>1 DEF Grown, n
<1> QED
  BY <1>1, <1>2, <1>5, <1>6, <1>7

(* A container that has what it requires is complete when it ends.         *)
LEMMA Complete ==
    ASSUME NEW l \in LevelType, NEW o \in OpenType, o.decl = l.decl,
           Due(o.decl, o.found, 0)
    PROVE  /\ ~Unmet(o)
           /\ ItemsCounted(l, o, TRUE) /\ ~o.foreign => ~Missing(l)
<1>1. /\ l.offs \in Nat /\ o.found \in Nat /\ l.found \in BOOLEAN
      /\ o.decl \in Decls \cup {Null}
  BY LevelFields, OpenFields
<1>2. CASE Kind(o.decl) = "array"
  <2> DEFINE count == Decl[o.decl].count
  <2>1. count \in Nat
    BY <1>1, <1>2, DeclFields
  <2>2. o.found + 0 <= count /\ (Decl[o.decl].all => o.found + 0 = count)
    BY <1>2 DEF Due
  <2>3. o.found <= count /\ (Decl[o.decl].all => o.found = count)
    BY <1>1, <2>1, <2>2
  <2> HIDE DEF count
  <2>4. ~(o.found > count) /\ ~(Decl[o.decl].all /\ o.found < count)
    BY <1>1, <2>1, <2>3
  <2>5. ~Unmet(o)
    BY <1>2, <2>4 DEF Unmet, count
  <2>6. ItemsCounted(l, o, TRUE) /\ ~o.foreign =>
           l.offs = IF o.found <= count THEN o.found ELSE count
    BY <1>2 DEF ItemsCounted, Ended, count
  <2>7. ItemsCounted(l, o, TRUE) /\ ~o.foreign => ~Missing(l)
    BY <1>2, <2>3, <2>6 DEF Missing, count
  <2> QED
    BY <2>5, <2>7
<1>3. CASE Kind(o.decl) = "wrap"
  <2>1. o.found + 0 = 1
    BY <1>3 DEF Due
  <2>2. o.found = 1
    BY <1>1, <2>1
  <2>3. ItemsCounted(l, o, TRUE) => l.found
    BY <1>3, <2>2 DEF ItemsCounted
  <2> QED
    BY <1>3, <2>2, <2>3 DEF Unmet, Missing
<1>4. CASE Kind(o.decl) = "only"
  <2>1. o.found + 0 = 1
    BY <1>4 DEF Due
  <2>2. o.found # 0
    BY <1>1, <2>1
  <2> QED
    BY <1>4, <2>2 DEF Unmet, Missing
<1>5. CASE Kind(o.decl) \notin {"array", "wrap", "only"}
  BY <1>5 DEF Unmet, Missing
<1> QED
  BY <1>2, <1>3, <1>4, <1>5

(* What is left open, of which only the innermost has changed.             *)
Shrunk(os, ps) ==
    LET n == Len(os) IN
    /\ n \in Nat /\ n > 1 /\ os \in Seq(OpenType)
    /\ ps \in Seq(OpenType) /\ Len(ps) = n - 1
    /\ \A i \in 1..(n - 1) :
          /\ ps[i].decl = os[i].decl /\ ps[i].foreign = os[i].foreign
          /\ ps[i].found = os[i].found \/ Kind(os[i].decl) = "record"

(* Nothing more is required of the innermost container, and the one around *)
(* it has at most what it requires.                                        *)
Closing(os) ==
    LET n == Len(os) IN
    /\ Due(os[n].decl, os[n].found, 0)
    /\ \E r \in Nat : Due(os[n - 1].decl, os[n - 1].found, r)
    /\ ~os[n].foreign /\ ~os[n - 1].foreign

LEMMA NoteEndEffect ==
    ASSUME DInv, Live, Len(open) > 1, NoteEnd
    PROVE  /\ Shrunk(open, open')
           /\ Last(open) = open[Len(open)] /\ Last(open) \in OpenType
           /\ Last(open).decl = Handler.decl
           /\ unmet' = IF Unmet(Last(open)) THEN unmet \cup {Last(open)} ELSE unmet
<1> DEFINE n == Len(open)
<1>1. /\ open \in Seq(OpenType) /\ open # <<>> /\ \A o \in unmet : o \in OpenType
      /\ Last(open).decl = Handler.decl
  BY LiveFacts
<1>2. n \in Nat /\ n > 1 /\ Last(open) = open[n] /\ Last(open) \in OpenType
  BY <1>1, LastFacts
<1>3. /\ open' \in Seq(OpenType) /\ Len(open') = n - 1 /\ open' # <<>>
      /\ \A i \in 1..(n - 2) : open'[i] = open[i]
      /\ open'[n - 1].decl = open[n - 1].decl
      /\ open'[n - 1].foreign = open[n - 1].foreign
      /\ \/ open' = Front(open)
         \/ /\ Kind(Last(open).decl) = "record"
            /\ open[n - 1].decl = Last(open).decl
      /\ unmet' = IF Unmet(Last(open)) THEN unmet \cup {Last(open)} ELSE unmet
  BY <1>1, <1>2, NoteEndFacts
<1>4. \A i \in 1..(n - 1) : Front(open)[i] = open[i]
  BY <1>1, FrontFacts
<1> HIDE DEF n
<1>5. ASSUME NEW i \in 1..(n - 1)
      PROVE  /\ open'[i].decl = open[i].decl /\ open'[i].foreign = open[i].foreign
             /\ open'[i].found = open[i].found \/ Kind(open[i].decl) = "record"
  <2>1. i \in 1..(n - 2) \/ i = n - 1
    BY <1>2
  <2>2. CASE i \in 1..(n - 2)
    BY <1>3, <2>2
  <2>3. CASE i = n - 1
    <3>1. open'[i].decl = open[i].decl /\ open'[i].foreign = open[i].foreign
      BY <1>3, <2>3
    <3>2. open' = Front(open) => open'[i] = open[i]
      BY <1>4
    <3>3. open'[i].found = open[i].found \/ Kind(open[i].decl) = "record"
      BY <1>3, <2>3, <3>2
    <3> QED
      BY <3>1, <3>3
  <2> QED
    BY <2>1, <2>2, <2>3
<1> QED
  BY <1>1, <1>2, <1>3, <1>5 DEF Shrunk, n

LEMMA EndEffect ==
    ASSUME DInv, EndWithin \/ EndNested
    PROVE  /\ Live /\ Shrunk(open, open')
           /\ status' \in {"live", "refused", "thrown"}
           /\ status' = "refused" =>
                 /\ Satisfied' /\ Len(open) = 2 /\ Kind(open[1].decl) = "only"
                 /\ open[1].found = 1
           /\ Closing(open) => status' # "thrown" /\ unmet' = unmet
<1> DEFINE n == Len(open)
           o == Last(open)
<1>1. Live /\ n > 1 /\ NoteEnd
  BY DEF EndWithin, EndNested
<1>2. /\ Shrunk(open, open')
      /\ o = open[n] /\ o \in OpenType /\ o.decl = Handler.decl
      /\ unmet' = IF Unmet(o) THEN unmet \cup {o} ELSE unmet
  BY <1>1, NoteEndEffect
<1>3. /\ Handler \in LevelType /\ Chained(levels, open) /\ AllCounted(levels, open)
      /\ levels \in Seq(LevelType) /\ levels # <<>> /\ open \in Seq(OpenType)
      /\ Kind(Handler.decl) \notin {"null", "record"} => ItemsCounted(Handler, o, TRUE)
  BY <1>1, LiveFacts
<1>4. Closing(open) => unmet' = unmet
  BY <1>2, <1>3, Complete DEF Closing
<1>5. CASE EndWithin
  <2>1. status' = "live"
    BY <1>5 DEF EndWithin, Reply
  <2> QED
    BY <1>1, <1>2, <1>4, <2>1
<1>6. CASE EndNested
  <2>1. PICK i \in Ending :
           IF FinalizeThrows(levels, i + 1) THEN Throw(Shallower(levels))
           ELSE LET chain == SubSeq(Shallower(levels), 1, i) IN
                IF Kind(chain[i].decl) \in {"seq", "array"} THEN Submit(chain)
                ELSE levels' = chain /\ Reply(GoesOn(chain[i]))
    BY <1>6 DEF EndNested
  <2> DEFINE c == SubSeq(Shallower(levels), 1, i)
  <2>2. i \in 1..Len(levels) /\ levels[i].depth = 1
    BY <1>3 DEF Ending
  <2>3. /\ Len(open) = Len(levels) /\ i = Len(levels) - 1 /\ i \in Nat \ {0}
        /\ levels[i + 1] = Last(levels)
        /\ Kind(levels[i + 1].decl) # "value"
    BY <1>3, <2>2, EndingFacts
  <2>4. /\ c \in Seq(LevelType) /\ Len(c) = i /\ Last(c) = c[i] /\ c[i] \in LevelType
        /\ \A j \in 1..i : c[j].decl = levels[j].decl /\ c[j].offs = levels[j].offs
                           /\ c[j].found = levels[j].found
    <3>1. /\ c \in Seq(LevelType) /\ c # <<>> /\ Len(c) = i
          /\ \A j \in 1..i : /\ c[j].decl = levels[j].decl
                             /\ c[j].depth = IF j = i THEN 0 ELSE i - j
                             /\ c[j].offs = levels[j].offs /\ c[j].found = levels[j].found
                             /\ c[j].thrown = levels[j].thrown
          /\ Last(c) = c[i] /\ c[i] \in LevelType
      BY <1>3, <2>2, LeftFacts
    <3> HIDE DEF c
    <3> QED
      BY <3>1
  <2>5. \/ FinalizeThrows(levels, i + 1) /\ status' = "thrown"
        \/ /\ ~FinalizeThrows(levels, i + 1)
           /\ \/ Submit(c)
              \/ /\ levels' = c
                 /\ status' = IF GoesOn(c[i]) THEN "live" ELSE "refused"
    BY <2>1 DEF Throw, Reply
  <2> HIDE DEF c
  <2>6. Submit(c) => status' \in {"live", "thrown"} /\ (status' = "thrown" => SubmitThrows(c))
    BY DEF Submit, Throw, Reply
  <2>7. i \in 1..i /\ i \in 1..Len(levels) /\ i # Len(levels) /\ i + 1 = Len(levels)
        /\ n = Len(levels) /\ i = n - 1 /\ i \in 1..(n - 1)
    BY <2>2, <2>3
  <2>8. /\ levels[i].decl = open[i].decl /\ levels[i] \in LevelType
        /\ open[i] \in OpenType /\ ItemsCounted(levels[i], open[i], FALSE)
        /\ i > 1 => Kind(levels[i].decl) # "only"
    <3>1. /\ levels[i].decl = open[i].decl
          /\ i > 1 => Kind(levels[i].decl) # "only"
      BY <1>3, <2>7 DEF Chained
    <3>2. ItemsCounted(levels[i], open[i], FALSE)
      BY <1>3, <2>7 DEF AllCounted
    <3>3. i \in 1..Len(open)
      BY <2>3, <2>7
    <3>4. open[i] \in OpenType
      BY <1>3, <3>3
    <3>5. levels[i] \in LevelType
      <4>1. levels \in Seq(LevelType) /\ i \in 1..Len(levels)
        BY <1>3, <2>7
      <4> QED
        BY <4>1
    <3> QED
      BY <3>1, <3>2, <3>4, <3>5
  <2>9. status' \in {"live", "refused", "thrown"}
    BY <2>5, <2>6
  <2>10. ASSUME status' = "refused"
         PROVE  /\ Satisfied' /\ n = 2 /\ Kind(open[1].decl) = "only"
                /\ open[1].found = 1
    <3>1. levels' = c /\ ~GoesOn(c[i])
      BY <2>5, <2>6, <2>10
    <3>2. Kind(c[i].decl) = "only" /\ c[i].found
      BY <3>1 DEF GoesOn
    <3>3. Kind(levels[i].decl) = "only" /\ levels[i].found
      BY <2>4, <2>7, <3>2
    <3>4. i = 1
      BY <2>3, <2>8, <3>3
    <3>5. n = 2 /\ 1 \in 1..(n - 1)
      BY <2>3, <2>7, <3>4
    <3>6. open[1].found = 1
      BY <2>8, <3>3, <3>4 DEF ItemsCounted
    <3>7. open'[1].decl = open[1].decl
      BY <1>2, <3>5 DEF Shrunk
    <3>8. levels'[1].decl = open'[1].decl /\ levels'[1].found /\ Len(levels') = 1
      BY <2>4, <2>7, <2>8, <3>1, <3>3, <3>4, <3>7
    <3> QED
      BY <2>8, <3>3, <3>4, <3>5, <3>6, <3>8 DEF Satisfied
  <2>11. ASSUME Closing(open), FinalizeThrows(levels, i + 1) PROVE FALSE
    <3>1. Handler = levels[i + 1]
      BY <2>3 DEF Handler
    <3>2. Kind(Handler.decl) \notin {"null", "record"} => ~Missing(Handler)
      BY <1>2, <1>3, <2>11, Complete DEF Closing
    <3>3. Kind(Handler.decl) \in {"null", "record"} => ~Missing(Handler)
      BY DEF Missing
    <3>4. PICK k \in (i + 1)..Len(levels) : Missing(levels[k])
      BY <2>11 DEF FinalizeThrows
    <3>5. k = i + 1
      BY <2>7, <3>4
    <3> QED
      BY <3>1, <3>2, <3>3, <3>4, <3>5
  <2>12. ASSUME Closing(open), SubmitThrows(c) PROVE FALSE
    <3> DEFINE l == levels[i]
               p == open[i]
               count == Decl[l.decl].count
    <3>1. PICK r \in Nat : Due(l.decl, p.found, r)
      BY <2>7, <2>8, <2>12 DEF Closing
    <3>2. c[i].decl = l.decl /\ c[i].offs = l.offs
      BY <2>4, <2>7
    <3>3. ~p.foreign
      BY <2>7, <2>12 DEF Closing
    <3>4. Kind(l.decl) = "array" /\ l.offs >= count
      BY <2>4, <2>12, <3>2 DEF SubmitThrows, Overflows
    <3> HIDE DEF l, p
    <3>5. l.decl \in Decls \cup {Null} /\ l.offs \in Nat /\ p.found \in Nat
      BY <2>8, LevelFields, OpenFields DEF l, p
    <3>6. count \in Nat
      BY <3>4, <3>5, DeclFields
    <3>7. p.found + r <= count
      BY <3>1, <3>4 DEF Due
    <3>8. p.found - 1 < count
      BY <3>5, <3>6, <3>7
    <3>9. l.offs = IF p.found - 1 <= count THEN p.found - 1 ELSE count
      BY <2>8, <3>3, <3>4 DEF ItemsCounted, Ended, l, p
    <3> QED
      BY <3>4, <3>5, <3>6, <3>8, <3>9
  <2>13. Closing(open) => status' # "thrown"
    <3>1. ASSUME Closing(open), status' = "thrown" PROVE FALSE
      <4>1. ~FinalizeThrows(levels, i + 1) /\ ~SubmitThrows(c)
        BY <2>11, <2>12, <3>1
      <4> QED
        BY <2>5, <2>6, <3>1, <4>1
    <3> QED
      BY <3>1
  <2> QED
    BY <1>1, <1>2, <1>4, <2>9, <2>10, <2>13
<1> QED
  BY <1>5, <1>6

-----------------------------------------------------------------------------
(* Every step of a serializer.                                             *)

SendingState ==
    /\ todo \in Seq(CallType) /\ lossy \in BOOLEAN
    /\ ~lossy => \A d \in misread : Ambiguous(d)
    /\ writers \in Seq(Decls) /\ writers # <<>> /\ Kind(writers[1]) = "only"
    /\ \A k \in 1..Len(writers) : Kind(writers[k]) # "value"
    /\ open \in Seq(OpenType) /\ Len(open) \in Nat \ {0} /\ Len(writers) = Len(open)
    /\ \A i \in 1..Len(open) : open[i] \in OpenType /\ open[i].found \in Nat
    /\ PartsLeft
    /\ Faithful => /\ Aligned(writers, open) /\ unmet = {}
                   /\ \A i \in 1..Len(open) : ~open[i].foreign

LEMMA SendingNow ==
    ASSUME DInv, WInv, status = "live", sender = "serializer"
    PROVE  SendingState
<1>1. open \in Seq(OpenType) /\ open # <<>>
  BY DEF DInv, TypeOK
<1>2. /\ todo \in Seq(CallType) /\ lossy \in BOOLEAN
      /\ ~lossy => \A d \in misread : Ambiguous(d)
      /\ writers \in Seq(Decls) /\ Kind(writers[1]) = "only"
      /\ \A k \in 1..Len(writers) : Kind(writers[k]) # "value"
      /\ Len(writers) = Len(open) /\ PartsLeft
      /\ Faithful => /\ Aligned(writers, open) /\ unmet = {}
                     /\ \A i \in 1..Len(open) : ~open[i].foreign
  BY <1>1 DEF WInv
<1>3. Len(open) \in Nat \ {0}
  BY <1>1, LastFacts
<1>4. writers # <<>>
  BY <1>2, <1>3, EmptySeq, LenProperties
<1>5. \A i \in 1..Len(open) : open[i] \in OpenType
  BY <1>1
<1> QED
  BY <1>1, <1>2, <1>3, <1>4, <1>5, OpenFields DEF SendingState

LEMMA SendingFacts ==
    ASSUME DInv, WInv, Live, sender = "serializer"
    PROVE  SendingState
BY SendingNow DEF Live

(* What is required will have been found, and one call less is left.       *)
LEMMA DueGrown ==
    ASSUME NEW w, NEW found \in Int, NEW r \in Int, Due(w, found, r)
    PROVE  Due(w, found + 1, r - 1)
<1>1. (found + 1) + (r - 1) = found + r
  OBVIOUS
<1> QED
  BY <1>1 DEF Due

LEMMA AllDueGrown ==
    ASSUME NEW e, NEW f, NEW ws, NEW os, NEW ps, NEW n \in Nat \ {0},
           Len(ws) = n, Len(os) = n, AllDue(e, ws, os), Grown(os, ps),
           os[n].found \in Nat, e[n] \in Int, e[n + 1] \in Int,
           \A k \in 1..(n - 1) : f[k] - f[k + 1] - 1 = e[k] - e[k + 1] - 1,
           f[n] - f[n + 1] - 1 = (e[n] - e[n + 1] - 1) - 1 \/ Kind(ws[n]) = "record"
    PROVE  \A k \in 1..n : Due(ws[k], ps[k].found, f[k] - f[k + 1] - 1)
<1>1. ASSUME NEW k \in 1..(n - 1) PROVE Due(ws[k], ps[k].found, f[k] - f[k + 1] - 1)
  <2>1. k \in 1..n
    OBVIOUS
  <2>2. Due(ws[k], os[k].found, e[k] - e[k + 1] - 1)
    BY <2>1 DEF AllDue
  <2>3. ps[k].found = os[k].found
    BY DEF Grown
  <2>4. f[k] - f[k + 1] - 1 = e[k] - e[k + 1] - 1
    OBVIOUS
  <2> QED
    BY <2>2, <2>3, <2>4
<1>2. Due(ws[n], ps[n].found, f[n] - f[n + 1] - 1)
  <2>1. n \in 1..n
    OBVIOUS
  <2>2. Due(ws[n], os[n].found, e[n] - e[n + 1] - 1)
    BY <2>1 DEF AllDue
  <2>3. ps[n].found = os[n].found + 1
    BY DEF Grown
  <2> DEFINE r == e[n] - e[n + 1] - 1
  <2>4. r \in Int /\ Due(ws[n], os[n].found, r)
    BY <2>2
  <2>5. f[n] - f[n + 1] - 1 = r - 1 \/ Kind(ws[n]) = "record"
    OBVIOUS
  <2> HIDE DEF r
  <2>6. Due(ws[n], ps[n].found, r - 1)
    BY <2>3, <2>4, DueGrown
  <2>7. Kind(ws[n]) = "record" => Due(ws[n], ps[n].found, f[n] - f[n + 1] - 1)
    BY DEF Due
  <2> QED
    BY <2>5, <2>6, <2>7
<1>3. \A k \in 1..n : k \in 1..(n - 1) \/ k = n
  OBVIOUS
<1> QED
  BY <1>1, <1>2, <1>3

(* What is written faithfully is not refused.                              *)
LEMMA WelcomeWritten ==
    ASSUME DInv, WInv, Live, sender = "serializer", Faithful,
           NEW node, Found(Handler.decl, node) # Null,
           NEW e, Parted(e, writers, todo), AllDue(e, writers, open), e[Len(open)] >= 2
    PROVE  ~Refuses(Handler, node) /\ ~SubmitThrows(levels)
<1> DEFINE n == Len(open)
           r == e[n] - e[n + 1] - 1
<1>1. /\ open \in Seq(OpenType) /\ n \in Nat \ {0} /\ Len(writers) = n
      /\ Aligned(writers, open) /\ \A i \in 1..n : ~open[i].foreign
  <2>1. SendingState
    BY SendingFacts
  <2> QED
    BY <2>1 DEF SendingState
<1>2. n \in 1..n /\ n \in 1..(n + 1)
  BY <1>1
<1>3. open # <<>> /\ Last(open) = open[n]
  BY <1>1, EmptySeq, LenProperties DEF Last
<1>4. writers[n] = open[n].decl
  BY <1>1, <1>2 DEF Aligned
<1>5. Due(writers[n], open[n].found, r)
  BY <1>1, <1>2 DEF AllDue
<1>6. r \in Nat \ {0}
  <2>1. e[n + 1] = 0 /\ e[n] \in 0..(Len(todo) + 1)
    BY <1>1, <1>2 DEF Parted
  <2> QED
    BY <2>1
<1> HIDE DEF r, n
<1>7. ~Last(open).foreign /\ Due(Last(open).decl, Last(open).found, r)
  BY <1>1, <1>2, <1>3, <1>4, <1>5
<1> QED
  BY <1>6, <1>7, Welcome

(* A node is written.                                                      *)
LEMMA PushWritten ==
    ASSUME DInv, WInv, sender = "serializer", sender' = sender, todo # <<>>,
           NEW d \in Decls, NEW node, node.cont \in BOOLEAN,
           RefuseChild(node) \/ PushNode(node), NoteReader(d, node),
           Head(todo).do \in {"to_sink", "push_node"},
           todo' = Tail(todo), writers' = writers, lossy' = lossy,
           Found(Last(writers), node) # d => Ambiguous(Last(writers))
    PROVE  WInv'
<1> DEFINE n == Len(open)
           Lives == /\ Len(writers') = Len(open') /\ Kind(writers'[1]) = "only"
                    /\ \A k \in 1..Len(writers') : Kind(writers'[k]) # "value"
                    /\ PartsLeft'
                    /\ Faithful' => Aligned(writers, open)'
           Kept1 == /\ status' \in {"live", "refused", "ended", "destroyed"}
                    /\ status' # "live" => todo' = <<>>
                    /\ unmet' = {}
                    /\ \A i \in 1..Len(open') : ~open'[i].foreign
<1>1. Live
  BY DEF RefuseChild, PushNode
<1>2. /\ todo \in Seq(CallType) /\ lossy \in BOOLEAN
      /\ ~lossy => \A u \in misread : Ambiguous(u)
      /\ writers \in Seq(Decls) /\ writers # <<>> /\ Kind(writers[1]) = "only"
      /\ \A k \in 1..Len(writers) : Kind(writers[k]) # "value"
      /\ open \in Seq(OpenType) /\ n \in Nat \ {0} /\ Len(writers) = n
      /\ \A i \in 1..n : open[i] \in OpenType /\ open[i].found \in Nat
      /\ PartsLeft
      /\ Faithful => /\ Aligned(writers, open) /\ unmet = {}
                     /\ \A i \in 1..n : ~open[i].foreign
  <2>1. SendingState
    BY <1>1, SendingFacts
  <2> QED
    BY <2>1 DEF SendingState
<1>3. PICK e : Parted(e, writers, todo) /\ (Faithful => AllDue(e, writers, open))
  BY <1>2 DEF PartsLeft
<1>4. e[n] >= 2 /\ (Kind(Last(writers)) = "record" => e[n] = 2)
  <2>1. /\ Head(todo).do = "to_sink" => Kind(Last(writers)) # "record" /\ e[Len(writers)] >= 2
        /\ Head(todo).do = "push_node" => Kind(Last(writers)) = "record" /\ e[Len(writers)] = 2
    <3>1. todo \in Seq(CallType) /\ writers \in Seq(Decls) /\ writers # <<>>
      BY <1>2
    <3>2. Parted(e, writers, todo)
      BY <1>3
    <3> QED
      BY <3>1, <3>2, HeadFacts
  <2>2. Len(writers) = n
    BY <1>2
  <2> HIDE DEF n
  <2>3. CASE Head(todo).do = "to_sink"
    BY <2>1, <2>2, <2>3
  <2>4. CASE Head(todo).do = "push_node"
    <3>1. e[n] = 2
      BY <2>1, <2>2, <2>4
    <3> QED
      BY <3>1
  <2> QED
    BY <2>3, <2>4
<1> DEFINE f == Made(e, n)
<1>5. /\ Parted(f, writers, Tail(todo))
      /\ \A k \in 1..(n - 1) : f[k] - f[k + 1] - 1 = e[k] - e[k + 1] - 1
      /\ f[n] - f[n + 1] - 1 = (e[n] - e[n + 1] - 1) - 1
  BY <1>2, <1>3, <1>4, PartedMade
<1>6. /\ e[n + 1] = 0 /\ e[n] \in Int /\ e[n + 1] \in Int /\ e[1] = Len(todo) + 1
  <2>1. n \in 1..(n + 1)
    BY <1>2
  <2> QED
    BY <1>2, <1>3, <2>1 DEF Parted
<1> HIDE DEF f, n
<1>7. ~lossy' => /\ \A u \in misread' : Ambiguous(u)
                 /\ misread' = {} =>
                       /\ misread = {}
                       /\ Aligned(writers, open) => Found(Handler.decl, node) = d
  BY <1>1, <1>2, ReaderFacts
<1>8. ASSUME Faithful'
      PROVE  /\ Faithful /\ AllDue(e, writers, open) /\ Aligned(writers, open)
             /\ Found(Handler.decl, node) # Null
             /\ PushNode(node) /\ ~SubmitThrows(levels)
  <2>1. Faithful
    BY <1>7, <1>8 DEF Faithful
  <2>2. d # Null
    BY DeclAssumption
  <2>3. Found(Handler.decl, node) # Null
    BY <1>2, <1>7, <1>8, <2>1, <2>2 DEF Faithful
  <2>4. ~Refuses(Handler, node) /\ ~SubmitThrows(levels)
    BY <1>1, <1>2, <1>3, <1>4, <2>1, <2>3, WelcomeWritten DEF n
  <2> QED
    BY <1>2, <1>3, <2>1, <2>3, <2>4 DEF RefuseChild
<1>9. RefuseChild(node) => status' = "thrown"
  BY DEF RefuseChild, Throw
<1>10. PushNode(node) =>
          /\ unmet' = unmet /\ open' = Noted(node)
          /\ status' \in {"live", "refused", "thrown"}
          /\ status' = "thrown" => SubmitThrows(levels)
          /\ status' = "refused" =>
                /\ Satisfied' /\ n = 1 /\ Kind(open[1].decl) = "only"
                /\ open[1].found = 0
  BY PushEffect DEF n
<1>11. /\ open \in Seq(OpenType) /\ n \in Nat \ {0}
       /\ Noted(node) \in Seq(OpenType) /\ Len(Noted(node)) = n
       /\ \A i \in 1..n : Noted(node)[i].decl = open[i].decl
       /\ Found(Handler.decl, node) # Null => Grown(open, Noted(node))
  BY <1>1, NotedEffect DEF n
<1>12. ASSUME PushNode(node) PROVE Lives
  <2>1. Len(open') = n /\ \A i \in 1..n : open'[i].decl = open[i].decl
    BY <1>10, <1>11, <1>12
  <2>2. ASSUME Faithful' PROVE AllDue(f, writers', open') /\ Aligned(writers, open)'
    <3>1. Grown(open, open')
      BY <1>8, <1>10, <1>11, <1>12, <2>2
    <3>2. n \in 1..n
      BY <1>2
    <3>3. \A k \in 1..n : Due(writers[k], open'[k].found, f[k] - f[k + 1] - 1)
      BY <1>2, <1>5, <1>6, <1>8, <2>2, <3>1, <3>2, AllDueGrown DEF n
    <3>4. Aligned(writers, open')
      BY <1>2, <1>8, <2>1, <2>2 DEF Aligned, n
    <3> QED
      BY <1>2, <3>3, <3>4 DEF AllDue
  <2>3. PartsLeft'
    BY <1>5, <2>2 DEF PartsLeft
  <2> QED
    BY <1>2, <2>1, <2>2, <2>3
<1>13. ASSUME Faithful' PROVE Kept1
  <2>1. status' \in {"live", "refused"} /\ unmet' = {} /\ Grown(open, open')
    BY <1>2, <1>8, <1>10, <1>11, <1>13
  <2>2. \A i \in 1..Len(open') : ~open'[i].foreign
    BY <1>2, <1>8, <1>10, <1>11, <1>13, <2>1 DEF Grown, n
  <2>3. ASSUME status' = "refused" PROVE todo' = <<>>
    <3>1. n = 1 /\ Kind(writers[1]) = "only" /\ open[1].found = 0
      BY <1>2, <1>8, <1>10, <1>13, <2>3
    <3>2. Due(writers[1], 0, e[1] - e[2] - 1)
      <4>1. 1 \in 1..Len(writers) /\ 1 + 1 = 2
        BY <1>2, <3>1
      <4> QED
        BY <1>8, <1>13, <3>1, <4>1 DEF AllDue
    <3>3. 0 + (e[1] - e[2] - 1) = 1
      BY <3>1, <3>2 DEF Due
    <3>4. e[1] = Len(todo) + 1 /\ e[2] = 0 /\ Len(todo) \in Nat
      BY <1>2, <1>6, <3>1
    <3>5. Len(todo) = 1
      BY <3>3, <3>4
    <3>6. Len(todo') = 0 /\ todo' \in Seq(CallType)
      BY <1>2, <3>5, TailFacts
    <3> QED
      BY <3>6, EmptySeq, LenProperties
  <2> QED
    BY <2>1, <2>2, <2>3
<1>14. todo' \in Seq(CallType)
  BY <1>2, TailFacts
<1>15. status' \in {"live", "refused", "thrown"}
       /\ (status' = "live" => Lives) /\ (status' = "refused" => Satisfied')
  BY <1>9, <1>10, <1>12
<1> QED
  BY <1>2, <1>7, <1>13, <1>14, <1>15 DEF WInv

(* The calls up to p are those of a container that is started within the   *)
(* innermost one, which keeps those up to the end that was at e.           *)
Opens(e, ws, t, s, p) ==
    LET n == Len(ws) IN
    /\ e[n] >= 2 /\ p < e[n] + s /\ Part(Last(ws), t, p, e[n] + s)
    /\ e[n] + s - p - 1 = (e[n] - e[n + 1] - 1) - 1 \/ Kind(Last(ws)) = "record"

(* A container is started: s calls more are left, up to the end_container  *)
(* at p are those of the new one.                                          *)
Starts(d, node, s, p) ==
    /\ sender = "serializer" /\ sender' = sender /\ todo # <<>>
    /\ Kind(d) # "value" /\ node.cont \in BOOLEAN
    /\ RefuseChild(node) \/ StartContainer(node)
    /\ NoteReader(d, node)
    /\ writers' = Append(writers, d) /\ lossy' \in BOOLEAN /\ (~lossy' => ~lossy)
    /\ ~lossy' /\ Found(Last(writers), node) # d => Ambiguous(Last(writers))
    /\ todo' \in Seq(CallType)
    /\ s >= -1 /\ Len(todo') = Len(todo) + s
    /\ \A j \in 2..Len(todo) : todo'[j + s] = todo[j]
    /\ todo'[p].do = "end_container"
    /\ Part(d, todo', 0, p) /\ Due(d, 0, p - 1)
    /\ \A e : Parted(e, writers, todo) => Opens(e, writers, todo', s, p)

LEMMA StartWritten ==
    ASSUME DInv, WInv, NEW d \in Decls, NEW node, NEW s \in Int, NEW p \in Nat \ {0},
           Starts(d, node, s, p)
    PROVE  WInv'
<1>0. /\ sender = "serializer" /\ sender' = sender /\ todo # <<>>
      /\ Kind(d) # "value" /\ node.cont \in BOOLEAN
      /\ RefuseChild(node) \/ StartContainer(node)
      /\ NoteReader(d, node)
      /\ writers' = Append(writers, d) /\ lossy' \in BOOLEAN /\ (~lossy' => ~lossy)
      /\ ~lossy' /\ Found(Last(writers), node) # d => Ambiguous(Last(writers))
      /\ todo' \in Seq(CallType)
      /\ s >= -1 /\ Len(todo') = Len(todo) + s
      /\ \A j \in 2..Len(todo) : todo'[j + s] = todo[j]
      /\ todo'[p].do = "end_container"
      /\ Part(d, todo', 0, p) /\ Due(d, 0, p - 1)
      /\ \A e : Parted(e, writers, todo) => Opens(e, writers, todo', s, p)
  BY DEF Starts
<1> DEFINE n == Len(open)
           Lives == /\ Len(writers') = Len(open') /\ Kind(writers'[1]) = "only"
                    /\ \A k \in 1..Len(writers') : Kind(writers'[k]) # "value"
                    /\ PartsLeft'
                    /\ Faithful' => Aligned(writers, open)'
           Kept1 == /\ status' \in {"live", "refused", "ended", "destroyed"}
                    /\ status' # "live" => todo' = <<>>
                    /\ unmet' = {}
                    /\ \A i \in 1..Len(open') : ~open'[i].foreign
<1>1. Live
  BY <1>0 DEF RefuseChild, StartContainer
<1>2. /\ todo \in Seq(CallType)
      /\ ~lossy => \A u \in misread : Ambiguous(u)
      /\ writers \in Seq(Decls) /\ writers # <<>> /\ Kind(writers[1]) = "only"
      /\ \A k \in 1..Len(writers) : Kind(writers[k]) # "value"
      /\ open \in Seq(OpenType) /\ n \in Nat \ {0} /\ Len(writers) = n
      /\ \A i \in 1..n : open[i] \in OpenType /\ open[i].found \in Nat
      /\ PartsLeft
      /\ Faithful => /\ Aligned(writers, open) /\ unmet = {}
                     /\ \A i \in 1..n : ~open[i].foreign
  <2>1. SendingState
    BY <1>0, <1>1, SendingFacts
  <2> QED
    BY <2>1 DEF SendingState
<1>3. PICK e : Parted(e, writers, todo) /\ (Faithful => AllDue(e, writers, open))
  BY <1>2 DEF PartsLeft
<1>4. /\ e[n] >= 2 /\ p < e[n] + s /\ Part(Last(writers), todo', p, e[n] + s)
      /\ e[n] + s - p - 1 = (e[n] - e[n + 1] - 1) - 1 \/ Kind(Last(writers)) = "record"
  BY <1>0, <1>2, <1>3 DEF Opens
<1> DEFINE f == Pushed(e, n, s, p)
<1>5. /\ Parted(f, Append(writers, d), todo')
      /\ \A k \in 1..(n - 1) : f[k] - f[k + 1] - 1 = e[k] - e[k + 1] - 1
      /\ f[n] - f[n + 1] - 1 = e[n] + s - p - 1
      /\ f[n + 1] - f[n + 2] - 1 = p - 1
  <2> DEFINE k == Len(writers)
             g == Pushed(e, k, s, p)
  <2>1. /\ e[k] >= 2 /\ p < e[k] + s /\ Part(Last(writers), todo', p, e[k] + s)
        /\ k = n /\ Parted(e, writers, todo)
    BY <1>2, <1>3, <1>4
  <2>2. /\ Parted(g, Append(writers, d), todo')
        /\ \A i \in 1..(k - 1) : g[i] - g[i + 1] - 1 = e[i] - e[i + 1] - 1
        /\ g[k] - g[k + 1] - 1 = e[k] + s - p - 1
        /\ g[k + 1] - g[k + 2] - 1 = p - 1
    <3>1. writers \in Seq(Decls) /\ writers # <<>> /\ todo \in Seq(CallType)
      BY <1>2
    <3>2. PushedFacts(e, writers, d, todo', s, p)
      BY <1>0, <2>1, <3>1, PartedPushed
    <3> QED
      BY <3>2 DEF PushedFacts
  <2> HIDE DEF k
  <2> QED
    BY <2>1, <2>2
<1>6. e[n] \in Int /\ e[n + 1] \in Int /\ Last(writers) = writers[n]
  <2>1. n \in 1..(n + 1) /\ n + 1 \in 1..(n + 1)
    BY <1>2
  <2> QED
    BY <1>2, <1>3, <2>1 DEF Parted, Last
<1> HIDE DEF f, n
<1>7. ~lossy' => /\ \A u \in misread' : Ambiguous(u)
                 /\ misread' = {} =>
                       /\ misread = {}
                       /\ Aligned(writers, open) => Found(Handler.decl, node) = d
  BY <1>0, <1>1, <1>2, ReaderFacts
<1>8. ASSUME Faithful'
      PROVE  /\ Faithful /\ AllDue(e, writers, open) /\ Aligned(writers, open)
             /\ Found(Handler.decl, node) = d /\ d # Null
             /\ StartContainer(node)
  <2>1. Faithful
    BY <1>0, <1>7, <1>8 DEF Faithful
  <2>2. d # Null
    BY DeclAssumption
  <2>3. Found(Handler.decl, node) = d
    BY <1>2, <1>7, <1>8, <2>1 DEF Faithful
  <2>4. ~Refuses(Handler, node)
    BY <1>0, <1>1, <1>2, <1>3, <1>4, <2>1, <2>2, <2>3, WelcomeWritten DEF n
  <2> QED
    BY <1>0, <1>2, <1>3, <2>1, <2>2, <2>3, <2>4 DEF RefuseChild
<1>9. RefuseChild(node) => status' = "thrown"
  BY DEF RefuseChild, Throw
<1>10. StartContainer(node) =>
          /\ unmet' = unmet /\ status' = "live"
          /\ open' \in Seq(OpenType) /\ Len(open') = n + 1
          /\ \A i \in 1..n : open'[i].decl = open[i].decl
          /\ Found(Handler.decl, node) # Null => Grown(open, open')
          /\ open'[n + 1] = [decl |-> Found(Handler.decl, node), found |-> 0, foreign |-> FALSE]
  BY <1>0, StartEffect DEF n
<1>11. /\ writers' \in Seq(Decls) /\ Len(writers') = n + 1 /\ writers'[n + 1] = d
       /\ \A k \in 1..n : writers'[k] = writers[k]
  BY <1>0, <1>2, AppendProperties
<1>12. \A k \in 1..(n + 1) : k \in 1..n \/ k = n + 1
  BY <1>2
<1>13. ASSUME StartContainer(node) PROVE Lives
  <2>1. Len(open') = n + 1 /\ \A i \in 1..n : open'[i].decl = open[i].decl
    BY <1>10, <1>13
  <2>2. ASSUME Faithful' PROVE AllDue(f, writers', open') /\ Aligned(writers, open)'
    <3>1. Grown(open, open') /\ open'[n + 1].decl = d /\ open'[n + 1].found = 0
      BY <1>8, <1>10, <1>13, <2>2
    <3>2. n \in 1..n /\ (n + 1) + 1 = n + 2
      BY <1>2
    <3>3. f[n] - f[n + 1] - 1 = (e[n] - e[n + 1] - 1) - 1 \/ Kind(writers[n]) = "record"
      BY <1>4, <1>5, <1>6
    <3>4. \A k \in 1..n : Due(writers[k], open'[k].found, f[k] - f[k + 1] - 1)
      BY <1>2, <1>5, <1>6, <1>8, <2>2, <3>1, <3>2, <3>3, AllDueGrown DEF n
    <3>5. Due(writers'[n + 1], open'[n + 1].found, f[n + 1] - f[n + 2] - 1)
      BY <1>0, <1>5, <1>11, <3>1
    <3>6. ASSUME NEW k \in 1..(n + 1)
          PROVE  Due(writers'[k], open'[k].found, f[k] - f[k + 1] - 1)
      <4>1. CASE k \in 1..n
        BY <1>11, <3>4, <4>1
      <4>2. CASE k = n + 1
        BY <3>2, <3>5, <4>2
      <4> QED
        BY <1>12, <4>1, <4>2
    <3>7. Aligned(writers', open')
      BY <1>2, <1>8, <1>11, <1>12, <2>1, <2>2, <3>1 DEF Aligned, n
    <3> QED
      BY <1>11, <3>6, <3>7 DEF AllDue
  <2>3. PartsLeft'
    BY <1>0, <1>5, <2>2 DEF PartsLeft
  <2>4. 1 \in 1..n
    BY <1>2
  <2>5. \A k \in 1..(n + 1) : Kind(writers'[k]) # "value"
    BY <1>0, <1>2, <1>11, <1>12
  <2> QED
    BY <1>2, <1>11, <2>1, <2>2, <2>3, <2>4, <2>5
<1>14. ASSUME Faithful' PROVE Kept1
  <2>1. /\ status' = "live" /\ unmet' = {} /\ Grown(open, open') /\ Len(open') = n + 1
        /\ ~open'[n + 1].foreign
    BY <1>2, <1>8, <1>10, <1>14
  <2>2. \A i \in 1..n : ~open'[i].foreign
    BY <1>2, <1>8, <1>14, <2>1 DEF Grown, n
  <2>3. \A i \in 1..Len(open') : ~open'[i].foreign
    BY <1>12, <2>1, <2>2
  <2> QED
    BY <2>1, <2>3
<1>15. status' \in {"live", "thrown"} /\ (status' = "live" => Lives)
  BY <1>0, <1>9, <1>10, <1>13
<1> QED
  BY <1>0, <1>7, <1>11, <1>14, <1>15 DEF WInv

(* A record that nothing requires is left out.                             *)
LEMMA OmitRecordWritten ==
    ASSUME DInv, WInv, OmitRecord
    PROVE  WInv'
<1> DEFINE n == Len(open)
<1>1. /\ sender = "serializer" /\ sender' = sender /\ todo # <<>>
      /\ Head(todo).do = "to_sink" /\ status = "live"
      /\ todo' = Tail(todo) /\ lossy' = (lossy \/ Mandatory(Last(writers)))
      /\ writers' = writers /\ misread' = misread
      /\ levels' = levels /\ status' = status /\ open' = open /\ unmet' = unmet
  BY DEF OmitRecord, Calls, Sending, vars
<1>2. /\ todo \in Seq(CallType) /\ lossy \in BOOLEAN
      /\ ~lossy => \A u \in misread : Ambiguous(u)
      /\ writers \in Seq(Decls) /\ Kind(writers[1]) = "only"
      /\ \A k \in 1..Len(writers) : Kind(writers[k]) # "value"
      /\ Len(writers) = n /\ PartsLeft
      /\ Faithful => /\ Aligned(writers, open) /\ unmet = {}
                     /\ \A i \in 1..n : ~open[i].foreign
  BY <1>1 DEF WInv
<1>3. open \in Seq(OpenType) /\ open # <<>>
  BY DEF DInv, TypeOK
<1>4. n \in Nat \ {0} /\ \A i \in 1..n : open[i].found \in Nat
  <2>1. \A i \in 1..n : open[i] \in OpenType
    BY <1>3
  <2> QED
    BY <1>3, <2>1, LastFacts, OpenFields
<1>5. writers # <<>>
  BY <1>2, <1>4, EmptySeq, LenProperties
<1>6. PICK e : Parted(e, writers, todo) /\ (Faithful => AllDue(e, writers, open))
  BY <1>2 DEF PartsLeft
<1>7. e[n] >= 2 /\ Kind(Last(writers)) # "record" /\ Last(writers) = writers[n]
  <2>1. /\ Kind(Last(writers)) # "record" /\ e[Len(writers)] >= 2
        /\ Last(writers) = writers[Len(writers)]
    BY <1>1, <1>2, <1>5, <1>6, HeadFacts
  <2> QED
    BY <1>2, <2>1
<1> DEFINE f == Made(e, n)
<1>8. /\ Parted(f, writers, Tail(todo))
      /\ \A k \in 1..(n - 1) : f[k] - f[k + 1] - 1 = e[k] - e[k + 1] - 1
      /\ f[n] - f[n + 1] - 1 = (e[n] - e[n + 1] - 1) - 1
  BY <1>1, <1>2, <1>5, <1>6, <1>7, PartedMade
<1>9. e[n] \in Int /\ e[n + 1] = 0
  <2>1. n \in 1..(n + 1)
    BY <1>4
  <2> QED
    BY <1>2, <1>6, <2>1 DEF Parted
<1> HIDE DEF f, n
<1>10. Faithful' => Faithful /\ ~Mandatory(writers[n])
  BY <1>1, <1>7 DEF Faithful
<1>11. ASSUME Faithful' PROVE AllDue(f, writers, open)
  <2>1. AllDue(e, writers, open) /\ ~Mandatory(writers[n])
    BY <1>6, <1>10, <1>11
  <2>2. ASSUME NEW k \in 1..(n - 1) PROVE Due(writers[k], open[k].found, f[k] - f[k + 1] - 1)
    <3>1. k \in 1..n
      BY <1>4
    <3>2. Due(writers[k], open[k].found, e[k] - e[k + 1] - 1)
      BY <1>2, <2>1, <3>1 DEF AllDue
    <3> QED
      BY <1>8, <3>2
  <2>3. Due(writers[n], open[n].found, f[n] - f[n + 1] - 1)
    <3> DEFINE r == e[n] - e[n + 1] - 1
               w == writers[n]
               found == open[n].found
    <3>1. n \in 1..n
      BY <1>4
    <3>2. Due(w, found, r)
      BY <1>2, <2>1, <3>1 DEF AllDue
    <3>3. r \in Int /\ found \in Nat /\ w \in Decls
      BY <1>2, <1>4, <1>9, <3>1
    <3>4. ~Mandatory(w) /\ f[n] - f[n + 1] - 1 = r - 1
      BY <1>8, <2>1
    <3> HIDE DEF r, w, found
    <3>5. Kind(w) \notin {"wrap", "only"} /\ (Kind(w) = "array" => ~Decl[w].all)
      BY <3>4 DEF Mandatory
    <3>6. Kind(w) = "array" => found + r <= Decl[w].count /\ Decl[w].count \in Nat
      BY <3>2, <3>3, DeclFields DEF Due
    <3>7. Kind(w) = "array" => found + (r - 1) <= Decl[w].count
      BY <3>3, <3>6
    <3>8. Due(w, found, r - 1)
      BY <3>5, <3>7 DEF Due
    <3> QED
      BY <3>4, <3>8 DEF w, found
  <2>4. \A k \in 1..n : k \in 1..(n - 1) \/ k = n
    BY <1>4
  <2> QED
    BY <1>2, <2>2, <2>3, <2>4 DEF AllDue
<1>12. PartsLeft'
  BY <1>1, <1>8, <1>11 DEF PartsLeft
<1>13. todo' \in Seq(CallType) /\ lossy' \in BOOLEAN
  <2>1. Mandatory(Last(writers)) \in BOOLEAN
    BY DEF Mandatory
  <2> QED
    BY <1>1, <1>2, <2>1, TailFacts
<1> QED
  BY <1>1, <1>2, <1>10, <1>12, <1>13 DEF WInv, n

(* A container ends.                                                       *)
LEMMA EndWritten ==
    ASSUME DInv, WInv, WriteEnd
    PROVE  WInv'
<1> DEFINE n == Len(open)
           Lives == /\ Len(writers') = Len(open') /\ Kind(writers'[1]) = "only"
                    /\ \A k \in 1..Len(writers') : Kind(writers'[k]) # "value"
                    /\ PartsLeft'
                    /\ Faithful' => Aligned(writers, open)'
           Kept1 == /\ status' \in {"live", "refused", "ended", "destroyed"}
                    /\ status' # "live" => todo' = <<>>
                    /\ unmet' = {}
                    /\ \A i \in 1..Len(open') : ~open'[i].foreign
<1>1. /\ sender = "serializer" /\ sender' = sender /\ todo # <<>>
      /\ Head(todo).do = "end_container" /\ (EndWithin \/ EndNested)
      /\ todo' = Tail(todo) /\ writers' = Front(writers)
      /\ misread' = misread /\ lossy' = lossy
  BY DEF WriteEnd, Calls, Sending
<1>2. Live
  BY <1>1 DEF EndWithin, EndNested
<1>3. /\ todo \in Seq(CallType) /\ lossy \in BOOLEAN
      /\ ~lossy => \A u \in misread : Ambiguous(u)
      /\ writers \in Seq(Decls) /\ writers # <<>> /\ Kind(writers[1]) = "only"
      /\ \A k \in 1..Len(writers) : Kind(writers[k]) # "value"
      /\ open \in Seq(OpenType) /\ n \in Nat \ {0} /\ Len(writers) = n
      /\ \A i \in 1..n : open[i] \in OpenType /\ open[i].found \in Nat
      /\ PartsLeft
      /\ Faithful => /\ Aligned(writers, open) /\ unmet = {}
                     /\ \A i \in 1..n : ~open[i].foreign
  <2>1. SendingState
    BY <1>1, <1>2, SendingFacts
  <2> QED
    BY <2>1 DEF SendingState
<1>4. PICK e : Parted(e, writers, todo) /\ (Faithful => AllDue(e, writers, open))
  BY <1>3 DEF PartsLeft
<1>5. n > 1 /\ e[n] = 1
  <2>1. Len(writers) > 1 /\ e[Len(writers)] = 1
    BY <1>1, <1>3, <1>4, HeadFacts
  <2> QED
    BY <1>3, <2>1
<1> DEFINE f == Popped(e, n)
<1>6. /\ Parted(f, Front(writers), Tail(todo))
      /\ \A k \in 1..(n - 1) : f[k] - f[k + 1] - 1 = e[k] - e[k + 1] - 1
  BY <1>1, <1>3, <1>4, <1>5, PartedPopped
<1>7. /\ e[n + 1] = 0 /\ e[1] = Len(todo) + 1
      /\ \A k \in 1..(n + 1) : e[k] \in Nat
      /\ \A k \in 1..n : e[k + 1] < e[k]
  <2> DEFINE i == Len(writers)
  <2>1. /\ e \in [1..(i + 1) -> 0..(Len(todo) + 1)] /\ Len(todo) \in Nat
        /\ e[i + 1] = 0 /\ e[1] = Len(todo) + 1
        /\ \A k \in 1..i : e[k + 1] < e[k]
    <3>1. Len(todo) \in Nat
      BY <1>3
    <3> QED
      BY <1>4, <3>1 DEF Parted
  <2>2. i = n
    BY <1>3
  <2>3. \A k \in 1..(i + 1) : e[k] \in Nat
    BY <2>1
  <2> HIDE DEF i
  <2> QED
    BY <2>1, <2>2, <2>3
<1> HIDE DEF f, n
<1>8. /\ Shrunk(open, open')
      /\ status' \in {"live", "refused", "thrown"}
      /\ status' = "refused" =>
            /\ Satisfied' /\ n = 2 /\ Kind(open[1].decl) = "only"
            /\ open[1].found = 1
      /\ Closing(open) => status' # "thrown" /\ unmet' = unmet
  BY <1>1, EndEffect DEF n
<1>9. /\ open' \in Seq(OpenType) /\ Len(open') = n - 1
      /\ \A i \in 1..(n - 1) :
            /\ open'[i].decl = open[i].decl /\ open'[i].foreign = open[i].foreign
            /\ open'[i].found = open[i].found \/ Kind(open[i].decl) = "record"
  BY <1>8 DEF Shrunk, n
<1>10. /\ writers' \in Seq(Decls) /\ Len(writers') = n - 1
       /\ \A k \in 1..(n - 1) : writers'[k] = writers[k]
  BY <1>1, <1>3, FrontFacts
<1>11. (\A k \in 1..(n - 1) : k \in 1..n) /\ 1 \in 1..(n - 1) /\ n \in 1..n
       /\ n - 1 \in 1..(n - 1)
  BY <1>3, <1>5
<1>12. Faithful' <=> Faithful
  BY <1>1 DEF Faithful
<1>13. ASSUME Faithful
       PROVE  AllDue(e, writers, open) /\ Aligned(writers, open) /\ Closing(open)
  <2>1. AllDue(e, writers, open) /\ Aligned(writers, open) /\ \A i \in 1..n : ~open[i].foreign
    BY <1>3, <1>4, <1>13
  <2>2. writers[n] = open[n].decl /\ writers[n - 1] = open[n - 1].decl
    BY <1>11, <2>1 DEF Aligned, n
  <2>3. /\ Due(writers[n], open[n].found, e[n] - e[n + 1] - 1)
        /\ Due(writers[n - 1], open[n - 1].found, e[n - 1] - e[n - 1 + 1] - 1)
    BY <1>3, <1>11, <2>1 DEF AllDue
  <2>4. e[n] - e[n + 1] - 1 = 0
    BY <1>5, <1>7
  <2>5. e[n - 1] - e[n - 1 + 1] - 1 \in Nat
    <3>1. /\ n - 1 \in 1..n /\ n - 1 + 1 = n /\ n \in 1..(n + 1) /\ n - 1 \in 1..(n + 1)
      BY <1>3, <1>5
    <3>2. e[n - 1 + 1] < e[n - 1] /\ e[n - 1] \in Nat /\ e[n - 1 + 1] \in Nat
      BY <1>7, <3>1
    <3> QED
      BY <3>2
  <2>6. Closing(open)
    BY <1>11, <2>1, <2>2, <2>3, <2>4, <2>5 DEF Closing, n
  <2> QED
    BY <2>1, <2>6
<1>14. ASSUME Faithful PROVE AllDue(f, writers', open') /\ Aligned(writers, open)'
  <2>1. AllDue(e, writers, open) /\ Aligned(writers, open)
    BY <1>13, <1>14
  <2>2. ASSUME NEW k \in 1..(n - 1)
        PROVE  /\ Due(writers'[k], open'[k].found, f[k] - f[k + 1] - 1)
               /\ writers'[k] = open'[k].decl
    <3>1. k \in 1..n
      BY <1>11
    <3>2. Due(writers[k], open[k].found, e[k] - e[k + 1] - 1) /\ writers[k] = open[k].decl
      BY <1>3, <2>1, <3>1 DEF AllDue, Aligned, n
    <3>3. /\ writers'[k] = writers[k] /\ open'[k].decl = open[k].decl
          /\ open'[k].found = open[k].found \/ Kind(open[k].decl) = "record"
      BY <1>9, <1>10
    <3>4. Due(writers[k], open[k].found, f[k] - f[k + 1] - 1)
      BY <1>6, <3>2
    <3>5. Kind(writers[k]) = "record" => Due(writers[k], open'[k].found, f[k] - f[k + 1] - 1)
      BY DEF Due
    <3>6. Due(writers[k], open'[k].found, f[k] - f[k + 1] - 1)
      <4>1. CASE open'[k].found = open[k].found
        BY <3>4, <4>1
      <4>2. CASE Kind(open[k].decl) = "record"
        BY <3>2, <3>5, <4>2
      <4> QED
        BY <3>3, <4>1, <4>2
    <3> QED
      BY <3>2, <3>3, <3>6
  <2> QED
    BY <1>9, <1>10, <2>2 DEF AllDue, Aligned
<1>15. Lives
  <2>1. PartsLeft'
    BY <1>1, <1>6, <1>12, <1>14 DEF PartsLeft
  <2> QED
    BY <1>3, <1>9, <1>10, <1>11, <1>12, <1>14, <2>1
<1>16. ASSUME Faithful PROVE Kept1
  <2>1. status' \in {"live", "refused"} /\ unmet' = {}
    BY <1>3, <1>8, <1>13, <1>16
  <2>2. \A i \in 1..Len(open') : ~open'[i].foreign
    BY <1>3, <1>9, <1>11, <1>16
  <2>3. ASSUME status' = "refused" PROVE todo' = <<>>
    <3>1. n = 2 /\ Kind(writers[1]) = "only" /\ open[1].found = 1
      BY <1>3, <1>8, <2>3
    <3>2. Due(writers[1], 1, e[1] - e[2] - 1)
      <4>1. 1 \in 1..Len(writers) /\ 1 + 1 = 2
        BY <1>3, <3>1
      <4>2. AllDue(e, writers, open)
        BY <1>13, <1>16
      <4> QED
        BY <3>1, <4>1, <4>2 DEF AllDue
    <3>3. 1 + (e[1] - e[2] - 1) = 1
      BY <3>1, <3>2 DEF Due
    <3>4. e[1] = Len(todo) + 1 /\ e[2] = 1 /\ Len(todo) \in Nat
      BY <1>3, <1>5, <1>7, <3>1
    <3>5. Len(todo) = 1
      BY <3>3, <3>4
    <3>6. Len(todo') = 0 /\ todo' \in Seq(CallType)
      BY <1>1, <1>3, <3>5, TailFacts
    <3> QED
      BY <3>6, EmptySeq, LenProperties
  <2> QED
    BY <2>1, <2>2, <2>3
<1>17. todo' \in Seq(CallType)
  BY <1>1, <1>3, TailFacts
<1> QED
  BY <1>1, <1>3, <1>8, <1>10, <1>12, <1>15, <1>16, <1>17 DEF WInv

(* What is written next is a member of what has written the container.     *)
LEMMA MemberWritten ==
    ASSUME DInv, WInv, Live, sender = "serializer", todo # <<>>,
           Head(todo).do = "to_sink"
    PROVE  LET d == Head(todo).decl
               w == Last(writers)
           IN  /\ d \in Decls /\ Kind(d) # "only" /\ Kind(w) # "record"
               /\ \A id \in WrittenIds(d) :
                     Matches(d, Node(d, id)) /\ Found(w, Node(d, id)) # d => Ambiguous(w)
<1> DEFINE d == Head(todo).decl
           w == Last(writers)
<1>1. /\ todo \in Seq(CallType) /\ writers \in Seq(Decls) /\ writers # <<>>
      /\ \A k \in 1..Len(writers) : Kind(writers[k]) # "value"
      /\ PartsLeft
  BY SendingFacts DEF SendingState
<1>2. PICK e : Parted(e, writers, todo)
  BY <1>1 DEF PartsLeft
<1>3. /\ w = writers[Len(writers)] /\ w \in Decls /\ Len(writers) \in Nat \ {0}
      /\ Head(todo) \in CallType /\ Kind(w) # "record"
      /\ \E i \in DOMAIN Decl[w].members : Head(todo) = ToSink(Decl[w].members[i])
  BY <1>1, <1>2, HeadFacts
<1>4. Kind(w) # "value"
  <2>1. Len(writers) \in 1..Len(writers)
    BY <1>3
  <2> QED
    BY <1>1, <1>3, <2>1
<1>5. PICK j \in DOMAIN Decl[w].members : Head(todo) = ToSink(Decl[w].members[j])
  BY <1>3
<1>6. d = Decl[w].members[j] /\ d \in Decls
  BY <1>3, <1>5 DEF ToSink, Call, CallType
<1>7. Kind(d) # "only"
  <2>1. Kind(w) = Decl[w].kind /\ Kind(d) = Decl[d].kind
    BY <1>3, <1>6, DeclAssumption DEF Kind
  <2>2. Decl[w].members \in Seq({m \in Decls : Decl[m].kind # "only"})
    BY <1>3, <1>4, <2>1, DeclAssumption
  <2> HIDE DEF w
  <2>3. Decl[w].members[j] \in {m \in Decls : Decl[m].kind # "only"}
    BY <1>5, <2>2
  <2> QED
    BY <1>6, <2>1, <2>3
<1> HIDE DEF d, w
<1>8. ASSUME NEW id \in WrittenIds(d), Matches(d, Node(d, id)), Found(w, Node(d, id)) # d
      PROVE  Ambiguous(w)
  BY <1>3, <1>4, <1>6, <1>8, ReadByAnother
<1> QED
  BY <1>3, <1>6, <1>7, <1>8 DEF d, w

LEMMA WriteValueInv ==
    ASSUME DInv, WInv, WriteValue
    PROVE  WInv'
<1> DEFINE d == Head(todo).decl
           node == Node(d, First(d))
<1>1. /\ sender = "serializer" /\ sender' = sender /\ todo # <<>>
      /\ Head(todo).do = "to_sink"
      /\ RefuseChild(node) \/ PushNode(node)
      /\ NoteReader(d, node)
      /\ todo' = Tail(todo) /\ writers' = writers /\ lossy' = lossy
  BY DEF WriteValue, Calls, Sending
<1>2. Live
  BY <1>1 DEF RefuseChild, PushNode
<1>3. /\ d \in Decls /\ Kind(d) # "only"
      /\ \A id \in WrittenIds(d) :
            Matches(d, Node(d, id)) /\ Found(Last(writers), Node(d, id)) # d =>
               Ambiguous(Last(writers))
  BY <1>1, <1>2, MemberWritten
<1>4. Matches(d, Node(d, First(d))) /\ First(d) \in WrittenIds(d)
  BY <1>3, FirstFacts
<1>5. node.cont \in BOOLEAN
  BY DEF Node
<1>6. Found(Last(writers), node) # d => Ambiguous(Last(writers))
  BY <1>3, <1>4
<1>7. Head(todo).do \in {"to_sink", "push_node"}
  BY <1>1
<1> HIDE DEF d, node
<1> QED
  BY <1>1, <1>3, <1>5, <1>6, <1>7, PushWritten

(* A record keeps what comes in it.                                        *)
LEMMA RecordReads ==
    ASSUME NEW w \in Decls, Kind(w) = "record", NEW node
    PROVE  Found(w, node) = w
BY DEF Found

LEMMA WriteChildInv ==
    ASSUME DInv, WInv, WriteChild
    PROVE  WInv'
<1> DEFINE d == Head(todo).decl
           node == [id |-> Head(todo).id, cont |-> FALSE]
<1>1. /\ sender = "serializer" /\ sender' = sender /\ todo # <<>>
      /\ Head(todo).do = "push_node"
      /\ RefuseChild(node) \/ PushNode(node)
      /\ NoteReader(d, node)
      /\ todo' = Tail(todo) /\ writers' = writers /\ lossy' = lossy
  BY DEF WriteChild, Calls, Sending
<1>2. Live
  BY <1>1 DEF RefuseChild, PushNode
<1>3. /\ todo \in Seq(CallType) /\ writers \in Seq(Decls) /\ writers # <<>> /\ PartsLeft
  BY <1>1, <1>2, SendingFacts DEF SendingState
<1>4. PICK e : Parted(e, writers, todo)
  BY <1>3 DEF PartsLeft
<1>5. /\ Last(writers) \in Decls /\ Kind(Last(writers)) = "record"
      /\ Head(todo) = Push(Last(writers))
  BY <1>1, <1>3, <1>4, HeadFacts
<1>6. d = Last(writers)
  BY <1>5 DEF Push, Call
<1>7. node.cont \in BOOLEAN
  OBVIOUS
<1> HIDE DEF node, d
<1>8. Found(Last(writers), node) = d /\ d \in Decls
  BY <1>5, <1>6, RecordReads
<1>9. Head(todo).do \in {"to_sink", "push_node"}
  BY <1>1
<1> QED
  BY <1>1, <1>7, <1>8, <1>9, PushWritten

LEMMA WriteNestedInv ==
    ASSUME DInv, WInv, WriteNested
    PROVE  WInv'
<1> DEFINE d == Head(todo).decl
           w == Last(writers)
           node == [id |-> Head(todo).id, cont |-> TRUE]
           s == -1
           p == 2
<1>0. s \in Int /\ s >= -1 /\ \A x \in Int : x + s = x - 1
  OBVIOUS
<1> HIDE DEF s
<1>1. /\ sender = "serializer" /\ sender' = sender /\ todo # <<>>
      /\ Head(todo).do = "start_container"
      /\ RefuseChild(node) \/ StartContainer(node)
      /\ NoteReader(d, node)
      /\ todo' = Tail(todo) /\ writers' = Append(writers, d) /\ lossy' = lossy
  BY DEF WriteNested, Calls, Sending
<1>2. Live
  BY <1>1 DEF RefuseChild, StartContainer
<1>3. /\ todo \in Seq(CallType) /\ writers \in Seq(Decls) /\ writers # <<>> /\ PartsLeft
      /\ lossy \in BOOLEAN
  BY <1>1, <1>2, SendingFacts DEF SendingState
<1>4. ASSUME NEW e, Parted(e, writers, todo)
      PROVE  /\ w \in Decls /\ Kind(w) = "record" /\ e[Len(writers)] = 4
             /\ Head(todo) = Start(w) /\ todo[2] = Push(w) /\ todo[3] = End(w)
             /\ Len(writers) \in Nat \ {0} /\ 4 \in 0..(Len(todo) + 1)
  <2>1. /\ w \in Decls /\ Kind(w) = "record" /\ e[Len(writers)] = 4
        /\ Head(todo) = Start(w) /\ todo[2] = Push(w) /\ todo[3] = End(w)
        /\ Len(writers) \in Nat \ {0}
    BY <1>1, <1>3, <1>4, HeadFacts
  <2>2. Len(writers) \in 1..(Len(writers) + 1)
    BY <2>1
  <2>3. e[Len(writers)] \in 0..(Len(todo) + 1)
    BY <1>4, <2>2 DEF Parted
  <2> QED
    BY <2>1, <2>3
<1>5. PICK e : Parted(e, writers, todo)
  BY <1>3 DEF PartsLeft
<1>6. /\ w \in Decls /\ Kind(w) = "record"
      /\ Head(todo) = Start(w) /\ todo[2] = Push(w) /\ todo[3] = End(w)
      /\ 4 \in 0..(Len(todo) + 1)
  BY <1>4, <1>5
<1>7. d = w
  BY <1>6 DEF Start, Call
<1>8. node.cont \in BOOLEAN
  OBVIOUS
<1> HIDE DEF node, d, w
<1>9. Found(w, node) = d /\ d \in Decls /\ Kind(d) # "value"
  BY <1>6, <1>7, RecordReads
<1>10. /\ todo' \in Seq(CallType) /\ Len(todo) \in Nat /\ Len(todo') = Len(todo) - 1
       /\ \A j \in 1..(Len(todo) - 1) : todo'[j] = todo[j + 1]
  BY <1>1, <1>3, TailFacts
<1>11. Len(todo') = Len(todo) + s
  BY <1>0, <1>10
<1>12. ASSUME NEW j \in 2..Len(todo) PROVE todo'[j + s] = todo[j]
  <2>1. j + s = j - 1 /\ j - 1 \in 1..(Len(todo) - 1) /\ (j - 1) + 1 = j
    BY <1>0, <1>10
  <2> QED
    BY <1>10, <2>1
<1>13. todo'[1] = Push(w) /\ todo'[2] = End(w)
  <2>1. 1 \in 1..(Len(todo) - 1) /\ 2 \in 1..(Len(todo) - 1) /\ 1 + 1 = 2 /\ 2 + 1 = 3
    BY <1>6, <1>10
  <2> QED
    BY <1>6, <1>10, <2>1
<1>14. todo'[2].do = "end_container"
  BY <1>13 DEF End, Call
<1>15. Part(d, todo', 0, 2) /\ Part(w, todo', 2, 3)
  BY <1>6, <1>7, <1>13 DEF Part
<1>16. Due(d, 0, 2 - 1)
  BY <1>6, <1>7 DEF Due
<1>17. ASSUME NEW f, Parted(f, writers, todo) PROVE Opens(f, writers, todo', s, 2)
  <2>1. f[Len(writers)] = 4 /\ 4 + s = 3
    BY <1>0, <1>4, <1>17
  <2>2. 4 >= 2 /\ 2 < 4 + s
    BY <2>1
  <2> QED
    BY <1>6, <1>15, <2>1, <2>2 DEF Opens, w
<1>18. lossy' \in BOOLEAN /\ (~lossy' => ~lossy)
  BY <1>1, <1>3
<1>19. ~lossy' /\ Found(Last(writers), node) # d => Ambiguous(Last(writers))
  BY <1>9 DEF w
<1>20. /\ p \in Nat \ {0} /\ todo'[p].do = "end_container"
       /\ Part(d, todo', 0, p) /\ Due(d, 0, p - 1)
       /\ \A f : Parted(f, writers, todo) => Opens(f, writers, todo', s, p)
  BY <1>14, <1>15, <1>16, <1>17
<1> HIDE DEF p
<1>21. Starts(d, node, s, p)
  BY <1>0, <1>1, <1>8, <1>9, <1>10, <1>11, <1>12, <1>18, <1>19, <1>20 DEF Starts
<1> QED
  BY <1>0, <1>9, <1>20, <1>21, StartWritten

(* What a container of d is filled with.                                   *)
Fills(c, d) ==
    /\ c \in Seq(CallType) /\ Due(d, 0, Len(c))
    /\ Kind(d) = "record" => c \in RecordContents(d)
    /\ Kind(d) # "record" =>
          \A j \in 1..Len(c) : \E i \in DOMAIN Decl[d].members :
             c[j] = ToSink(Decl[d].members[i])

LEMMA ToSinkFacts ==
    ASSUME NEW d \in Decls, Kind(d) \notin {"value", "record"}, NEW i \in DOMAIN Decl[d].members
    PROVE  ToSink(Decl[d].members[i]) \in CallType
<1>1. Kind(d) = Decl[d].kind
  BY DeclAssumption DEF Kind
<1>2. Decl[d].members \in Seq({m \in Decls : Decl[m].kind # "only"})
  BY <1>1, DeclAssumption
<1>3. Decl[d].members[i] \in Decls
  BY <1>2
<1> QED
  BY <1>3 DEF ToSink, Call, CallType

LEMMA ContentsFill ==
    ASSUME NEW d \in Decls, Kind(d) \notin {"value", "record"}, NEW c \in Contents(d)
    PROVE  Fills(c, d)
<1> DEFINE ms == Decl[d].members
           each == [i \in DOMAIN ms |-> ToSink(ms[i])]
<1>1. Kind(d) = Decl[d].kind
  BY DeclAssumption DEF Kind
<1>2. ms \in Seq({m \in Decls : Decl[m].kind # "only"})
  BY <1>1, DeclAssumption
<1>3. DOMAIN ms = 1..Len(ms) /\ Len(ms) \in Nat
  BY <1>2
<1>4. Kind(d) \in {"seq", "array", "wrap", "only"} =>
         /\ Len(ms) = 1 /\ 1 \in DOMAIN ms /\ Head(ms) = ms[1] /\ ToSink(ms[1]) \in CallType
  <2>1. Kind(d) \in {"seq", "array", "wrap", "only"} => Len(ms) = 1
    BY <1>1, WrittenAssumption
  <2>2. Len(ms) = 1 => 1 \in DOMAIN ms
    BY <1>3
  <2>3. Head(ms) = ms[1]
    BY <1>2
  <2> QED
    BY <2>1, <2>2, <2>3, ToSinkFacts
<1>5. ASSUME NEW n \in Nat, c = Repeated(d, n), Kind(d) \in {"seq", "array"}
      PROVE  /\ c \in Seq(CallType) /\ Len(c) = n
             /\ \A j \in 1..Len(c) : \E i \in DOMAIN ms : c[j] = ToSink(ms[i])
  <2>1. 1 \in DOMAIN ms /\ Head(ms) = ms[1] /\ ToSink(ms[1]) \in CallType
    BY <1>4, <1>5
  <2> DEFINE x == ToSink(ms[1])
  <2>2. c = [i \in 1..n |-> x]
    BY <1>5, <2>1 DEF Repeated
  <2>3. x \in CallType
    BY <2>1
  <2> HIDE DEF x
  <2>4. c \in Seq(CallType) /\ Len(c) = n /\ \A j \in 1..n : c[j] = x
    BY <2>2, <2>3
  <2> QED
    BY <2>1, <2>4 DEF x
<1>6. ASSUME c = each
      PROVE  /\ c \in Seq(CallType) /\ Len(c) = Len(ms)
             /\ \A j \in 1..Len(c) : \E i \in DOMAIN ms : c[j] = ToSink(ms[i])
  <2>1. c = [i \in 1..Len(ms) |-> ToSink(ms[i])]
    BY <1>3, <1>6
  <2>2. \A i \in 1..Len(ms) : ToSink(ms[i]) \in CallType
    BY <1>3, ToSinkFacts
  <2>3. c \in Seq(CallType) /\ Len(c) = Len(ms) /\ \A j \in 1..Len(ms) : c[j] = ToSink(ms[j])
    <3> DEFINE N == Len(ms)
    <3>1. N \in Nat /\ c = [i \in 1..N |-> ToSink(ms[i])] /\ \A i \in 1..N : ToSink(ms[i]) \in CallType
      BY <1>3, <2>1, <2>2
    <3> HIDE DEF N, ms
    <3> QED
      BY <3>1 DEF N
  <2> QED
    BY <1>3, <2>3
<1> HIDE DEF ms
<1>7. CASE Kind(d) = "seq"
  <2>1. PICK n \in 0..MaxItems : c = Repeated(d, n)
    BY <1>7 DEF Contents
  <2>2. n \in Nat
    BY ObjectsAssumption
  <2> QED
    BY <1>5, <1>7, <2>1, <2>2 DEF Fills, Due, ms
<1>8. CASE Kind(d) = "array"
  <2>1. c = Repeated(d, Decl[d].count) /\ Decl[d].count \in Nat
    BY <1>1, <1>8, DeclAssumption DEF Contents
  <2> DEFINE n == Decl[d].count
  <2>2. /\ c \in Seq(CallType) /\ Len(c) = n
        /\ \A j \in 1..Len(c) : \E i \in DOMAIN ms : c[j] = ToSink(ms[i])
    BY <1>5, <1>8, <2>1
  <2>3. Due(d, 0, Len(c))
    BY <1>8, <2>1, <2>2 DEF Due
  <2> QED
    BY <1>8, <2>2, <2>3 DEF Fills, ms
<1>9. CASE Kind(d) \notin {"seq", "array"}
  <2>1. c = each
    BY <1>9 DEF Contents, ms
  <2>2. /\ c \in Seq(CallType) /\ Len(c) = Len(ms)
        /\ \A j \in 1..Len(c) : \E i \in DOMAIN ms : c[j] = ToSink(ms[i])
    BY <1>6, <2>1
  <2>3. Due(d, 0, Len(c))
    BY <1>4, <1>9, <2>2 DEF Due
  <2> QED
    BY <1>9, <2>2, <2>3 DEF Fills, ms
<1> QED
  BY <1>7, <1>8, <1>9

LEMMA RecordFills ==
    ASSUME NEW d \in Decls, Kind(d) = "record", NEW c \in RecordContents(d)
    PROVE  Fills(c, d)
<1>1. Push(d) \in CallType /\ Start(d) \in CallType /\ End(d) \in CallType
  BY DEF Push, Start, End, Call, CallType
<1>2. c \in Seq(CallType)
  <2> DEFINE x == Push(d)
             y == Start(d)
             z == End(d)
  <2>1. c \in {<<>>, <<x>>, <<y, x, z>>}
    BY DEF RecordContents
  <2>2. x \in CallType /\ y \in CallType /\ z \in CallType
    BY <1>1
  <2> HIDE DEF x, y, z
  <2>3. <<>> \in Seq(CallType)
    OBVIOUS
  <2>4. <<x>> \in Seq(CallType)
    BY <2>2
  <2>5. <<y, x, z>> \in Seq(CallType)
    BY <2>2
  <2> QED
    BY <2>1, <2>3, <2>4, <2>5
<1> QED
  BY <1>2 DEF Fills, Due

LEMMA FillsPart ==
    ASSUME NEW d, NEW c, Fills(c, d), NEW t, \A j \in 1..Len(c) : t[j] = c[j]
    PROVE  Part(d, t, 0, Len(c) + 1)
<1> DEFINE m == Len(c)
<1>1. m \in Nat
  BY DEF Fills
<1>2. CASE Kind(d) # "record"
  <2>1. \A j \in 1..m : \E i \in DOMAIN Decl[d].members : c[j] = ToSink(Decl[d].members[i])
    BY <1>2 DEF Fills
  <2>2. (0 + 1)..((m + 1) - 1) = 1..m
    BY <1>1
  <2>3. \A j \in (0 + 1)..((m + 1) - 1) :
           \E i \in DOMAIN Decl[d].members : t[j] = ToSink(Decl[d].members[i])
    BY <2>1, <2>2
  <2> HIDE DEF m
  <2>4. Part(d, t, 0, m + 1)
    BY <1>2, <2>3 DEF Part
  <2> QED
    BY <2>4 DEF m
<1>3. CASE Kind(d) = "record"
  <2>1. c \in RecordContents(d)
    BY <1>3 DEF Fills
  <2>2. CASE c = <<>>
    <3>1. m + 1 = 0 + 1
      BY <2>2
    <3> QED
      BY <1>3, <3>1 DEF Part
  <2>3. CASE c = <<Push(d)>>
    <3>1. m + 1 = 2 /\ t[1] = Push(d)
      BY <2>3
    <3> QED
      BY <1>3, <3>1 DEF Part
  <2>4. CASE c = <<Start(d), Push(d), End(d)>>
    <3>1. m = 3 /\ c[1] = Start(d) /\ c[2] = Push(d) /\ c[3] = End(d)
      BY <2>4
    <3>2. m + 1 = 4 /\ t[1] = Start(d) /\ t[2] = Push(d) /\ t[3] = End(d)
      BY <3>1
    <3> QED
      BY <1>3, <3>2 DEF Part
  <2> QED
    BY <2>1, <2>2, <2>3, <2>4 DEF RecordContents
<1> QED
  BY <1>2, <1>3

(* The calls after a start_container of d.                                 *)
StartedFacts(t, c, d, calls) ==
    LET m == Len(c) IN
    /\ m \in Nat /\ t \in Seq(CallType) /\ Len(t) = Len(calls) + m
    /\ t[m + 1] = End(d)
    /\ \A j \in 1..m : t[j] = c[j]
    /\ \A j \in 2..Len(calls) : t[j + m] = calls[j]

LEMMA StartedCalls ==
    ASSUME NEW d \in Decls, NEW c \in Seq(CallType), NEW calls \in Seq(CallType),
           calls # <<>>
    PROVE  StartedFacts(c \o <<End(d)>> \o Tail(calls), c, d, calls)
<1> DEFINE m == Len(c)
           u == c \o <<End(d)>>
           v == Tail(calls)
           t == u \o v
<1>1. End(d) \in CallType
  BY DEF End, Call, CallType
<1>2. /\ Len(calls) \in Nat \ {0} /\ v \in Seq(CallType) /\ Len(v) = Len(calls) - 1
      /\ \A j \in 1..(Len(calls) - 1) : v[j] = calls[j + 1]
  BY TailFacts
<1>3. m \in Nat
  OBVIOUS
<1>4. /\ u \in Seq(CallType) /\ Len(u) = m + 1 /\ u[m + 1] = End(d)
      /\ \A j \in 1..m : u[j] = c[j]
  BY <1>1
<1> HIDE DEF u, v, m
<1>5. /\ t \in Seq(CallType) /\ Len(t) = Len(u) + Len(v)
      /\ \A j \in 1..Len(u) : t[j] = u[j]
      /\ \A j \in 1..Len(v) : t[Len(u) + j] = v[j]
  <2>1. t \in Seq(CallType) /\ Len(t) = Len(u) + Len(v)
    BY <1>2, <1>4, ConcatProperties
  <2>2. \A i \in 1..(Len(u) + Len(v)) : t[i] = IF i <= Len(u) THEN u[i] ELSE v[i - Len(u)]
    BY <1>2, <1>4, ConcatProperties
  <2> HIDE DEF t
  <2>3. Len(u) \in Nat /\ Len(v) \in Nat
    BY <1>2, <1>4, LenProperties
  <2>4. ASSUME NEW j \in 1..Len(u) PROVE t[j] = u[j]
    <3>1. j \in 1..(Len(u) + Len(v)) /\ j <= Len(u)
      BY <2>3
    <3> QED
      BY <2>2, <3>1
  <2>5. ASSUME NEW j \in 1..Len(v) PROVE t[Len(u) + j] = v[j]
    <3>1. /\ Len(u) + j \in 1..(Len(u) + Len(v)) /\ ~(Len(u) + j <= Len(u))
          /\ (Len(u) + j) - Len(u) = j
      BY <2>3
    <3> QED
      BY <2>2, <3>1
  <2> QED
    BY <2>1, <2>4, <2>5
<1> HIDE DEF t
<1>6. Len(t) = Len(calls) + m
  BY <1>2, <1>3, <1>4, <1>5
<1>7. t[m + 1] = End(d) /\ \A j \in 1..m : t[j] = c[j]
  <2>1. m + 1 \in 1..(m + 1) /\ \A j \in 1..m : j \in 1..(m + 1)
    BY <1>3
  <2> QED
    BY <1>4, <1>5, <2>1
<1>8. ASSUME NEW j \in 2..Len(calls) PROVE t[j + m] = calls[j]
  <2>1. /\ j - 1 \in 1..(Len(calls) - 1) /\ (m + 1) + (j - 1) = j + m /\ (j - 1) + 1 = j
    BY <1>2, <1>3
  <2>2. j - 1 \in 1..Len(v) /\ v[j - 1] = calls[j]
    BY <1>2, <2>1
  <2>3. t[(m + 1) + (j - 1)] = v[j - 1]
    BY <1>4, <1>5, <2>2
  <2> QED
    BY <2>1, <2>2, <2>3
<1> QED
  BY <1>3, <1>5, <1>6, <1>7, <1>8 DEF StartedFacts, m, t, u, v

(* A member is written as a container, with all that it is filled with.    *)
LEMMA ContainerStarts ==
    ASSUME DInv, WInv, sender = "serializer", sender' = sender, todo # <<>>,
           Head(todo).do = "to_sink", NEW d \in Decls, Kind(d) # "value",
           NEW id, NEW c, Fills(c, d), WriteStart(d, Node(d, id), c),
           lossy' \in BOOLEAN, ~lossy' => ~lossy,
           ~lossy' /\ Found(Last(writers), Node(d, id)) # d => Ambiguous(Last(writers))
    PROVE  WInv'
<1> DEFINE m == Len(c)
           p == m + 1
           node == Node(d, id)
<1>1. /\ RefuseChild(node) \/ StartContainer(node)
      /\ NoteReader(d, node)
      /\ todo' = c \o <<End(d)>> \o Tail(todo)
      /\ writers' = Append(writers, d)
  BY DEF WriteStart
<1>2. Live
  BY <1>1 DEF RefuseChild, StartContainer
<1>3. /\ todo \in Seq(CallType) /\ writers \in Seq(Decls) /\ writers # <<>>
  BY <1>2, SendingFacts DEF SendingState
<1>4. c \in Seq(CallType) /\ Due(d, 0, m)
  BY DEF Fills
<1>5. /\ m \in Nat /\ todo' \in Seq(CallType) /\ Len(todo') = Len(todo) + m
      /\ todo'[p] = End(d)
      /\ \A j \in 1..m : todo'[j] = c[j]
      /\ \A j \in 2..Len(todo) : todo'[j + m] = todo[j]
  <2>1. StartedFacts(todo', c, d, todo)
    BY <1>1, <1>3, <1>4, StartedCalls
  <2> QED
    BY <2>1 DEF StartedFacts
<1>6. Part(d, todo', 0, p)
  BY <1>5, FillsPart
<1>7. node.cont \in BOOLEAN
  BY DEF Node
<1>8. todo'[p].do = "end_container"
  BY <1>5 DEF End, Call
<1>9. p \in Nat \ {0} /\ p - 1 = m /\ m >= -1 /\ 1 + m = p /\ m \in Int
  BY <1>5
<1> HIDE DEF p, m, node
<1>10. ASSUME NEW e, Parted(e, writers, todo)
       PROVE  Opens(e, writers, todo', m, p)
  <2> DEFINE n == Len(writers)
             w == Last(writers)
             b == e[n]
             a == 1
  <2>1. n \in Nat \ {0} /\ w = writers[n] /\ Kind(w) # "record" /\ b >= 2
    BY <1>3, <1>10, HeadFacts
  <2>2. /\ b \in 0..(Len(todo) + 1) /\ Len(todo) \in Nat
        /\ e[n + 1] = 0 /\ Part(w, todo, 0, b)
    <3>1. n \in 1..n /\ n \in 1..(n + 1) /\ Len(todo) \in Nat
      BY <1>3, <2>1
    <3>2. /\ e \in [1..(n + 1) -> 0..(Len(todo) + 1)] /\ e[n + 1] = 0
          /\ Part(writers[n], todo, e[n + 1], e[n])
      BY <1>10, <3>1 DEF Parted
    <3> QED
      BY <2>1, <3>1, <3>2
  <2> HIDE DEF b, w, n
  <2>3. b \in Nat /\ Part(w, todo, a, b) /\ a \in Int /\ a + m = p
    BY <1>9, <2>1, <2>2, PartLess
  <2>4. ASSUME NEW j \in (a + 1)..(b - 1) PROVE todo'[j + m] = todo[j]
    <3>1. j \in 2..Len(todo)
      BY <2>2
    <3> QED
      BY <1>5, <3>1
  <2> HIDE DEF a
  <2>5. Part(w, todo', a + m, b + m)
    <3>1. a \in Int /\ b \in Int /\ m \in Int /\ (Kind(w) = "record" => b = a + 1)
      BY <1>9, <2>1, <2>3
    <3>2. Part(w, todo, a, b)
      BY <2>3
    <3> QED
      BY <2>4, <3>1, <3>2, PartMoved
  <2>6. p < b + m /\ b + m - p - 1 = (b - e[n + 1] - 1) - 1
    BY <1>9, <2>1, <2>2
  <2>7. b >= 2 /\ p < b + m /\ Part(w, todo', p, b + m)
    BY <2>1, <2>3, <2>5, <2>6
  <2> QED
    BY <2>6, <2>7 DEF Opens, b, w, n
<1>11. ~lossy' /\ Found(Last(writers), node) # d => Ambiguous(Last(writers))
  BY DEF node
<1>12. Due(d, 0, p - 1)
  BY <1>4, <1>9 DEF m
<1>13. Starts(d, node, m, p)
  BY <1>1, <1>5, <1>6, <1>7, <1>8, <1>9, <1>10, <1>11, <1>12 DEF Starts
<1> QED
  BY <1>9, <1>13, StartWritten

LEMMA WriteContainerInv ==
    ASSUME DInv, WInv, WriteContainer
    PROVE  WInv'
<1> DEFINE d == Head(todo).decl
           id == First(d)
<1>1. /\ sender = "serializer" /\ sender' = sender /\ todo # <<>>
      /\ Head(todo).do = "to_sink" /\ Kind(d) \notin {"value", "record"}
      /\ \E c \in Contents(d) : WriteStart(d, Node(d, id), c)
      /\ lossy' = lossy
  BY DEF WriteContainer, Calls, Sending
<1>2. PICK c \in Contents(d) : WriteStart(d, Node(d, id), c)
  BY <1>1
<1>3. Live
  BY <1>2 DEF WriteStart, RefuseChild, StartContainer
<1>4. /\ d \in Decls /\ Kind(d) # "only"
      /\ \A x \in WrittenIds(d) :
            Matches(d, Node(d, x)) /\ Found(Last(writers), Node(d, x)) # d =>
               Ambiguous(Last(writers))
  BY <1>1, <1>3, MemberWritten
<1>5. Matches(d, Node(d, id)) /\ id \in WrittenIds(d)
  BY <1>4, FirstFacts
<1>6. Found(Last(writers), Node(d, id)) # d => Ambiguous(Last(writers))
  BY <1>4, <1>5
<1>7. Fills(c, d)
  BY <1>1, <1>4, ContentsFill
<1>8. lossy' \in BOOLEAN
  BY <1>1 DEF WInv
<1> HIDE DEF d, id
<1> QED
  BY <1>1, <1>2, <1>4, <1>6, <1>7, <1>8, ContainerStarts

LEMMA WriteRecordInv ==
    ASSUME DInv, WInv, WriteRecord
    PROVE  WInv'
<1> DEFINE d == Head(todo).decl
<1>1. /\ sender = "serializer" /\ sender' = sender /\ todo # <<>>
      /\ Head(todo).do = "to_sink" /\ Kind(d) = "record"
  BY DEF WriteRecord, Calls, Sending
<1>2. PICK id \in RecordIds \cup {First(d)}, c \in RecordContents(d) :
         /\ WriteStart(d, Node(d, id), c)
         /\ lossy' = (lossy \/ ~Matches(d, Node(d, id)))
  BY DEF WriteRecord
<1>3. Live
  BY <1>2 DEF WriteStart, RefuseChild, StartContainer
<1>4. /\ d \in Decls /\ Kind(d) # "only"
      /\ \A x \in WrittenIds(d) :
            Matches(d, Node(d, x)) /\ Found(Last(writers), Node(d, x)) # d =>
               Ambiguous(Last(writers))
  BY <1>1, <1>3, MemberWritten
<1>5. Matches(d, Node(d, id)) => id \in WrittenIds(d)
  BY <1>1 DEF Matches, Node, WrittenIds
<1>6. ~lossy' => ~lossy /\ Matches(d, Node(d, id))
  BY <1>2
<1>7. ~lossy' /\ Found(Last(writers), Node(d, id)) # d => Ambiguous(Last(writers))
  BY <1>4, <1>5, <1>6
<1>8. Fills(c, d)
  BY <1>1, <1>4, RecordFills
<1>9. lossy' \in BOOLEAN
  <2>1. lossy \in BOOLEAN
    BY DEF WInv
  <2> QED
    BY <1>2, <2>1
<1>10. Kind(d) # "value"
  BY <1>1
<1> HIDE DEF d
<1> QED
  BY <1>1, <1>2, <1>4, <1>6, <1>7, <1>8, <1>9, <1>10, ContainerStarts

(* A serializer that returns has written its object.                       *)
LEMMA SomethingLeft ==
    ASSUME DInv, WInv, status = "live", sender = "serializer", Faithful
    PROVE  todo # <<>>
<1> SUFFICES ASSUME todo = <<>> PROVE FALSE
  OBVIOUS
<1> DEFINE n == Len(open)
<1>1. /\ writers \in Seq(Decls) /\ Kind(writers[1]) = "only"
      /\ n \in Nat \ {0} /\ Len(writers) = n
      /\ PartsLeft /\ Aligned(writers, open)
  BY SendingNow DEF SendingState
<1>2. PICK e : Parted(e, writers, todo) /\ AllDue(e, writers, open)
  BY <1>1 DEF PartsLeft
<1>3. /\ e \in [1..(n + 1) -> 0..(0 + 1)] /\ e[n + 1] = 0 /\ e[1] = 0 + 1
      /\ \A k \in 1..n : e[k + 1] < e[k]
  <2>1. Len(todo) = 0
    OBVIOUS
  <2> QED
    BY <1>1, <1>2, <2>1 DEF Parted
<1> HIDE DEF n
<1>4. n = 1
  <2> SUFFICES ASSUME n # 1 PROVE FALSE
    OBVIOUS
  <2>1. 1 \in 1..n /\ 2 \in 1..n /\ 1 + 1 = 2 /\ 2 + 1 = 3 /\ 3 \in 1..(n + 1) /\ 2 \in 1..(n + 1)
    BY <1>1
  <2>2. e[2] < e[1] /\ e[3] < e[2]
    BY <1>3, <2>1
  <2>3. e[3] \in 0..(0 + 1) /\ e[2] \in 0..(0 + 1)
    BY <1>3, <2>1
  <2> QED
    BY <1>3, <2>2, <2>3
<1>5. /\ writers[1] = open[1].decl
      /\ Due(writers[1], open[1].found, e[1] - e[1 + 1] - 1)
  <2>1. 1 \in 1..Len(open) /\ 1 \in 1..Len(writers)
    BY <1>1, <1>4 DEF n
  <2> QED
    BY <1>1, <1>2, <2>1 DEF Aligned, AllDue
<1>6. e[1] - e[1 + 1] - 1 = 0
  BY <1>3, <1>4
<1>7. open[1].found + 0 = 1
  BY <1>1, <1>5, <1>6 DEF Due
<1>8. Chained(levels, open) /\ AllCounted(levels, open)
  BY DEF DInv
<1>9. Len(levels) = 1
  <2>1. Len(levels) \in Nat \ {0} /\ Len(levels) <= 1
    BY <1>4, <1>8, ChainedFacts DEF n
  <2>2. \A k \in Nat \ {0} : k <= 1 => k = 1
    OBVIOUS
  <2> QED
    BY <2>1, <2>2
<1>10. 1 \in 1..Len(levels)
  BY <1>9
<1>11. levels[1].decl = open[1].decl /\ ItemsCounted(levels[1], open[1], TRUE)
  BY <1>8, <1>9, <1>10 DEF Chained, AllCounted
<1>12. open[1].found = 0
  BY <1>1, <1>5, <1>11 DEF ItemsCounted
<1> QED
  BY <1>7, <1>12

LEMMA SatisfiedFacts ==
    ASSUME DInv, WInv, sender = "serializer", status = "refused"
    PROVE  ~ChildThrows /\ ~DestructorThrows /\ ~Unmet(open[1])
<1>1. Len(levels) = 1 /\ levels[1].decl = open[1].decl /\ levels[1].found
  BY DEF WInv, Satisfied
<1>2. Kind(open[1].decl) = "only" /\ open[1].found = 1
  BY DEF DInv
<1>3. ~Missing(levels[1])
  BY <1>1, <1>2 DEF Missing
<1>4. ~FinalizeThrows(levels, 1)
  <2>1. \A k \in 1..Len(levels) : k = 1
    BY <1>1
  <2> QED
    BY <1>3, <2>1 DEF FinalizeThrows
<1>5. ~DestructorThrows
  <2>1. \A i \in 1..(Len(levels) - 1) : FALSE
    BY <1>1
  <2> QED
    BY <2>1 DEF DestructorThrows
<1> QED
  BY <1>1, <1>2, <1>4, <1>5 DEF ChildThrows, Unmet

LEMMA ReturnInv ==
    ASSUME DInv, WInv, Return
    PROVE  WInv'
<1>1. /\ sender = "serializer" /\ sender' = sender
      /\ todo' = todo /\ writers' = writers /\ misread' = misread /\ lossy' = lossy
      /\ todo = <<>> \/ status # "live"
      /\ (status # "thrown" /\ EndOfStream) \/ Destroy \/ Gone
  BY DEF Return, writerVars
<1>2. /\ lossy \in BOOLEAN
      /\ todo \in Seq(CallType) /\ writers \in Seq(Decls)
      /\ ~lossy => \A d \in misread : Ambiguous(d)
      /\ Faithful =>
            /\ status \in {"live", "refused", "ended", "destroyed"}
            /\ status # "live" => todo = <<>>
            /\ unmet = {}
            /\ \A i \in 1..Len(open) : ~open[i].foreign
      /\ status = "ended" => levels = <<>>
  BY <1>1 DEF WInv
<1>3. Faithful' <=> Faithful
  BY <1>1 DEF Faithful
<1>4. ASSUME Faithful PROVE status # "live"
  BY <1>1, <1>4, SomethingLeft
<1>5. status' \notin {"live", "refused"} /\ open' = open /\ (status' = "ended" => levels' = <<>>)
  BY <1>1 DEF EndOfStream, Destroy, Gone, vars
<1>6. ASSUME Faithful
      PROVE  /\ status' \in {"ended", "destroyed"} /\ unmet' = {}
  <2>1. status \in {"refused", "ended", "destroyed"} /\ unmet = {}
    BY <1>2, <1>4, <1>6
  <2>2. status = "refused" => ~ChildThrows /\ ~DestructorThrows /\ ~Unmet(open[1])
    BY <1>1, SatisfiedFacts
  <2>3. CASE EndOfStream
    <3>1. status = "refused"
      BY <2>1, <2>3 DEF EndOfStream
    <3> QED
      BY <2>1, <2>2, <2>3, <3>1 DEF EndOfStream
  <2>4. CASE Destroy
    <3>1. ~(levels # <<>> /\ (ChildThrows \/ DestructorThrows))
      BY <1>2, <2>1, <2>2, <2>4 DEF Destroy
    <3> QED
      BY <2>1, <2>4, <3>1 DEF Destroy
  <2>5. CASE Gone
    BY <2>1, <2>5 DEF Gone, vars
  <2> QED
    BY <1>1, <2>3, <2>4, <2>5
<1>7. Faithful => todo = <<>>
  BY <1>2, <1>4
<1> QED
  BY <1>1, <1>2, <1>3, <1>5, <1>6, <1>7 DEF WInv

(* Whatever else is sent to the sink.                                      *)
LEMMA ReceiveWritten ==
    ASSUME WInv, Receive
    PROVE  WInv'
<1>1. sender = "any" /\ UNCHANGED <<writerVars, sender>>
  BY DEF Receive
<1> QED
  BY <1>1 DEF WInv, writerVars

LEMMA IdleWritten ==
    ASSUME WInv, UNCHANGED <<vars, writerVars, sender>>
    PROVE  WInv'
<1>1. /\ levels' = levels /\ status' = status /\ open' = open /\ unmet' = unmet
      /\ todo' = todo /\ writers' = writers /\ misread' = misread /\ lossy' = lossy
      /\ sender' = sender
  BY DEF vars, writerVars
<1>2. /\ Faithful' <=> Faithful
      /\ Satisfied' <=> Satisfied
      /\ PartsLeft' <=> PartsLeft
  BY <1>1 DEF Faithful, Satisfied, PartsLeft
<1> QED
  BY <1>1, <1>2 DEF WInv

LEMMA WrittenInit == ASSUME SerializerInit PROVE WInv
<1>1. misread = {} /\ lossy = FALSE
  BY DEF SerializerInit
<1>2. CASE sender = "any"
  <2>1. todo = <<>> /\ writers = <<>>
    BY <1>2 DEF SerializerInit
  <2>2. todo \in Seq(CallType) /\ writers \in Seq(Decls)
    BY <2>1
  <2> QED
    BY <1>1, <1>2, <2>2 DEF WInv
<1>3. CASE sender # "any"
  <2>1. status = "live" /\ unmet = {} /\ sender = "serializer"
    BY <1>3 DEF SerializerInit
  <2>2. PICK d \in Objects :
           /\ open = <<[decl |-> d, found |-> 0, foreign |-> FALSE]>>
           /\ todo = <<ToSink(Head(Decl[d].members))>>
           /\ writers = <<d>>
    BY <1>3 DEF SerializerInit
  <2> DEFINE ms == Decl[d].members
             o == [decl |-> d, found |-> 0, foreign |-> FALSE]
             c == ToSink(Head(ms))
  <2>3. d \in Decls /\ Decl[d].kind = "only" /\ Kind(d) = "only"
    BY ObjectsAssumption, DeclAssumption DEF Kind
  <2>4. /\ Len(ms) = 1 /\ 1 \in DOMAIN ms /\ Head(ms) = ms[1] /\ c \in CallType
    <3>1. Len(ms) = 1
      BY <2>3, WrittenAssumption
    <3>2. ms \in Seq({m \in Decls : Decl[m].kind # "only"})
      BY <2>3, DeclAssumption
    <3>3. DOMAIN ms = 1..Len(ms) /\ Head(ms) = ms[1]
      BY <3>2
    <3>4. 1 \in DOMAIN ms
      BY <3>1, <3>3
    <3> QED
      BY <2>3, <3>1, <3>3, <3>4, ToSinkFacts
  <2> HIDE DEF o
  <2>5. o.decl = d /\ o.found = 0 /\ ~o.foreign /\ open = <<o>>
    BY <2>2 DEF o
  <2>6. Len(open) = 1 /\ open[1] = o
    BY <2>5
  <2>7. writers \in Seq(Decls) /\ Len(writers) = 1 /\ writers[1] = d
    BY <2>2, <2>3
  <2>8. todo = <<c>> /\ c = ToSink(ms[1])
    BY <2>2, <2>4
  <2> HIDE DEF c, ms
  <2>9. todo \in Seq(CallType) /\ Len(todo) = 1 /\ todo[1] = c
    BY <2>4, <2>8
  <2>10. \A k \in 1..1 : k = 1
    OBVIOUS
  <2> DEFINE e == [k \in 1..2 |-> IF k = 1 THEN 2 ELSE 0]
  <2>11. /\ e \in [1..(1 + 1) -> 0..(1 + 1)] /\ e[1] = 2 /\ e[2] = 0
    OBVIOUS
  <2> HIDE DEF e
  <2>12. Part(d, todo, 0, 2)
    <3>1. \A j \in (0 + 1)..(2 - 1) : j = 1
      OBVIOUS
    <3>2. \E i \in DOMAIN Decl[d].members : todo[1] = ToSink(Decl[d].members[i])
      BY <2>4, <2>8, <2>9 DEF ms
    <3> QED
      BY <2>3, <3>1, <3>2 DEF Part
  <2>13. Parted(e, writers, todo)
    <3>1. \A k \in 2..1 : FALSE
      OBVIOUS
    <3>2. ASSUME NEW k \in 1..1
          PROVE  e[k + 1] < e[k] /\ Part(writers[k], todo, e[k + 1], e[k])
      <4>1. k = 1 /\ k + 1 = 2
        OBVIOUS
      <4> QED
        BY <2>7, <2>11, <2>12, <4>1
    <3>3. e[1 + 1] = 0 /\ e[1] = 1 + 1
      BY <2>11
    <3> QED
      BY <2>7, <2>9, <2>11, <3>1, <3>2, <3>3 DEF Parted
  <2>14. AllDue(e, writers, open)
    <3>1. Due(d, 0, 2 - 0 - 1)
      BY <2>3 DEF Due
    <3>2. ASSUME NEW k \in 1..1
          PROVE  Due(writers[k], open[k].found, e[k] - e[k + 1] - 1)
      <4>1. k = 1 /\ k + 1 = 2
        OBVIOUS
      <4> QED
        BY <2>5, <2>6, <2>7, <2>11, <3>1, <4>1
    <3> QED
      BY <2>7, <3>2 DEF AllDue
  <2>15. PartsLeft
    BY <2>13, <2>14 DEF PartsLeft
  <2>16. Aligned(writers, open)
    BY <2>5, <2>6, <2>7, <2>10 DEF Aligned
  <2>17. /\ Len(writers) = Len(open) /\ Kind(writers[1]) = "only"
         /\ \A k \in 1..Len(writers) : Kind(writers[k]) # "value"
         /\ \A i \in 1..Len(open) : ~open[i].foreign
    BY <2>3, <2>5, <2>6, <2>7, <2>10
  <2> QED
    BY <1>1, <2>1, <2>7, <2>9, <2>15, <2>16, <2>17 DEF WInv
<1> QED
  BY <1>2, <1>3

LEMMA WrittenStep ==
    ASSUME DInv, WInv, [SerializerNext]_<<vars, writerVars, sender>>
    PROVE  WInv'
<1>1. CASE WriteValue
  BY <1>1, WriteValueInv
<1>2. CASE WriteContainer
  BY <1>2, WriteContainerInv
<1>3. CASE WriteRecord
  BY <1>3, WriteRecordInv
<1>4. CASE OmitRecord
  BY <1>4, OmitRecordWritten
<1>5. CASE WriteChild
  BY <1>5, WriteChildInv
<1>6. CASE WriteNested
  BY <1>6, WriteNestedInv
<1>7. CASE WriteEnd
  BY <1>7, EndWritten
<1>8. CASE Return
  BY <1>8, ReturnInv
<1>9. CASE Receive
  BY <1>9, ReceiveWritten
<1>10. CASE UNCHANGED <<vars, writerVars, sender>>
  BY <1>10, IdleWritten
<1> QED
  BY <1>1, <1>2, <1>3, <1>4, <1>5, <1>6, <1>7, <1>8, <1>9, <1>10 DEF SerializerNext

(* The calls that are left are always those that complete what is open.    *)
LEMMA WInvHolds == SerializerSpec => [](DInv /\ WInv)
<1>1. SerializerInit => DInv /\ WInv
  BY SerializerInitInv, WrittenInit
<1>2. DInv /\ WInv /\ [SerializerNext]_<<vars, writerVars, sender>> => (DInv /\ WInv)'
  BY SerializerStepInv, WrittenStep
<1> QED
  BY <1>1, <1>2, PTL DEF SerializerSpec

(* All that serialize_to_sink writes of an object, whatever the            *)
(* declarations and the object, is read in the same place by the           *)
(* declaration that has written it; only an earlier member of a struct may *)
(* take what a later one is written as.                                    *)
THEOREM SerializerWrittenIsRecognised == SerializerSpec => []WrittenIsRecognised
<1>1. ASSUME DInv, WInv PROVE WrittenIsRecognised
  <2>1. ~lossy => \A d \in misread : Ambiguous(d)
    BY <1>1 DEF WInv
  <2>2. ASSUME sender = "serializer", status = "live", ~lossy, misread = {}
        PROVE  InPlace
    <3>1. /\ writers \in Seq(Decls) /\ open \in Seq(OpenType)
          /\ Aligned(writers, open)
      BY <1>1, <2>2, SendingNow DEF SendingState, Faithful
    <3> QED
      BY <3>1, AlignedFacts DEF InPlace
  <2> QED
    BY <2>1, <2>2 DEF WrittenIsRecognised
<1> QED
  BY <1>1, WInvHolds, PTL

(* An object that has been written is read without an exception, complete  *)
(* and to its end, however its containers are nested: no array is too      *)
(* short or too long, no wrapper or stream is without its child, and only  *)
(* refuses no event but the last.                                          *)
THEOREM SerializerWrittenIsAccepted == SerializerSpec => []WrittenIsAccepted
<1>1. ASSUME DInv, WInv PROVE WrittenIsAccepted
  <2>1. ASSUME sender = "serializer", ~lossy, misread = {}
        PROVE  /\ status \in {"live", "refused", "ended", "destroyed"}
               /\ status # "live" => todo = <<>>
               /\ unmet = {}
               /\ \A i \in 1..Len(open) : ~open[i].foreign
    BY <1>1, <2>1 DEF WInv, Faithful
  <2>2. DOMAIN open = 1..Len(open)
    BY <1>1 DEF DInv, TypeOK
  <2> QED
    BY <2>1, <2>2 DEF WrittenIsAccepted
<1> QED
  BY <1>1, WInvHolds, PTL

(* The numbers of nodes in a record, counted from the outermost of its     *)
(* containers, which is at m.                                              *)
Counts(s, os, m) ==
    /\ s \in [m..Len(os) -> Nat]
    /\ s[m] = os[m].found
    /\ \A k \in (m + 1)..Len(os) : s[k] = os[k].found + s[k - 1]

LEMMA InsideCounts ==
    ASSUME open \in Seq(OpenType), NEW m \in 1..Len(open), NEW s, Counts(s, open, m)
    PROVE  Inside(m) = s[Len(open)]
<1> DEFINE n == Len(open)
           G(f) == [k \in m..Len(open) |-> open[k].found + (IF k = m THEN 0 ELSE f[k - 1])]
           F == CHOOSE f : f = G(f)
           T == {k \in m..n : F[k] # s[k]}
<1>1. Inside(m) = F[n]
  BY DEF Inside
<1>2. n \in Nat /\ m \in Nat \ {0} /\ m \in m..n /\ n \in m..n
  OBVIOUS
<1>3. \A k \in m..n : open[k].found \in Nat
  <2>1. \A k \in m..n : k \in 1..n
    BY <1>2
  <2>2. \A k \in 1..n : open[k] \in OpenType
    OBVIOUS
  <2> QED
    BY <2>1, <2>2, OpenFields
<1>4. s = G(s)
  <2>1. s = [k \in m..n |-> s[k]]
    BY DEF Counts
  <2>2. ASSUME NEW k \in m..n
        PROVE  s[k] = open[k].found + (IF k = m THEN 0 ELSE s[k - 1])
    <3>1. CASE k = m
      BY <1>3, <3>1 DEF Counts
    <3>2. CASE k # m
      <4>1. k \in (m + 1)..n
        BY <1>2, <3>2
      <4> QED
        BY <3>2, <4>1 DEF Counts
    <3> QED
      BY <3>1, <3>2
  <2> QED
    BY <2>1, <2>2
<1>5. F = G(F)
  <2> HIDE DEF G
  <2> QED
    BY <1>4
<1>6. \A k \in m..n : F[k] = open[k].found + (IF k = m THEN 0 ELSE F[k - 1])
  <2> HIDE DEF F
  <2>1. F = [k \in m..n |-> open[k].found + (IF k = m THEN 0 ELSE F[k - 1])]
    BY <1>5
  <2> HIDE DEF G
  <2> QED
    BY <2>1, Zenon
<1> HIDE DEF F, G
<1>7. T = {}
  <2> SUFFICES ASSUME T # {} PROVE FALSE
    OBVIOUS
  <2>1. T \in SUBSET Nat
    BY <1>2
  <2>2. PICK k \in T : \A j \in T : k <= j
    BY <2>1, MinExists
  <2>3. k \in m..n /\ F[k] # s[k]
    BY <2>2
  <2>4. k # m
    BY <1>2, <1>3, <1>6, <2>3 DEF Counts
  <2>5. k \in (m + 1)..n /\ k - 1 \in m..n /\ ~(k <= k - 1)
    BY <1>2, <2>3, <2>4
  <2>6. F[k - 1] = s[k - 1]
    BY <2>2, <2>5
  <2>7. F[k] = open[k].found + F[k - 1]
    BY <1>6, <2>3, <2>4
  <2>8. s[k] = open[k].found + s[k - 1]
    BY <2>5 DEF Counts
  <2> QED
    BY <2>3, <2>6, <2>7, <2>8
<1> QED
  BY <1>1, <1>2, <1>7

(* A record that is being read has what is in its containers.              *)
CInv ==
    status = "live" /\ Kind(Last(levels).decl) = "record" =>
        \E s : Counts(s, open, Len(levels)) /\ s[Len(open)] = Last(levels).offs

(* One node more in the innermost container.                               *)
LEMMA CountsNoted ==
    ASSUME NEW os \in Seq(OpenType), NEW t \in Seq(OpenType), os # <<>>, SameBelow(os, t),
           Last(t).found = Last(os).found + 1,
           NEW m \in 1..Len(os), NEW s, Counts(s, os, m)
    PROVE  LET n == Len(os)
               u == [s EXCEPT ![n] = s[n] + 1]
           IN  Counts(u, t, m) /\ u[n] = s[n] + 1
<1> DEFINE n == Len(os)
           x == s[n] + 1
           u == [s EXCEPT ![n] = x]
<1>1. /\ n \in Nat \ {0} /\ Len(t) = n /\ Last(t) = t[n] /\ Last(os) = os[n]
      /\ \A k \in 1..(n - 1) : t[k] = os[k]
  BY LastFacts DEF SameBelow, Last
<1>2. m \in Nat \ {0} /\ m <= n /\ n \in m..n /\ m \in m..n
  BY <1>1
<1>3. /\ s \in [m..n -> Nat] /\ s[m] = os[m].found
      /\ \A k \in (m + 1)..n : s[k] = os[k].found + s[k - 1]
  BY DEF Counts
<1>4. x \in Nat
  BY <1>2, <1>3
<1> HIDE DEF x
<1>5. u \in [m..n -> Nat] /\ u[n] = x /\ \A k \in m..n : k # n => u[k] = s[k]
  BY <1>2, <1>3, <1>4
<1> HIDE DEF u
<1>6. os[n].found \in Nat /\ t[n].found = os[n].found + 1
  <2>1. os[n] \in OpenType
    BY <1>1
  <2> QED
    BY <1>1, <2>1, OpenFields
<1>7. u[m] = t[m].found
  <2>1. CASE m = n
    BY <1>3, <1>5, <1>6, <2>1 DEF x
  <2>2. CASE m # n
    <3>1. m \in 1..(n - 1)
      BY <1>2, <2>2
    <3> QED
      BY <1>1, <1>2, <1>3, <1>5, <2>2, <3>1
  <2> QED
    BY <2>1, <2>2
<1>8. ASSUME NEW k \in (m + 1)..n PROVE u[k] = t[k].found + u[k - 1]
  <2>1. k \in m..n /\ k - 1 \in m..n /\ k - 1 # n /\ k \in Nat
    BY <1>2
  <2>2. u[k - 1] = s[k - 1] /\ s[k - 1] \in Nat
    BY <1>3, <1>5, <2>1
  <2>3. s[k] = os[k].found + s[k - 1]
    BY <1>3
  <2>4. CASE k = n
    BY <1>5, <1>6, <2>2, <2>3, <2>4 DEF x
  <2>5. CASE k # n
    <3>1. k \in 1..(n - 1)
      BY <1>2, <2>1, <2>5
    <3> QED
      BY <1>1, <1>5, <2>1, <2>2, <2>3, <2>5, <3>1
  <2> QED
    BY <2>4, <2>5
<1> QED
  BY <1>1, <1>5, <1>7, <1>8 DEF Counts, u, x

(* A container more, which is empty.                                       *)
LEMMA CountsOpened ==
    ASSUME NEW os \in Seq(OpenType), NEW o \in OpenType, o.found = 0,
           NEW m \in 1..Len(os), NEW s, Counts(s, os, m)
    PROVE  \E u : Counts(u, Append(os, o), m) /\ u[Len(os) + 1] = s[Len(os)]
<1> DEFINE n == Len(os)
           t == Append(os, o)
           u == [k \in m..(n + 1) |-> IF k <= n THEN s[k] ELSE s[n]]
<1>1. n \in Nat /\ m \in Nat \ {0} /\ m <= n /\ n \in m..n
  OBVIOUS
<1>2. /\ s \in [m..n -> Nat] /\ s[m] = os[m].found
      /\ \A k \in (m + 1)..n : s[k] = os[k].found + s[k - 1]
  BY DEF Counts
<1>3. /\ Len(t) = n + 1 /\ t[n + 1] = o /\ \A k \in 1..n : t[k] = os[k]
  BY AppendProperties
<1> HIDE DEF t
<1>4. u[n + 1] = s[n] /\ \A k \in m..n : u[k] = s[k]
  BY <1>1
<1>5. u \in [m..(n + 1) -> Nat]
  <2>1. ASSUME NEW k \in m..(n + 1) PROVE (IF k <= n THEN s[k] ELSE s[n]) \in Nat
    <3>1. s[n] \in Nat /\ (k <= n => k \in m..n)
      BY <1>1, <1>2
    <3> QED
      BY <1>2, <3>1
  <2> QED
    BY <2>1
<1> HIDE DEF u
<1>6. u[m] = t[m].found
  <2>1. m \in m..n /\ m \in 1..n
    BY <1>1
  <2> QED
    BY <1>2, <1>3, <1>4, <2>1
<1>7. ASSUME NEW k \in (m + 1)..(n + 1) PROVE u[k] = t[k].found + u[k - 1]
  <2>1. CASE k = n + 1
    <3>1. k - 1 = n /\ u[k - 1] = s[n] /\ s[n] \in Nat
      BY <1>1, <1>2, <1>4, <2>1
    <3> QED
      BY <1>3, <1>4, <2>1, <3>1
  <2>2. CASE k # n + 1
    <3>1. k \in (m + 1)..n /\ k \in m..n /\ k - 1 \in m..n /\ k \in 1..n
      BY <1>1, <2>2
    <3> QED
      BY <1>2, <1>3, <1>4, <3>1
  <2> QED
    BY <2>1, <2>2
<1>8. Counts(u, t, m)
  BY <1>3, <1>5, <1>6, <1>7 DEF Counts
<1> QED
  BY <1>4, <1>8 DEF t

LEMMA NotTheLast ==
    ASSUME NEW n \in Nat, NEW m \in Nat \ {0}, NEW k \in (m + 1)..(n - 1), k # n - 1
    PROVE  k \in 1..(n - 2)
OBVIOUS

LEMMA SumOfThree ==
    ASSUME NEW a \in Nat, NEW b \in Nat, NEW x \in Nat
    PROVE  a + (b + x) = (b + a) + x
OBVIOUS

(* A container less, which counts for the one it is in.                    *)
LEMMA CountsEnded ==
    ASSUME NEW os \in Seq(OpenType), NEW t \in Seq(OpenType),
           NEW m \in 1..(Len(os) - 1), Len(t) = Len(os) - 1,
           \A k \in 1..(Len(os) - 2) : t[k] = os[k],
           t[Len(os) - 1].found = os[Len(os) - 1].found + os[Len(os)].found,
           NEW s, Counts(s, os, m)
    PROVE  \E u : Counts(u, t, m) /\ u[Len(os) - 1] = s[Len(os)]
<1> DEFINE n == Len(os)
           u == [k \in m..(n - 1) |-> IF k = n - 1 THEN s[n] ELSE s[k]]
<1>1. n \in Nat /\ m \in Nat \ {0} /\ m <= n - 1 /\ n \in m..n /\ n - 1 \in m..(n - 1)
      /\ n - 1 \in m..n /\ n \in (m + 1)..n
  OBVIOUS
<1>2. /\ s \in [m..n -> Nat] /\ s[m] = os[m].found
      /\ \A k \in (m + 1)..n : s[k] = os[k].found + s[k - 1]
  BY DEF Counts
<1>3. u[n - 1] = s[n] /\ \A k \in m..(n - 1) : k # n - 1 => u[k] = s[k]
  BY <1>1
<1>4. u \in [m..(n - 1) -> Nat]
  <2>1. ASSUME NEW k \in m..(n - 1) PROVE (IF k = n - 1 THEN s[n] ELSE s[k]) \in Nat
    <3>1. k \in m..n
      BY <1>1
    <3> QED
      BY <1>1, <1>2, <3>1
  <2> QED
    BY <2>1
<1> HIDE DEF u
<1>5. os[n].found \in Nat /\ os[n - 1].found \in Nat /\ s[n] = os[n].found + s[n - 1]
  <2>1. n \in 1..n /\ n - 1 \in 1..n
    BY <1>1
  <2>2. os[n] \in OpenType /\ os[n - 1] \in OpenType
    BY <2>1
  <2> QED
    BY <1>1, <1>2, <2>2, OpenFields
<1>6. t[n - 1].found = os[n - 1].found + os[n].found
  OBVIOUS
<1>7. u[m] = t[m].found
  <2>1. CASE m = n - 1
    BY <1>2, <1>3, <1>5, <1>6, <2>1
  <2>2. CASE m # n - 1
    <3>1. m \in m..(n - 1) /\ m \in 1..(n - 2)
      BY <1>1, <2>2
    <3> QED
      BY <1>2, <1>3, <2>2, <3>1
  <2> QED
    BY <2>1, <2>2
<1>8. ASSUME NEW k \in (m + 1)..(n - 1) PROVE u[k] = t[k].found + u[k - 1]
  <2>1. /\ k \in (m + 1)..n /\ k - 1 \in m..(n - 1) /\ k - 1 # n - 1 /\ k - 1 \in m..n
        /\ k \in m..(n - 1)
    BY <1>1
  <2>2. s[k] = os[k].found + s[k - 1] /\ u[k - 1] = s[k - 1] /\ s[k - 1] \in Nat
    <3>1. s[k] = os[k].found + s[k - 1]
      BY <1>2, <2>1
    <3>2. u[k - 1] = s[k - 1]
      BY <1>3, <2>1
    <3>3. s[k - 1] \in Nat
      BY <1>2, <2>1
    <3> QED
      BY <3>1, <3>2, <3>3
  <2>3. CASE k = n - 1
    <3>1. u[k] = s[n] /\ s[n] = os[n].found + s[k] /\ t[k].found = os[k].found + os[n].found
      BY <1>3, <1>5, <1>6, <2>3
    <3>2. os[n].found \in Nat /\ os[k].found \in Nat
      BY <1>5, <2>3
    <3>3. s[n] = os[n].found + (os[k].found + s[k - 1])
      BY <2>2, <3>1, Zenon
    <3>4. t[k].found + u[k - 1] = (os[k].found + os[n].found) + s[k - 1]
      BY <2>2, <3>1, Zenon
    <3>5. s[n] = t[k].found + u[k - 1]
      BY <2>2, <3>2, <3>3, <3>4, SumOfThree, Zenon
    <3> QED
      BY <3>1, <3>5, Zenon
  <2>4. CASE k # n - 1
    <3>1. k \in 1..(n - 2)
      BY <1>1, <2>4, NotTheLast, Zenon
    <3> QED
      BY <1>3, <2>1, <2>2, <2>4, <3>1
  <2> QED
    BY <2>3, <2>4
<1>9. Counts(u, t, m)
  BY <1>4, <1>7, <1>8 DEF Counts
<1> QED
  BY <1>3, <1>9

(* The nodes of a container in a record's are of the record.               *)
LEMMA NoteEndOfRecord ==
    ASSUME NEW n \in Nat, open \in Seq(OpenType), Len(open) = n, n > 1, NoteEnd,
           Kind(Last(open).decl) = "record", open[n - 1].decl = Last(open).decl
    PROVE  /\ open' \in Seq(OpenType) /\ Len(open') = n - 1
           /\ \A k \in 1..(n - 2) : open'[k] = open[k]
           /\ open'[n - 1].found = open[n - 1].found + open[n].found
<1> DEFINE outer == Front(open)
           o == Last(open)
           x == outer[n - 1].found + o.found
           v == [outer[n - 1] EXCEPT !.found = x]
<1>1. n - 1 \in Nat \ {0} /\ open # <<>> /\ n \in 1..n
  BY EmptySeq, LenProperties
<1>2. /\ outer \in Seq(OpenType) /\ Len(outer) = n - 1
      /\ \A i \in 1..(n - 1) : outer[i] = open[i]
      /\ o \in OpenType /\ o = open[n]
  BY <1>1, FrontFacts, LastFacts
<1>3. outer # <<>>
  BY <1>1, <1>2, EmptySeq, LenProperties
<1>4. Last(outer) = outer[n - 1] /\ outer[n - 1] = open[n - 1] /\ outer[n - 1] \in OpenType
  BY <1>1, <1>2 DEF Last
<1>5. open' = [outer EXCEPT ![Len(outer)] = v]
  BY <1>2, <1>4 DEF NoteEnd
<1>6. x \in Nat
  BY <1>2, <1>4, OpenFields
<1> HIDE DEF x
<1>7. v \in OpenType /\ v.found = x
  BY <1>4, <1>6 DEF OpenType
<1> HIDE DEF v, outer, o
<1>8. open' \in Seq(OpenType) /\ SameBelow(outer, open') /\ Last(open') = v
  <2>1. /\ open' \in Seq(OpenType) /\ Len(open') = Len(outer)
        /\ \A i \in 1..Len(outer) : open'[i] = IF i = Len(outer) THEN v ELSE outer[i]
    BY <1>1, <1>2, <1>5, <1>7
  <2>2. \A i \in 1..(n - 1 - 1) : i \in 1..(n - 1) /\ i # n - 1
    BY <1>1
  <2>3. n - 1 \in 1..(n - 1)
    BY <1>1
  <2> QED
    BY <1>2, <2>1, <2>2, <2>3 DEF SameBelow, Last
<1>9. /\ Len(open') = n - 1 /\ \A k \in 1..(n - 2) : open'[k] = outer[k]
      /\ open'[n - 1] = v
  <2>1. (n - 1) - 1 = n - 2
    BY <1>1
  <2> QED
    BY <1>2, <1>8, <2>1 DEF SameBelow, Last
<1>10. \A k \in 1..(n - 2) : k \in 1..(n - 1)
  BY <1>1
<1>11. v.found = open[n - 1].found + open[n].found
  BY <1>2, <1>4, <1>7 DEF x
<1> QED
  BY <1>2, <1>8, <1>9, <1>10, <1>11

(* What else changes in the chain is not how many nodes a record has.      *)
SameRecord(chain) ==
    /\ Len(chain) = Len(levels)
    /\ Last(chain).decl = Last(levels).decl /\ Last(chain).offs = Last(levels).offs

LEMMA DeeperRecord ==
    ASSUME levels \in Seq(LevelType), levels # <<>>
    PROVE  /\ SameRecord(Deeper(levels)) /\ SameRecord(Shallower(levels))
           /\ Deeper(levels) \in Seq(LevelType) /\ Deeper(levels) # <<>>
<1> DEFINE n == Len(levels)
           s == Deeper(levels)
           t == Shallower(levels)
<1>1. n \in Nat \ {0} /\ Last(levels) = levels[n] /\ levels[n] \in LevelType
  BY LastFacts
<1>2. /\ s \in Seq(LevelType) /\ Len(s) = n
      /\ s[n] = IF levels[n].depth > 0
                THEN [levels[n] EXCEPT !.depth = levels[n].depth + 1] ELSE levels[n]
  BY <1>1, DeeperFacts
<1>3. /\ t \in Seq(LevelType) /\ Len(t) = n
      /\ t[n] = IF levels[n].depth > 0
                THEN [levels[n] EXCEPT !.depth = levels[n].depth - 1] ELSE levels[n]
  BY <1>1, ShallowerFacts
<1> HIDE DEF s, t
<1>4. s[n].decl = levels[n].decl /\ s[n].offs = levels[n].offs
  BY <1>1, <1>2, LevelFields
<1>5. t[n].decl = levels[n].decl /\ t[n].offs = levels[n].offs
  BY <1>1, <1>3, LevelFields
<1>6. s # <<>>
  BY <1>1, <1>2, EmptySeq, LenProperties
<1> QED
  BY <1>1, <1>2, <1>3, <1>4, <1>5, <1>6 DEF SameRecord, s, t, Last

LEMMA KeptRecord ==
    ASSUME NEW chain \in Seq(LevelType), chain # <<>>
    PROVE  /\ Len(Kept(chain)) = Len(chain)
           /\ Last(Kept(chain)).decl = Last(chain).decl
           /\ Last(Kept(chain)).offs = Last(chain).offs + 1
<1>1. Replaced(chain, Kept(chain), [Last(chain) EXCEPT !.offs = @ + 1])
  BY KeptFacts
<1>2. Last(chain) \in LevelType
  BY LastFacts
<1>3. /\ [Last(chain) EXCEPT !.offs = @ + 1].decl = Last(chain).decl
      /\ [Last(chain) EXCEPT !.offs = @ + 1].offs = Last(chain).offs + 1
  BY <1>2 DEF LevelType
<1> QED
  BY <1>1, <1>3 DEF Replaced, SameBelow

(* A record takes every node for itself.                                   *)
LEMMA NotedInRecord ==
    ASSUME DInv, Live, Kind(Handler.decl) = "record", NEW node, node.cont \in BOOLEAN
    PROVE  /\ Found(Handler.decl, node) = Handler.decl /\ Handler.decl # Null
           /\ Noted(node) \in Seq(OpenType) /\ SameBelow(open, Noted(node))
           /\ Last(Noted(node)).found = Last(open).found + 1
<1>1. /\ open \in Seq(OpenType) /\ open # <<>> /\ Last(open).decl = Handler.decl
      /\ Handler.decl \in Decls \cup {Null}
  BY LiveFacts
<1>2. Handler.decl # Null
  BY <1>1, DeclFields
<1>3. Found(Handler.decl, node) = Handler.decl
  BY DEF Found
<1> QED
  BY <1>1, <1>2, <1>3, NotedFacts

LEMMA PushRecord ==
    ASSUME DInv, CInv, NEW node, node.cont \in BOOLEAN, PushNode(node)
    PROVE  CInv'
<1>1. Live /\ open' = Noted(node)
  BY DEF PushNode
<1>2. /\ levels \in Seq(LevelType) /\ levels # <<>> /\ open \in Seq(OpenType) /\ open # <<>>
      /\ status = "live" /\ Chained(levels, open)
  BY <1>1, LiveFacts
<1>3. CASE Kind(Handler.decl) = "record"
  <2>1. /\ Found(Handler.decl, node) # Null
        /\ Noted(node) \in Seq(OpenType) /\ SameBelow(open, Noted(node))
        /\ Last(Noted(node)).found = Last(open).found + 1
    BY <1>1, <1>3, NotedInRecord
  <2>2. levels' = Kept(levels)
    BY <1>3, <2>1 DEF PushNode
  <2>3. Len(levels') = Len(levels) /\ Last(levels').offs = Last(levels).offs + 1
    BY <1>2, <2>2, KeptRecord
  <2>4. PICK s : Counts(s, open, Len(levels)) /\ s[Len(open)] = Last(levels).offs
    BY <1>2, <1>3 DEF CInv, Handler
  <2>5. Len(levels) \in 1..Len(open)
    <3>1. Len(levels) \in Nat \ {0} /\ Len(open) \in Nat /\ Len(levels) <= Len(open)
      BY <1>2, ChainedFacts
    <3> QED
      BY <3>1
  <2>6. \E u : Counts(u, open', Len(levels)) /\ u[Len(open)] = s[Len(open)] + 1
    BY <1>1, <1>2, <2>1, <2>4, <2>5, CountsNoted
  <2>7. Len(open') = Len(open)
    BY <1>1, <2>1 DEF SameBelow
  <2> QED
    BY <2>3, <2>4, <2>6, <2>7 DEF CInv
<1>4. CASE Kind(Handler.decl) # "record"
  <2>1. \/ levels' = levels
        \/ levels' = Submitted(levels)
        \/ levels' = NotingFound(levels)
        \/ status' = "thrown"
    BY <1>4 DEF PushNode, Submit, Throw
  <2>2. /\ Last(Submitted(levels)).decl = Last(levels).decl
        /\ Last(NotingFound(levels)).decl = Last(levels).decl
    <3>1. Last(levels) \in LevelType
      BY <1>2, LastFacts
    <3>2. /\ Last(Submitted(levels)) =
                [Last(levels) EXCEPT !.offs = IF Overflows(Last(levels)) THEN @ ELSE @ + 1]
          /\ Last(NotingFound(levels)) =
                [Last(levels) EXCEPT !.found = @ \/ Kind(Last(levels).decl) \in {"only", "wrap"}]
      BY <1>2, SubmittedFacts, NotingFoundFacts DEF Replaced
    <3> QED
      BY <3>1, <3>2 DEF LevelType
  <2>3. status' # "thrown" => Last(levels').decl = Handler.decl
    BY <2>1, <2>2 DEF Handler
  <2> QED
    BY <1>4, <2>3 DEF CInv
<1> QED
  BY <1>3, <1>4

LEMMA StartRecord ==
    ASSUME DInv, CInv, NEW node, node.cont \in BOOLEAN, StartContainer(node)
    PROVE  CInv'
<1> DEFINE o == [decl |-> Found(Last(open).decl, node), found |-> 0, foreign |-> FALSE]
           n == Len(open)
           m == Len(levels)
<1>1. Live /\ open' = Append(Noted(node), o)
  BY DEF StartContainer
<1>2. /\ levels \in Seq(LevelType) /\ levels # <<>> /\ open \in Seq(OpenType) /\ open # <<>>
      /\ status = "live" /\ Chained(levels, open)
      /\ Last(open).decl = Handler.decl /\ Kind(Handler.decl) # "value"
      /\ Handler.decl \in Decls \cup {Null}
  BY <1>1, LiveFacts
<1>3. /\ m \in Nat \ {0} /\ n \in Nat \ {0} /\ m <= n
      /\ Kind(Handler.decl) \notin {"null", "record"} => m = n
  BY <1>2, ChainedFacts DEF Handler
<1>4. o \in OpenType /\ o.found = 0
  <2>1. Found(Last(open).decl, node) \in Decls \cup {Null}
    BY <1>2, FoundFacts
  <2> QED
    BY <2>1 DEF OpenType
<1>5. /\ Noted(node) \in Seq(OpenType) /\ Noted(node) # <<>> /\ Len(Noted(node)) = n
  BY <1>2, NotedFacts DEF SameBelow
<1> HIDE DEF o
<1>6. CASE Kind(Handler.decl) = "record"
  <2>1. /\ Found(Handler.decl, node) # Null
        /\ Noted(node) \in Seq(OpenType) /\ SameBelow(open, Noted(node))
        /\ Last(Noted(node)).found = Last(open).found + 1
    BY <1>1, <1>6, NotedInRecord
  <2>2. levels' = Kept(Deeper(levels))
    BY <1>6 DEF StartContainer
  <2>3. /\ Deeper(levels) \in Seq(LevelType) /\ Deeper(levels) # <<>>
        /\ Len(Deeper(levels)) = m /\ Last(Deeper(levels)).offs = Last(levels).offs
    BY <1>2, DeeperRecord DEF SameRecord
  <2>4. Len(levels') = m /\ Last(levels').offs = Last(levels).offs + 1
    BY <2>2, <2>3, KeptRecord
  <2>5. PICK s : Counts(s, open, m) /\ s[n] = Last(levels).offs
    BY <1>2, <1>6 DEF CInv, Handler
  <2>6. m \in 1..n
    BY <1>3
  <2>7. PICK u : Counts(u, Noted(node), m) /\ u[n] = s[n] + 1
    BY <1>2, <2>1, <2>5, <2>6, CountsNoted
  <2>8. \E v : Counts(v, open', m) /\ v[n + 1] = u[n]
    <3> DEFINE os == Noted(node)
    <3>1. /\ os \in Seq(OpenType) /\ Len(os) = n /\ m \in 1..Len(os) /\ Counts(u, os, m)
          /\ open' = Append(os, o)
      BY <1>1, <1>5, <2>6, <2>7
    <3> HIDE DEF os
    <3>2. \E v : Counts(v, Append(os, o), m) /\ v[Len(os) + 1] = u[Len(os)]
      BY <1>4, <3>1, CountsOpened
    <3> QED
      BY <3>1, <3>2
  <2>9. Len(open') = n + 1
    BY <1>1, <1>4, <1>5, AppendProperties
  <2> QED
    BY <2>4, <2>5, <2>7, <2>8, <2>9 DEF CInv
<1>7. CASE Kind(Handler.decl) = "null"
  <2>1. levels' = Deeper(levels)
    BY <1>7 DEF StartContainer
  <2>2. Last(levels').decl = Handler.decl
    BY <1>2, <2>1, DeeperRecord DEF SameRecord, Handler
  <2> QED
    BY <1>7, <2>2 DEF CInv
<1>8. CASE Kind(Handler.decl) \notin {"null", "record"}
  <2> DEFINE d == Found(Handler.decl, node)
             known == IF d = Null THEN levels ELSE NotingFound(levels)
  <2>1. levels' = Nest(Deeper(known), d)
    BY <1>8 DEF StartContainer
  <2>2. known \in Seq(LevelType) /\ known # <<>> /\ Len(known) = m
    <3>1. Replaced(levels, NotingFound(levels),
                   [Last(levels) EXCEPT !.found = @ \/ Kind(Last(levels).decl) \in {"only", "wrap"}])
      BY <1>2, NotingFoundFacts
    <3> QED
      BY <1>2, <3>1 DEF Replaced, SameBelow
  <2>3. d \in Decls \cup {Null}
    BY <1>2, FoundFacts
  <2> HIDE DEF known, d
  <2>4. Deeper(known) \in Seq(LevelType) /\ Len(Deeper(known)) = m
    BY <2>2, DeeperFacts
  <2>5. Deeper(known) # <<>>
    BY <1>3, <2>4, EmptySeq, LenProperties
  <2>6. Len(levels') = m + 1 /\ levels'[m + 1] = Level(d)
    <3> DEFINE chain == Deeper(known)
    <3>1. chain \in Seq(LevelType) /\ chain # <<>> /\ Len(chain) = m /\ levels' = Nest(chain, d)
      BY <2>1, <2>4, <2>5
    <3> HIDE DEF chain
    <3>2. Len(Nest(chain, d)) = Len(chain) + 1 /\ Nest(chain, d)[Len(chain) + 1] = Level(d)
      BY <2>3, <3>1, NestFacts
    <3> QED
      BY <3>1, <3>2
  <2>7. Len(levels') = n + 1 /\ Last(levels').offs = 0
    BY <1>3, <1>8, <2>6 DEF Last, Level
  <2>8. Len(open') = n + 1 /\ open'[n + 1] = o
    BY <1>1, <1>4, <1>5, AppendProperties
  <2> DEFINE s == [k \in (n + 1)..(n + 1) |-> 0]
  <2>9. Counts(s, open', n + 1) /\ s[n + 1] = 0
    <3>1. n + 1 \in (n + 1)..(n + 1) /\ ((n + 1) + 1)..(n + 1) = {}
      BY <1>3
    <3>2. s \in [(n + 1)..(n + 1) -> Nat] /\ s[n + 1] = 0
      BY <3>1
    <3> HIDE DEF s
    <3> QED
      BY <1>4, <2>8, <3>1, <3>2 DEF Counts
  <2> QED
    BY <2>7, <2>8, <2>9 DEF CInv
<1> QED
  BY <1>6, <1>7, <1>8

LEMMA EndRecord ==
    ASSUME DInv, CInv, EndWithin \/ EndNested
    PROVE  CInv'
<1> DEFINE n == Len(open)
           m == Len(levels)
<1>1. Live /\ n > 1 /\ NoteEnd
  BY DEF EndWithin, EndNested
<1>2. /\ levels \in Seq(LevelType) /\ levels # <<>> /\ open \in Seq(OpenType) /\ open # <<>>
      /\ status = "live" /\ Chained(levels, open)
      /\ Last(open).decl = Handler.decl
  BY <1>1, LiveFacts
<1>3. /\ m \in Nat \ {0} /\ n \in Nat \ {0} /\ m <= n
  BY <1>2, ChainedFacts
<1>4. CASE EndWithin
  <2>1. levels' = Shallower(levels) /\ Ending = {}
    BY <1>4 DEF EndWithin
  <2>2. Len(levels') = m /\ Last(levels').decl = Handler.decl /\ Last(levels').offs = Handler.offs
    BY <1>2, <2>1, DeeperRecord DEF SameRecord, Handler
  <2>3. ASSUME Kind(Handler.decl) = "record"
        PROVE  \E u : Counts(u, open', m) /\ u[Len(open')] = Handler.offs
    <3>1. m # n
      <4> SUFFICES ASSUME m = n PROVE FALSE
        OBVIOUS
      <4>1. m - 1 \in 1..m /\ m - 1 # m /\ n - (m - 1) = 1
        BY <1>1, <1>3
      <4>2. levels[m - 1].depth = 1
        BY <1>2, <4>1 DEF Chained
      <4>3. m - 1 \in Ending
        BY <1>2, <4>1, <4>2 DEF Ending
      <4> QED
        BY <2>1, <4>3
    <3>2. m \in 1..(n - 1) /\ n \in 1..n /\ n - 1 \in 1..n /\ n > m
      BY <1>3, <3>1
    <3>3. open[n].decl = Handler.decl /\ Last(open) = open[n]
      BY <1>2, LastFacts
    <3>4. open[n - 1].decl = Handler.decl
      <4>1. CASE n - 1 > m
        BY <1>2, <3>2, <4>1 DEF Chained, Handler
      <4>2. CASE n - 1 = m
        <5>1. m \in 1..m /\ levels[m] = Handler
          BY <1>2, <1>3, LastFacts DEF Handler
        <5>2. levels[m].decl = open[m].decl
          BY <1>2, <5>1 DEF Chained
        <5> QED
          BY <4>2, <5>1, <5>2
      <4> QED
        BY <1>3, <3>2, <4>1, <4>2
    <3>5. /\ open' \in Seq(OpenType) /\ Len(open') = n - 1
          /\ \A k \in 1..(n - 2) : open'[k] = open[k]
          /\ open'[n - 1].found = open[n - 1].found + open[n].found
      BY <1>1, <1>2, <1>3, <2>3, <3>3, <3>4, NoteEndOfRecord
    <3>6. PICK s : Counts(s, open, m) /\ s[n] = Handler.offs
      BY <1>2, <2>3 DEF CInv, Handler
    <3>7. \E u : Counts(u, open', m) /\ u[n - 1] = s[n]
      <4>1. /\ open \in Seq(OpenType) /\ open' \in Seq(OpenType) /\ m \in 1..(Len(open) - 1)
            /\ Len(open') = Len(open) - 1 /\ \A k \in 1..(Len(open) - 2) : open'[k] = open[k]
            /\ open'[Len(open) - 1].found = open[Len(open) - 1].found + open[Len(open)].found
            /\ Counts(s, open, m)
        BY <1>2, <3>2, <3>5, <3>6
      <4> QED
        BY <4>1, CountsEnded
    <3> QED
      BY <3>5, <3>6, <3>7
  <2> QED
    BY <2>2, <2>3 DEF CInv
<1>5. CASE EndNested
  <2>1. PICK i \in Ending :
           IF FinalizeThrows(levels, i + 1) THEN Throw(Shallower(levels))
           ELSE LET chain == SubSeq(Shallower(levels), 1, i) IN
                IF Kind(chain[i].decl) \in {"seq", "array"} THEN Submit(chain)
                ELSE levels' = chain /\ Reply(GoesOn(chain[i]))
    BY <1>5 DEF EndNested
  <2> DEFINE c == SubSeq(Shallower(levels), 1, i)
  <2>2. i \in 1..m /\ levels[i].depth = 1
    BY <1>2 DEF Ending
  <2>3. Kind(levels[i].decl) # "record"
    BY <1>2, <2>2, EndingFacts
  <2>4. /\ c \in Seq(LevelType) /\ c # <<>> /\ Len(c) = i /\ i \in 1..i
        /\ \A j \in 1..i : c[j].decl = levels[j].decl
        /\ Last(c) = c[i] /\ c[i] \in LevelType
    <3>1. Chained(levels, open) /\ i \in 1..Len(levels)
      BY <1>2, <2>2
    <3>2. i \in 1..i
      BY <1>3, <2>2
    <3>3. /\ c \in Seq(LevelType) /\ c # <<>> /\ Len(c) = i
          /\ Last(c) = c[i] /\ c[i] \in LevelType
      BY <2>2, <3>1, LeftFacts, ZenonT(40)
    <3>4. ASSUME NEW j \in 1..i PROVE c[j].decl = levels[j].decl
      BY <2>2, <3>1, LeftFacts, ZenonT(40)
    <3> QED
      BY <3>2, <3>3, <3>4
  <2>5. Kind(Last(c).decl) # "record"
    BY <2>3, <2>4
  <2>6. levels' = c \/ levels' = Submitted(c) \/ status' = "thrown"
    BY <2>1 DEF Submit, Throw
  <2> HIDE DEF c
  <2>7. Last(Submitted(c)).decl = Last(c).decl
    <3>1. Last(Submitted(c)) =
                [Last(c) EXCEPT !.offs = IF Overflows(Last(c)) THEN @ ELSE @ + 1]
      BY <2>4, SubmittedFacts DEF Replaced
    <3> QED
      BY <2>4, <3>1 DEF LevelType
  <2> QED
    BY <2>5, <2>6, <2>7 DEF CInv
<1> QED
  BY <1>4, <1>5

LEMMA RestRecord ==
    ASSUME CInv,
           \/ \E node : RefuseChild(node)
           \/ EndOfStream \/ Destroy \/ Gone \/ UNCHANGED vars
    PROVE  CInv'
<1>1. status' # "live" \/ UNCHANGED vars
  BY DEF RefuseChild, Throw, EndOfStream, Destroy, Gone
<1>2. CASE UNCHANGED vars
  BY <1>2 DEF CInv, vars
<1> QED
  BY <1>1, <1>2 DEF CInv

(* The stream has only begun.                                              *)
LEMMA BeginRecord ==
    ASSUME NEW d, levels = <<Level(d)>>,
           open = <<[decl |-> d, found |-> 0, foreign |-> FALSE]>>
    PROVE  CInv
<1> DEFINE s == [k \in 1..1 |-> 0]
<1>1. Len(levels) = 1 /\ Last(levels).offs = 0 /\ Len(open) = 1 /\ open[1].found = 0
  BY DEF Last, Level
<1>2. s \in [1..1 -> Nat] /\ s[1] = 0 /\ (1 + 1)..1 = {}
  OBVIOUS
<1> HIDE DEF s
<1>3. Counts(s, open, 1)
  BY <1>1, <1>2 DEF Counts
<1> QED
  BY <1>1, <1>2, <1>3 DEF CInv

LEMMA StepRecord == ASSUME DInv, CInv, [Next]_vars PROVE CInv'
<1>1. CASE \E node \in Nodes : PushNode(node)
  BY <1>1, PushRecord, DeclAssumption
<1>2. CASE \E node \in Nodes : StartContainer(node)
  BY <1>2, StartRecord, DeclAssumption
<1>3. CASE EndWithin \/ EndNested
  BY <1>3, EndRecord
<1>4. CASE \/ \E node \in Nodes : RefuseChild(node)
           \/ EndOfStream \/ Destroy \/ Gone \/ UNCHANGED vars
  BY <1>4, RestRecord
<1> QED
  BY <1>1, <1>2, <1>3, <1>4 DEF Next

LEMMA SerializerStepRecord ==
    ASSUME DInv, CInv, [SerializerNext]_<<vars, writerVars, sender>>
    PROVE  CInv'
<1>1. \A d, id : Node(d, id).cont \in BOOLEAN
  BY DEF Node
<1>2. CASE WriteValue
  <2>1. \E d, id : RefuseChild(Node(d, id)) \/ PushNode(Node(d, id))
    BY <1>2 DEF WriteValue
  <2> QED
    BY <1>1, <2>1, RestRecord, PushRecord
<1>3. CASE WriteContainer \/ WriteRecord
  <2>1. \E d, id : RefuseChild(Node(d, id)) \/ StartContainer(Node(d, id))
    BY <1>3 DEF WriteContainer, WriteRecord, WriteStart
  <2> QED
    BY <1>1, <2>1, RestRecord, StartRecord
<1>4. CASE OmitRecord
  BY <1>4, RestRecord DEF OmitRecord
<1>5. CASE WriteChild
  <2> DEFINE node == [id |-> Head(todo).id, cont |-> FALSE]
  <2>1. RefuseChild(node) \/ PushNode(node)
    BY <1>5 DEF WriteChild
  <2>2. node.cont \in BOOLEAN
    OBVIOUS
  <2> HIDE DEF node
  <2> QED
    BY <2>1, <2>2, RestRecord, PushRecord
<1>6. CASE WriteNested
  <2> DEFINE node == [id |-> Head(todo).id, cont |-> TRUE]
  <2>1. RefuseChild(node) \/ StartContainer(node)
    BY <1>6 DEF WriteNested
  <2>2. node.cont \in BOOLEAN
    OBVIOUS
  <2> HIDE DEF node
  <2> QED
    BY <2>1, <2>2, RestRecord, StartRecord
<1>7. CASE WriteEnd
  BY <1>7, EndRecord DEF WriteEnd
<1>8. CASE Return
  BY <1>8, RestRecord DEF Return
<1>9. CASE Receive
  BY <1>9, StepRecord DEF Receive
<1>10. CASE UNCHANGED <<vars, writerVars, sender>>
  BY <1>10, RestRecord
<1> QED
  BY <1>2, <1>3, <1>4, <1>5, <1>6, <1>7, <1>8, <1>9, <1>10 DEF SerializerNext

LEMMA InitRecord == Init \/ SerializerInit => CInv
<1>1. ASSUME Init \/ SerializerInit
      PROVE  \E d : /\ levels = <<Level(d)>>
                    /\ open = <<[decl |-> d, found |-> 0, foreign |-> FALSE]>>
  BY <1>1, Zenon DEF Init, SerializerInit
<1> QED
  BY <1>1, BeginRecord

(* What has been stored is what has been recognised in the stream: items   *)
(* of iterables, containers and static_arrays (DeserializerStoresItems),   *)
(* and all nodes of a member_record, in whatever containers ToTree has     *)
(* found them.                                                             *)
THEOREM DeserializerItemsInStep == Spec \/ SerializerSpec => []ItemsInStep
<1>1. ASSUME DInv, CInv PROVE RecordsInStep
  <2> SUFFICES ASSUME status = "live", NEW i \in DOMAIN levels,
                      Kind(levels[i].decl) = "record"
               PROVE  levels[i].offs = Inside(i)
    BY DEF RecordsInStep
  <2>1. Chained(levels, open) /\ levels \in Seq(LevelType) /\ open \in Seq(OpenType)
    BY <1>1 DEF DInv, TypeOK
  <2>2. /\ Len(levels) \in Nat \ {0} /\ Len(open) \in Nat /\ Len(levels) <= Len(open)
        /\ Last(levels) = levels[Len(levels)]
    BY <2>1, ChainedFacts
  <2>3. i = Len(levels)
    <3>1. i \in 1..Len(levels) /\ ~(i < Len(levels))
      BY <2>1 DEF Chained
    <3> QED
      BY <2>2, <3>1
  <2>4. PICK s : Counts(s, open, i) /\ s[Len(open)] = levels[i].offs
    BY <1>1, <2>2, <2>3 DEF CInv
  <2>5. i \in 1..Len(open)
    BY <2>2, <2>3
  <2>6. Inside(i) = s[Len(open)]
    BY <2>1, <2>4, <2>5, InsideCounts
  <2> QED
    BY <2>4, <2>6
<1>2. Spec => []CInv
  BY InitRecord, StepRecord, DInvHolds, PTL DEF Spec
<1>3. SerializerSpec => []CInv
  BY InitRecord, SerializerStepRecord, DInvHolds, PTL DEF SerializerSpec
<1>4. DInv /\ CInv => RecordsInStep
  BY <1>1
<1>5. Spec \/ SerializerSpec => []RecordsInStep
  BY <1>2, <1>3, <1>4, DInvHolds, PTL
<1>6. StoredInStep /\ RecordsInStep => ItemsInStep
  BY DEF ItemsInStep
<1> QED
  BY <1>5, <1>6, DeserializerStoresItems, PTL
=============================================================================
