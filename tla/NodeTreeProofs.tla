----------------------------- MODULE NodeTreeProofs -----------------------------
(***************************************************************************)
(* The nodes in memory, for any number of nodes, children and handles: the *)
(* tables agree with the lists, a child is in the place its parent tells,  *)
(* and only cycles leak.                                                   *)
(***************************************************************************)
EXTENDS NodeTree, SequenceTheorems, FunctionTheorems, FiniteSetTheorems,
        WellFoundedInduction, TLAPS

-----------------------------------------------------------------------------
(* Least elements, and the first element of a sequence that is n.          *)

LEMMA LeastNatural ==
    ASSUME NEW T \in SUBSET Nat, T # {}
    PROVE  \E m \in T : \A n \in T : m <= n
<1> DEFINE R == {p \in Nat \X Nat : p[1] < p[2]}
<1>1. IsWellFoundedOn(R, Nat)
  BY NatLessThanWellFounded DEF OpToRel
<1>2. \A m, n \in Nat : n < m => <<n, m>> \in R
  OBVIOUS
<1> HIDE DEF R
<1>3. PICK m \in T : \A n \in T : ~(<<n, m>> \in R)
  BY <1>1, WFMin
<1>4. \A k, n \in Nat : k <= n \/ n < k
  OBVIOUS
<1> QED
  BY <1>2, <1>3, <1>4

LEMMA FirstFound ==
    ASSUME NEW S, NEW s \in Seq(S), NEW n, \E i \in DOMAIN s : s[i] = n
    PROVE  LET i == SelectInSeq(s, LAMBDA m : m = n)
           IN  i \in 1..Len(s) /\ s[i] = n
<1> DEFINE I == {i \in 1..Len(s) : s[i] = n}
<1>1. I # {} /\ I \in SUBSET Nat
  OBVIOUS
<1>2. Min(I) \in I
  BY <1>1, LeastNatural, Zenon DEF Min
<1>3. SelectInSeq(s, LAMBDA m : m = n) = Min(I)
  BY <1>1 DEF SelectInSeq
<1> QED
  BY <1>2, <1>3

-----------------------------------------------------------------------------
(* t is s with e in front of what was at i.                                *)
Inserts(s, t, i, e) ==
    /\ Len(t) = Len(s) + 1
    /\ i \in 1..Len(t) /\ t[i] = e
    /\ \A j \in 1..Len(s) : s[j] = t[IF j < i THEN j ELSE j + 1]

LEMMA AppendInserts ==
    ASSUME NEW S, NEW s \in Seq(S), NEW e \in S
    PROVE  /\ Append(s, e) \in Seq(S)
           /\ Inserts(s, Append(s, e), Len(s) + 1, e)
<1>1. /\ Append(s, e) \in Seq(S) /\ Len(Append(s, e)) = Len(s) + 1
      /\ Append(s, e)[Len(s) + 1] = e /\ Len(s) \in Nat
      /\ \A j \in 1..Len(s) : Append(s, e)[j] = s[j]
  BY AppendProperties, LenProperties
<1>2. \A j \in 1..Len(s) : j < Len(s) + 1
  BY <1>1
<1> QED
  BY <1>1, <1>2 DEF Inserts

LEMMA PartsOf ==
    ASSUME NEW S, NEW s \in Seq(S), NEW a \in Nat \ {0}, NEW b \in Nat, b <= Len(s),
           a <= b + 1
    PROVE  /\ SubSeq(s, a, b) \in Seq(S) /\ Len(SubSeq(s, a, b)) = b - a + 1
           /\ \A j \in 1..(b - a + 1) : SubSeq(s, a, b)[j] = s[a + j - 1]
<1>1. \A j \in a..b : s[j] \in S
  <2>1. \A j \in a..b : j \in 1..Len(s)
    BY LenProperties
  <2> QED
    BY <2>1, ElementOfSeq
<1>2. /\ SubSeq(s, a, b) \in Seq(S)
      /\ Len(SubSeq(s, a, b)) = IF a <= b THEN b - a + 1 ELSE 0
      /\ \A j \in 1..(b - a + 1) : SubSeq(s, a, b)[j] = s[a + j - 1]
  BY <1>1, SubSeqProperties
<1> QED
  BY <1>2

LEMMA InsertAtInserts ==
    ASSUME NEW S, NEW s \in Seq(S), NEW e \in S, NEW i \in 1..Len(s)
    PROVE  InsertAt(s, i, e) \in Seq(S) /\ Inserts(s, InsertAt(s, i, e), i, e)
<1> DEFINE l == Len(s)
           a == SubSeq(s, 1, i - 1)
           b == SubSeq(s, i, l)
           t == InsertAt(s, i, e)
           ae == a \o <<e>>
<1>1. l \in Nat /\ i \in Nat \ {0} /\ i <= l /\ i - 1 \in Nat
  BY LenProperties
<1>2. /\ a \in Seq(S) /\ Len(a) = i - 1 /\ \A j \in 1..(i - 1) : a[j] = s[j]
  <2>1. /\ a \in Seq(S) /\ Len(a) = (i - 1) - 1 + 1
        /\ \A j \in 1..((i - 1) - 1 + 1) : a[j] = s[1 + j - 1]
    BY <1>1, PartsOf
  <2> HIDE DEF a, l
  <2> QED
    BY <1>1, <2>1
<1>3. /\ b \in Seq(S) /\ Len(b) = l - i + 1
      /\ \A j \in 1..(l - i + 1) : b[j] = s[i + j - 1]
  BY <1>1, PartsOf
<1>4. t = ae \o b
  BY DEF InsertAt
<1> HIDE DEF a, b, l
<1>5. /\ ae \in Seq(S) /\ Len(ae) = i
      /\ \A j \in 1..i : ae[j] = IF j <= i - 1 THEN a[j] ELSE e
  <2>1. <<e>> \in Seq(S) /\ Len(<<e>>) = 1 /\ <<e>>[1] = e
    OBVIOUS
  <2>2. /\ ae \in Seq(S) /\ Len(ae) = Len(a) + 1
        /\ \A j \in 1..(Len(a) + 1) :
              ae[j] = IF j <= Len(a) THEN a[j] ELSE <<e>>[j - Len(a)]
    BY <1>2, <2>1, ConcatProperties
  <2> QED
    BY <1>1, <1>2, <2>1, <2>2
<1> HIDE DEF ae, t
<1>6. /\ t \in Seq(S) /\ Len(t) = i + (l - i + 1)
      /\ \A j \in 1..(i + (l - i + 1)) :
            t[j] = IF j <= i THEN ae[j] ELSE b[j - i]
  <2>1. /\ t \in Seq(S) /\ Len(t) = Len(ae) + Len(b)
        /\ \A j \in 1..(Len(ae) + Len(b)) :
              t[j] = IF j <= Len(ae) THEN ae[j] ELSE b[j - Len(ae)]
    BY <1>3, <1>4, <1>5, ConcatProperties
  <2> QED
    BY <1>3, <1>5, <2>1
<1>7. Len(t) = l + 1 /\ t[i] = e
  BY <1>1, <1>5, <1>6
<1>8. ASSUME NEW j \in 1..l
      PROVE  s[j] = t[IF j < i THEN j ELSE j + 1]
  <2>1. CASE j < i
    <3>1. j \in 1..(i + (l - i + 1)) /\ j <= i /\ j \in 1..i /\ j <= i - 1 /\ j \in 1..(i - 1)
      BY <1>1, <2>1
    <3>2. t[j] = ae[j] /\ ae[j] = a[j] /\ a[j] = s[j]
      BY <1>2, <1>5, <1>6, <3>1
    <3> QED
      BY <2>1, <3>2
  <2>2. CASE ~(j < i)
    <3>1. j + 1 \in 1..(i + (l - i + 1)) /\ ~(j + 1 <= i) /\ j + 1 - i \in 1..(l - i + 1)
      BY <1>1, <2>2
    <3>2. t[j + 1] = b[j + 1 - i]
      BY <1>6, <3>1
    <3>3. b[j + 1 - i] = s[i + (j + 1 - i) - 1]
      BY <1>3, <3>1
    <3>4. i + (j + 1 - i) - 1 = j
      BY <1>1
    <3> QED
      BY <2>2, <3>2, <3>3, <3>4
  <2> QED
    BY <2>1, <2>2
<1>9. i \in 1..Len(t) /\ Len(t) = Len(s) + 1
  BY <1>1, <1>7 DEF l
<1>10. \A j \in 1..Len(s) : s[j] = t[IF j < i THEN j ELSE j + 1]
  BY <1>8 DEF l
<1>11. Inserts(s, t, i, e)
  BY <1>7, <1>9, <1>10 DEF Inserts
<1> QED
  BY <1>6, <1>11 DEF t

LEMMA RemoveAtInserts ==
    ASSUME NEW S, NEW s \in Seq(S), NEW i \in 1..Len(s)
    PROVE  RemoveAt(s, i) \in Seq(S) /\ Inserts(RemoveAt(s, i), s, i, s[i])
<1> DEFINE l == Len(s)
           a == SubSeq(s, 1, i - 1)
           b == SubSeq(s, i + 1, l)
           t == RemoveAt(s, i)
<1>1. l \in Nat /\ i \in Nat \ {0} /\ i <= l /\ i - 1 \in Nat /\ i + 1 \in Nat \ {0}
  BY LenProperties
<1>2. /\ a \in Seq(S) /\ Len(a) = i - 1 /\ \A j \in 1..(i - 1) : a[j] = s[j]
  <2>1. /\ a \in Seq(S) /\ Len(a) = (i - 1) - 1 + 1
        /\ \A j \in 1..((i - 1) - 1 + 1) : a[j] = s[1 + j - 1]
    BY <1>1, PartsOf
  <2> HIDE DEF a, l
  <2> QED
    BY <1>1, <2>1
<1>3. /\ b \in Seq(S) /\ Len(b) = l - i
      /\ \A j \in 1..(l - i) : b[j] = s[i + j]
  <2>1. /\ b \in Seq(S) /\ Len(b) = l - (i + 1) + 1
        /\ \A j \in 1..(l - (i + 1) + 1) : b[j] = s[(i + 1) + j - 1]
    BY <1>1, PartsOf
  <2> HIDE DEF b, l
  <2>2. l - (i + 1) + 1 = l - i /\ \A j \in Nat : (i + 1) + j - 1 = i + j
    BY <1>1
  <2> QED
    BY <1>1, <2>1, <2>2
<1>4. t = a \o b
  BY DEF RemoveAt
<1> HIDE DEF a, b, l, t
<1>5. /\ t \in Seq(S) /\ Len(t) = (i - 1) + (l - i)
      /\ \A j \in 1..((i - 1) + (l - i)) :
            t[j] = IF j <= i - 1 THEN a[j] ELSE b[j - (i - 1)]
  BY <1>2, <1>3, <1>4, ConcatProperties
<1>6. Len(s) = Len(t) + 1 /\ i \in 1..Len(s)
  BY <1>1, <1>5 DEF l
<1>7. ASSUME NEW j \in 1..Len(t)
      PROVE  t[j] = s[IF j < i THEN j ELSE j + 1]
  <2>1. j \in 1..((i - 1) + (l - i))
    BY <1>5
  <2>2. CASE j < i
    BY <1>1, <1>2, <1>5, <2>1, <2>2
  <2>3. CASE ~(j < i)
    <3>1. ~(j <= i - 1) /\ j - (i - 1) \in 1..(l - i)
      BY <1>1, <2>1, <2>3
    <3>2. t[j] = b[j - (i - 1)]
      BY <1>5, <2>1, <3>1
    <3>3. b[j - (i - 1)] = s[i + (j - (i - 1))]
      BY <1>3, <3>1
    <3>4. i + (j - (i - 1)) = j + 1
      BY <1>1
    <3> QED
      BY <2>3, <3>2, <3>3, <3>4
  <2> QED
    BY <2>2, <2>3
<1>8. Inserts(t, s, i, s[i])
  BY <1>6, <1>7 DEF Inserts
<1> QED
  BY <1>5, <1>8 DEF t

(* What is in t, and how often.                                            *)
LEMMA InsertsRange ==
    ASSUME NEW S, NEW s \in Seq(S), NEW t \in Seq(S), NEW i, NEW e, Inserts(s, t, i, e)
    PROVE  Range(t) = Range(s) \cup {e}
<1> DEFINE f(j) == IF j < i THEN j ELSE j + 1
<1>1. /\ Len(s) \in Nat /\ Len(t) = Len(s) + 1 /\ i \in 1..Len(t) /\ t[i] = e
      /\ \A j \in 1..Len(s) : s[j] = t[f(j)]
      /\ DOMAIN s = 1..Len(s) /\ DOMAIN t = 1..Len(t)
  BY LenProperties DEF Inserts
<1>2. \A j \in 1..Len(s) : f(j) \in 1..Len(t)
  BY <1>1
<1>3. ASSUME NEW k \in 1..Len(t)
      PROVE  k = i \/ \E j \in 1..Len(s) : f(j) = k
  <2>1. CASE k < i
    BY <1>1, <2>1
  <2>2. CASE k > i
    <3>1. k - 1 \in 1..Len(s) /\ f(k - 1) = k
      BY <1>1, <2>2
    <3> QED
      BY <3>1
  <2> QED
    BY <1>1, <2>1, <2>2
<1> HIDE DEF f
<1>4. Range(t) \subseteq Range(s) \cup {e}
  <2> SUFFICES ASSUME NEW k \in 1..Len(t)
               PROVE  t[k] \in Range(s) \cup {e}
    BY <1>1 DEF Range
  <2>1. CASE k = i
    BY <1>1, <2>1
  <2>2. CASE k # i
    <3>1. PICK j \in 1..Len(s) : f(j) = k
      BY <1>3, <2>2
    <3>2. s[j] = t[k] /\ j \in DOMAIN s
      BY <1>1, <3>1
    <3> QED
      BY <3>2 DEF Range
  <2> QED
    BY <2>1, <2>2
<1>5. Range(s) \subseteq Range(t) /\ e \in Range(t)
  BY <1>1, <1>2 DEF Range
<1> QED
  BY <1>4, <1>5

LEMMA PlacesFinite ==
    ASSUME NEW S, NEW s \in Seq(S), NEW n
    PROVE  LET I == {j \in DOMAIN s : s[j] = n}
           IN  /\ IsFiniteSet(I) /\ Times(s, n) = Cardinality(I)
               /\ Times(s, n) \in Nat /\ (Times(s, n) = 0 <=> n \notin Range(s))
<1> DEFINE I == {j \in DOMAIN s : s[j] = n}
<1>1. DOMAIN s = 1..Len(s) /\ Len(s) \in Nat
  BY LenProperties
<1>2. IsFiniteSet(I)
  <2>1. IsFiniteSet(1..Len(s))
    BY <1>1, FS_Interval
  <2> QED
    BY <1>1, <2>1, FS_Subset
<1>3. Times(s, n) = Cardinality(I)
  BY DEF Times
<1>4. I = {} <=> n \notin Range(s)
  BY DEF Range
<1> HIDE DEF I
<1>5. Cardinality(I) \in Nat /\ (Cardinality(I) = 0 <=> I = {})
  BY <1>2, FS_CardinalityType, FS_EmptySet
<1> QED
  BY <1>2, <1>3, <1>4, <1>5 DEF I

LEMMA InsertsTimes ==
    ASSUME NEW S, NEW s \in Seq(S), NEW t \in Seq(S), NEW i, NEW e, Inserts(s, t, i, e),
           NEW n
    PROVE  Times(t, n) = Times(s, n) + (IF n = e THEN 1 ELSE 0)
<1> DEFINE f(j) == IF j < i THEN j ELSE j + 1
           A == {j \in DOMAIN s : s[j] = n}
           B == {j \in DOMAIN t : t[j] = n}
           g == [j \in A |-> f(j)]
<1>1. /\ Len(s) \in Nat /\ Len(t) = Len(s) + 1 /\ i \in 1..Len(t) /\ t[i] = e
      /\ \A j \in 1..Len(s) : s[j] = t[f(j)]
      /\ DOMAIN s = 1..Len(s) /\ DOMAIN t = 1..Len(t)
  BY LenProperties DEF Inserts
<1>2. /\ IsFiniteSet(A) /\ Times(s, n) = Cardinality(A) /\ Times(s, n) \in Nat
      /\ IsFiniteSet(B) /\ Times(t, n) = Cardinality(B) /\ Times(t, n) \in Nat
  BY PlacesFinite
<1>3. \A j \in 1..Len(s) : f(j) \in 1..Len(t) /\ f(j) # i
  BY <1>1
<1>4. \A j, k \in 1..Len(s) : f(j) = f(k) => j = k
  BY <1>1
<1>5. \A k \in 1..Len(t) : k = i \/ \E j \in 1..Len(s) : f(j) = k
  <2> SUFFICES ASSUME NEW k \in 1..Len(t), k # i
               PROVE  \E j \in 1..Len(s) : f(j) = k
    OBVIOUS
  <2>1. CASE k < i
    BY <1>1, <2>1
  <2>2. CASE k > i
    <3>1. k - 1 \in 1..Len(s) /\ f(k - 1) = k
      BY <1>1, <2>2
    <3> QED
      BY <3>1
  <2> QED
    BY <1>1, <2>1, <2>2
<1>6. i \in B <=> n = e
  BY <1>1
<1> HIDE DEF f
<1>7. g \in Bijection(A, B \ {i})
  <2>1. g \in [A -> B \ {i}]
    BY <1>1, <1>3
  <2>2. \A j, k \in A : g[j] = g[k] => j = k
    BY <1>1, <1>4
  <2>3. \A k \in B \ {i} : \E j \in A : g[j] = k
    <3> SUFFICES ASSUME NEW k \in B, k # i
                 PROVE  \E j \in A : g[j] = k
      OBVIOUS
    <3>1. PICK j \in 1..Len(s) : f(j) = k
      BY <1>1, <1>5
    <3>2. j \in A
      BY <1>1, <3>1
    <3> QED
      BY <3>1, <3>2
  <2> HIDE DEF g, A, B
  <2> QED
    BY <2>1, <2>2, <2>3, Fun_IsBij
<1> HIDE DEF g, A, B
<1>8. Cardinality(B \ {i}) = Cardinality(A)
  BY <1>2, <1>7, FS_Bijection DEF ExistsBijection
<1>9. Cardinality(B \ {i}) = IF i \in B THEN Cardinality(B) - 1 ELSE Cardinality(B)
  BY <1>2, FS_RemoveElement
<1> QED
  BY <1>2, <1>6, <1>8, <1>9

-----------------------------------------------------------------------------
(* What is destroyed.                                                      *)

LEMMA KeptFacts ==
    ASSUME NEW ns, NEW hs, NEW al, hs \subseteq al
    PROVE  LET K == Kept(ns, hs, al)
           IN  /\ hs \subseteq K /\ K \subseteq al
               /\ \A n \in K \ hs : \E c \in K : Refers(ns, c, n)
               /\ \A c \in K, n \in al : Refers(ns, c, n) => n \in K
<1> DEFINE K == Kept(ns, hs, al)
           Referred(S) == \A n \in S : \E c \in hs \cup S : Refers(ns, c, n)
           U == UNION {S \in SUBSET (al \ hs) : Referred(S)}
<1>1. K = hs \cup U
  BY DEF Kept
<1> HIDE DEF K
<1>2. \A n \in U : n \in al \ hs /\ \E S \in SUBSET (al \ hs) : n \in S /\ Referred(S)
  OBVIOUS
<1>3. \A S \in SUBSET (al \ hs) : Referred(S) => S \subseteq U
  OBVIOUS
<1> HIDE DEF U
<1>4. ASSUME NEW n \in U
      PROVE  \E c \in hs \cup U : Refers(ns, c, n)
  <2>1. PICK S \in SUBSET (al \ hs) : n \in S /\ Referred(S)
    BY <1>2
  <2>2. PICK c \in hs \cup S : Refers(ns, c, n)
    BY <2>1
  <2>3. c \in hs \cup U
    BY <1>3, <2>1, <2>2
  <2> QED
    BY <2>2, <2>3
<1>5. ASSUME NEW c \in K, NEW n \in al, Refers(ns, c, n), n \notin hs
      PROVE  n \in U
  <2>1. PICK S \in SUBSET (al \ hs) : Referred(S) /\ c \in hs \cup S
    <3>1. CASE c \in hs
      <4>1. {} \in SUBSET (al \ hs) /\ Referred({}) /\ c \in hs \cup {}
        BY <3>1
      <4> HIDE DEF Referred
      <4> QED
        BY <4>1
    <3>2. CASE c \in U
      BY <1>2, <3>2
    <3> QED
      BY <1>1, <3>1, <3>2
  <2> DEFINE T == S \cup {n}
  <2>2. T \in SUBSET (al \ hs)
    BY <1>5
  <2>3. Referred(T)
    <3>1. ASSUME NEW m \in T
          PROVE  \E d \in hs \cup T : Refers(ns, d, m)
      <4>1. CASE m \in S
        <5>1. PICK d \in hs \cup S : Refers(ns, d, m)
          BY <2>1, <4>1
        <5> QED
          BY <5>1
      <4>2. CASE m = n
        BY <1>5, <2>1, <4>2
      <4> QED
        BY <4>1, <4>2
    <3> QED
      BY <3>1
  <2> QED
    BY <1>3, <2>2, <2>3
<1>6. \A n \in K \ hs : \E c \in K : Refers(ns, c, n)
  BY <1>1, <1>4
<1>7. \A c \in K, n \in al : Refers(ns, c, n) => n \in K
  BY <1>1, <1>5
<1>8. U \subseteq al
  BY <1>2
<1>9. hs \subseteq K /\ K \subseteq al
  BY <1>1, <1>8
<1> QED
  BY <1>6, <1>7, <1>9 DEF K

-----------------------------------------------------------------------------
(* The nodes below a container.                                            *)

LEMMA ChildBelow ==
    ASSUME NEW ns, NEW c, NEW n \in DOMAIN ns, n \in Range(ns[c].children)
    PROVE  n \in Below(ns, c)
BY DEF Below, HasBelow

LEMMA BelowDeeper ==
    ASSUME NEW ns, NEW c, NEW m \in Below(ns, c), NEW n \in DOMAIN ns,
           n \in Range(ns[m].children)
    PROVE  n \in Below(ns, c)
<1> SUFFICES ASSUME NEW S \in SUBSET (DOMAIN ns \ {n}), HasBelow(ns, c, S)
             PROVE  FALSE
  BY DEF Below
<1>1. m \in DOMAIN ns /\ ~\E T \in SUBSET (DOMAIN ns \ {m}) : HasBelow(ns, c, T)
  BY DEF Below
<1>2. n \notin S
  OBVIOUS
<1>3. m \notin S
  BY <1>2 DEF HasBelow
<1>4. S \in SUBSET (DOMAIN ns \ {m})
  BY <1>3
<1> QED
  BY <1>1, <1>4

-----------------------------------------------------------------------------
(* A node that nobody has a handle of is the child of one that is alive.   *)
Supported(ns, al, hs) ==
    \A n \in al : n \in hs \/ \E c \in al : n \in Range(ns[c].children)

(* Where a set of nodes is finite and each has a container in it, one is   *)
(* below itself.                                                           *)
LEMMA CycleExists ==
    ASSUME NEW ns, NEW U, U \subseteq DOMAIN ns, IsFiniteSet(U), U # {},
           \A m \in U : \E c \in U : m \in Range(ns[c].children)
    PROVE  \E m \in U : m \in Below(ns, m)
<1> SUFFICES ASSUME \A m \in U : m \notin Below(ns, m)
             PROVE  FALSE
  OBVIOUS
<1> DEFINE Above(m) == {c \in U : m \in Below(ns, c)}
           Sizes == {Cardinality(Above(m)) : m \in U}
<1>1. \A m \in U : IsFiniteSet(Above(m)) /\ Cardinality(Above(m)) \in Nat
  <2> TAKE m \in U
  <2>1. Above(m) \in SUBSET U
    OBVIOUS
  <2> HIDE DEF Above
  <2> QED
    BY <2>1, FS_Subset, FS_CardinalityType
<1>2. Sizes \in SUBSET Nat /\ Sizes # {}
  BY <1>1
<1>3. PICK k \in Sizes : \A l \in Sizes : k <= l
  BY <1>2, LeastNatural
<1>4. PICK m \in U : k = Cardinality(Above(m))
  OBVIOUS
<1>5. PICK c \in U : m \in Range(ns[c].children)
  OBVIOUS
<1>6. c \in Above(m)
  BY <1>5, ChildBelow
<1>7. c \notin Above(c)
  OBVIOUS
<1>8. Above(c) \subseteq Above(m)
  <2> SUFFICES ASSUME NEW d \in U, c \in Below(ns, d)
               PROVE  m \in Below(ns, d)
    OBVIOUS
  <2> QED
    BY <1>5, BelowDeeper
<1>9. Cardinality(Above(c)) \in Sizes
  OBVIOUS
<1>10. /\ IsFiniteSet(Above(m)) /\ Cardinality(Above(m)) \in Nat
       /\ Cardinality(Above(c)) \in Nat
  BY <1>1
<1> HIDE DEF Sizes, Above
<1>11. Cardinality(Above(c)) <= Cardinality(Above(m) \ {c})
  <2>1. IsFiniteSet(Above(m) \ {c})
    BY <1>10, FS_RemoveElement
  <2>2. Above(c) \in SUBSET (Above(m) \ {c})
    BY <1>7, <1>8
  <2> QED
    BY <2>1, <2>2, FS_Subset
<1>12. Cardinality(Above(m) \ {c}) = Cardinality(Above(m)) - 1
  BY <1>6, <1>10, FS_RemoveElement
<1>13. Cardinality(Above(m)) <= Cardinality(Above(c))
  BY <1>3, <1>4, <1>9
<1> QED
  BY <1>10, <1>11, <1>12, <1>13

LEMMA NoneLeaks ==
    ASSUME NEW ns, NEW al, NEW hs, al \subseteq DOMAIN ns, IsFiniteSet(al),
           Supported(ns, al, hs), NEW n \in al
    PROVE  \/ n \in hs \/ \E c \in hs : n \in Below(ns, c)
           \/ \E c \in al : c \in Below(ns, c) /\ n \in Below(ns, c)
<1> DEFINE Explained(m) ==
              \/ m \in hs \/ \E c \in hs : m \in Below(ns, c)
              \/ \E c \in al : c \in Below(ns, c) /\ m \in Below(ns, c)
           U == {m \in al : ~Explained(m)}
<1> SUFFICES ASSUME U # {} PROVE FALSE
  OBVIOUS
<1>1. ASSUME NEW m \in U
      PROVE  \E c \in U : m \in Range(ns[c].children)
  <2>1. m \in al /\ m \in DOMAIN ns /\ ~Explained(m)
    OBVIOUS
  <2>2. PICK c \in al : m \in Range(ns[c].children)
    BY <2>1 DEF Supported
  <2>3. m \in Below(ns, c)
    BY <2>1, <2>2, ChildBelow
  <2>4. ~Explained(c)
    <3> SUFFICES ASSUME Explained(c) PROVE FALSE
      OBVIOUS
    <3>1. CASE c \in hs
      BY <2>1, <2>3, <3>1
    <3>2. CASE \E d \in hs : c \in Below(ns, d)
      <4>1. PICK d \in hs : c \in Below(ns, d)
        BY <3>2
      <4>2. m \in Below(ns, d)
        BY <2>1, <2>2, <4>1, BelowDeeper
      <4> QED
        BY <2>1, <4>2
    <3>3. CASE \E d \in al : d \in Below(ns, d) /\ c \in Below(ns, d)
      <4>1. PICK d \in al : d \in Below(ns, d) /\ c \in Below(ns, d)
        BY <3>3
      <4>2. m \in Below(ns, d)
        BY <2>1, <2>2, <4>1, BelowDeeper
      <4> QED
        BY <2>1, <4>1, <4>2
    <3> QED
      BY <3>1, <3>2, <3>3
  <2> QED
    BY <2>2, <2>4
<1>2. U \in SUBSET al
  OBVIOUS
<1>3. \A m \in U : m \notin Below(ns, m)
  OBVIOUS
<1> HIDE DEF U
<1>4. IsFiniteSet(U) /\ U \subseteq DOMAIN ns
  BY <1>2, FS_Subset
<1> QED
  BY <1>1, <1>3, <1>4, CycleExists

-----------------------------------------------------------------------------
(* The nodes, `al' of them alive and `ls' listed.                          *)

NodeRecord(N) ==
    [cont: BOOLEAN, id: Ids \cup {Null}, parent: 0..N,
     children: Seq(1..N), table: Seq(1..N)]

Lists(ns, al) ==
    \A c \in 1..Len(ns) :
        /\ Len(ns[c].children) <= MaxChildren
        /\ Range(ns[c].children) \subseteq al
        /\ ns[c].children # <<>> => ns[c].cont /\ c \in al

Tables(ns) ==
    \A c \in 1..Len(ns), n \in 1..Len(ns) :
        Times(ns[c].children, n) = Times(ns[c].table, n)

(* A child that is not listed is in one place, and knows its container.    *)
Owned(ns, ls) ==
    \A c \in 1..Len(ns) : \A i, j \in DOMAIN ns[c].children :
        LET n == ns[c].children[i] IN
        n \notin ls =>
            /\ ns[n].parent = c
            /\ ns[c].children[j] = n => i = j

Present(ns, al) ==
    \A n \in al : ns[n].parent \in al => n \in Range(ns[ns[n].parent].children)

NodesInv(ns, al, ls) ==
    /\ ns \in Seq(NodeRecord(Len(ns)))
    /\ al \subseteq 1..Len(ns)
    /\ Lists(ns, al)
    /\ Tables(ns)
    /\ Owned(ns, ls)
    /\ Present(ns, al)

(* The inductive invariant.  The properties of the runs are about nodes    *)
(* that are alive; a step that destroys some needs to know of the rest     *)
(* that the lists of all nodes hold only nodes that are alive, that a      *)
(* child that is not listed is in one list, once, and that each node       *)
(* without a handle of the user is a child of one that is alive.           *)
TreeInv ==
    /\ NodesInv(nodes, alive, listed)
    /\ held \subseteq alive
    /\ Supported(nodes, alive, held)

LEMMA NodeFields ==
    ASSUME NEW N, NEW r \in NodeRecord(N)
    PROVE  /\ r.cont \in BOOLEAN /\ r.id \in Ids \cup {Null} /\ r.parent \in 0..N
           /\ r.children \in Seq(1..N) /\ r.table \in Seq(1..N)
BY DEF NodeRecord

LEMMA NodeMade ==
    ASSUME NEW N, NEW cont \in BOOLEAN, NEW id \in Ids \cup {Null}, NEW p \in 0..N,
           NEW cs \in Seq(1..N), NEW tb \in Seq(1..N), NEW r,
           r = [cont |-> cont, id |-> id, parent |-> p, children |-> cs, table |-> tb]
    PROVE  /\ r \in NodeRecord(N)
           /\ r.cont = cont /\ r.id = id /\ r.parent = p /\ r.children = cs /\ r.table = tb
BY DEF NodeRecord

LEMMA NodeGrows ==
    ASSUME NEW N \in Nat, NEW M \in Nat, N <= M
    PROVE  NodeRecord(N) \subseteq NodeRecord(M)
<1>1. 1..N \subseteq 1..M /\ 0..N \subseteq 0..M
  OBVIOUS
<1>2. Seq(1..N) \subseteq Seq(1..M)
  BY <1>1
<1> QED
  BY <1>1, <1>2 DEF NodeRecord

LEMMA NodesSequence ==
    ASSUME NEW ns, NEW N, ns \in Seq(NodeRecord(N))
    PROVE  /\ Len(ns) \in Nat /\ DOMAIN ns = 1..Len(ns)
           /\ \A c \in 1..Len(ns) : ns[c] \in NodeRecord(N)
BY LenProperties, ElementOfSeq

(* What the table refers to the list does, too.                            *)
LEMMA RefersToChildren ==
    ASSUME NEW ns, NEW al, NEW ls, NodesInv(ns, al, ls), NEW c \in 1..Len(ns),
           NEW n \in 1..Len(ns)
    PROVE  Refers(ns, c, n) <=> n \in Range(ns[c].children)
<1>1. ns[c] \in NodeRecord(Len(ns))
  BY NodesSequence DEF NodesInv
<1>2. ns[c].children \in Seq(1..Len(ns)) /\ ns[c].table \in Seq(1..Len(ns))
  BY <1>1, NodeFields
<1>3. Times(ns[c].children, n) = Times(ns[c].table, n)
  BY DEF NodesInv, Tables
<1>4. /\ Times(ns[c].children, n) = 0 <=> n \notin Range(ns[c].children)
      /\ Times(ns[c].table, n) = 0 <=> n \notin Range(ns[c].table)
  BY <1>2, PlacesFinite
<1> QED
  BY <1>3, <1>4 DEF Refers

(* The end of every step.                                                  *)
LEMMA DestroyedInv ==
    ASSUME NEW ns, NEW hs, NEW al, NodesInv(ns, al, listed'), hs \subseteq al,
           alive' = Kept(ns, hs, al), held' = hs,
           nodes' = [n \in DOMAIN ns |-> IF n \in alive' THEN ns[n] ELSE Gone]
    PROVE  TreeInv'
<1> DEFINE N == Len(ns)
<1>1. /\ N \in Nat /\ DOMAIN ns = 1..N /\ al \subseteq 1..N
      /\ \A c \in 1..N : ns[c] \in NodeRecord(N)
  BY NodesSequence DEF NodesInv
<1>3. /\ hs \subseteq alive' /\ alive' \subseteq al
      /\ \A n \in alive' \ hs : \E c \in alive' : Refers(ns, c, n)
      /\ \A c \in alive', n \in al : Refers(ns, c, n) => n \in alive'
  <2> DEFINE K == Kept(ns, hs, al)
  <2>1. /\ hs \subseteq K /\ K \subseteq al
        /\ \A n \in K \ hs : \E c \in K : Refers(ns, c, n)
        /\ \A c \in K, n \in al : Refers(ns, c, n) => n \in K
    BY KeptFacts, Zenon
  <2>2. alive' = K
    OBVIOUS
  <2> HIDE DEF K
  <2> QED
    BY <2>1, <2>2
<1>4. \A c \in 1..N, n \in 1..N : Refers(ns, c, n) <=> n \in Range(ns[c].children)
  BY RefersToChildren
<1>5. /\ Gone \in NodeRecord(N) /\ Gone.children = <<>> /\ Gone.table = <<>>
      /\ Gone.parent = 0
  BY <1>1, EmptySeq DEF Gone, NodeRecord, Null
<1>6. \A n \in 1..N : nodes'[n] = IF n \in alive' THEN ns[n] ELSE Gone
  BY <1>1
<1>7. nodes' \in Seq(NodeRecord(N)) /\ Len(nodes') = N
  <2>1. nodes' \in [1..N -> NodeRecord(N)]
    BY <1>1, <1>5
  <2>2. nodes' \in Seq(NodeRecord(N))
    BY <1>1, <2>1
  <2>3. DOMAIN nodes' = 1..N /\ DOMAIN nodes' = 1..Len(nodes') /\ Len(nodes') \in Nat
    BY <2>1, <2>2, LenProperties
  <2> QED
    BY <1>1, <2>2, <2>3
<1> HIDE DEF N
<1>8. alive' \subseteq 1..N
  BY <1>1, <1>3
<1>9. Lists(nodes', alive')
  <2>1. ASSUME NEW c \in 1..N, c \in alive'
        PROVE  /\ Len(ns[c].children) <= MaxChildren
               /\ Range(ns[c].children) \subseteq alive'
               /\ ns[c].children # <<>> => ns[c].cont
    <3>1. /\ Len(ns[c].children) <= MaxChildren /\ Range(ns[c].children) \subseteq al
          /\ ns[c].children # <<>> => ns[c].cont
      BY <1>1 DEF NodesInv, Lists, N
    <3>2. Range(ns[c].children) \subseteq alive'
      BY <1>1, <1>3, <1>4, <2>1, <3>1
    <3> QED
      BY <3>1, <3>2
  <2>2. Len(<<>>) <= MaxChildren /\ Range(<<>>) = {}
    BY NodeTreeAssumption DEF Range
  <2> QED
    BY <1>5, <1>6, <1>7, <2>1, <2>2 DEF Lists
<1>10. Tables(nodes')
  BY <1>5, <1>6, <1>7 DEF NodesInv, Tables, N
<1>11. Owned(nodes', listed')
  <2> SUFFICES ASSUME NEW c \in 1..N, NEW i \in DOMAIN nodes'[c].children,
                      NEW j \in DOMAIN nodes'[c].children, NEW n,
                      n = nodes'[c].children[i], n \notin listed'
               PROVE  /\ nodes'[n].parent = c
                      /\ nodes'[c].children[j] = n => i = j
    BY <1>7 DEF Owned
  <2>1. c \in alive' /\ nodes'[c] = ns[c]
    <3>1. CASE c \notin alive'
      BY <1>5, <1>6, <3>1
    <3> QED
      BY <1>6, <3>1
  <2>2. n \in Range(nodes'[c].children)
    BY DEF Range
  <2>3. n \in alive'
    BY <1>7, <1>9, <2>2 DEF Lists
  <2>4. nodes'[n] = ns[n]
    BY <1>6, <1>8, <2>3
  <2>5. ns[n].parent = c /\ (ns[c].children[j] = n => i = j)
    BY <2>1 DEF NodesInv, Owned, N
  <2> QED
    BY <2>1, <2>4, <2>5
<1>12. Present(nodes', alive')
  <2> SUFFICES ASSUME NEW n \in alive', nodes'[n].parent \in alive'
               PROVE  n \in Range(nodes'[nodes'[n].parent].children)
    BY DEF Present
  <2>1. nodes'[n] = ns[n] /\ nodes'[ns[n].parent] = ns[ns[n].parent]
    BY <1>6, <1>8
  <2>2. n \in al /\ ns[n].parent \in al
    BY <1>3, <2>1
  <2> QED
    BY <2>1, <2>2 DEF NodesInv, Present
<1>13. Supported(nodes', alive', held')
  <2> SUFFICES ASSUME NEW n \in alive', n \notin hs
               PROVE  \E c \in alive' : n \in Range(nodes'[c].children)
    BY DEF Supported
  <2>1. PICK c \in alive' : Refers(ns, c, n)
    BY <1>3
  <2>2. n \in Range(ns[c].children) /\ nodes'[c] = ns[c]
    BY <1>4, <1>6, <1>8, <2>1
  <2> QED
    BY <2>2
<1> QED
  BY <1>3, <1>7, <1>8, <1>9, <1>10, <1>11, <1>12, <1>13 DEF TreeInv, NodesInv

LEMMA BecomeInv ==
    ASSUME NEW ns, NEW hs, NEW al, alive \cup (DOMAIN ns \ DOMAIN nodes) = al,
           NodesInv(ns, al, listed'), hs \subseteq al, Become(ns, hs)
    PROVE  TreeInv'
<1>1. /\ alive' = Kept(ns, hs, al) /\ held' = hs
      /\ nodes' = [n \in DOMAIN ns |-> IF n \in alive' THEN ns[n] ELSE Gone]
  BY Zenon DEF Become
<1> QED
  BY <1>1, DestroyedInv, Zenon

-----------------------------------------------------------------------------
(* A change of the lists of c and of the parent of n.                      *)

LEMMA ChildrenChanged ==
    ASSUME NEW N, NEW r \in NodeRecord(N), NEW cs \in Seq(1..N)
    PROVE  LET new == [r EXCEPT !.children = cs]
           IN  /\ new \in NodeRecord(N) /\ new.cont = r.cont /\ new.parent = r.parent
               /\ new.table = r.table /\ new.children = cs
BY DEF NodeRecord

LEMMA TableChanged ==
    ASSUME NEW N, NEW r \in NodeRecord(N), NEW cs \in Seq(1..N)
    PROVE  LET new == [r EXCEPT !.table = cs]
           IN  /\ new \in NodeRecord(N) /\ new.cont = r.cont /\ new.parent = r.parent
               /\ new.table = cs /\ new.children = r.children
BY DEF NodeRecord

LEMMA ParentChanged ==
    ASSUME NEW N, NEW r \in NodeRecord(N), NEW p \in 0..N
    PROVE  LET new == [r EXCEPT !.parent = p]
           IN  /\ new \in NodeRecord(N) /\ new.cont = r.cont /\ new.parent = p
               /\ new.table = r.table /\ new.children = r.children
BY DEF NodeRecord

Changed(ns, c, cs, tb, n, p, new) ==
    /\ new \in Seq(NodeRecord(Len(ns))) /\ Len(new) = Len(ns)
    /\ \A k \in 1..Len(ns) :
          /\ new[k].cont = ns[k].cont
          /\ new[k].children = IF k = c THEN cs ELSE ns[k].children
          /\ new[k].table = IF k = c THEN tb ELSE ns[k].table
          /\ new[k].parent = IF k = n THEN p ELSE ns[k].parent

LEMMA PlaceChanged ==
    ASSUME NEW S, NEW s \in Seq(S), NEW N, Len(s) = N, NEW c \in 1..N, NEW e \in S
    PROVE  LET new == [s EXCEPT ![c] = e]
           IN  /\ new \in Seq(S) /\ Len(new) = N
               /\ \A k \in 1..N : new[k] = IF k = c THEN e ELSE s[k]
<1>1. c \in 1..Len(s)
  OBVIOUS
<1>2. DOMAIN s = 1..N
  BY LenProperties
<1> QED
  BY <1>1, <1>2, ExceptSeq

LEMMA ChangeFacts ==
    ASSUME NEW N, NEW ns \in Seq(NodeRecord(N)), Len(ns) = N,
           NEW c \in 1..N, NEW n \in 1..N, NEW p \in 0..N,
           NEW cs \in Seq(1..N), NEW tb \in Seq(1..N)
    PROVE  LET ns1 == [ns EXCEPT ![c] = [ns[c] EXCEPT !.children = cs]]
               ns2 == [ns1 EXCEPT ![c] = [ns1[c] EXCEPT !.table = tb]]
               ns3 == [ns2 EXCEPT ![n] = [ns2[n] EXCEPT !.parent = p]]
           IN  ns1[c].table = ns[c].table /\ Changed(ns, c, cs, tb, n, p, ns3)
<1> DEFINE r1 == [ns[c] EXCEPT !.children = cs]
           ns1 == [ns EXCEPT ![c] = r1]
           r2 == [ns1[c] EXCEPT !.table = tb]
           ns2 == [ns1 EXCEPT ![c] = r2]
           r3 == [ns2[n] EXCEPT !.parent = p]
           ns3 == [ns2 EXCEPT ![n] = r3]
<1> SUFFICES ns1[c].table = ns[c].table /\ Changed(ns, c, cs, tb, n, p, ns3)
  BY Zenon
<1>1. \A k \in 1..N : ns[k] \in NodeRecord(N)
  BY NodesSequence
<1>2. /\ r1 \in NodeRecord(N) /\ r1.cont = ns[c].cont /\ r1.parent = ns[c].parent
      /\ r1.table = ns[c].table /\ r1.children = cs
  <2>1. ns[c] \in NodeRecord(N)
    BY <1>1
  <2> QED
    BY <2>1 DEF NodeRecord
<1> HIDE DEF r1
<1>4. /\ ns1 \in Seq(NodeRecord(N)) /\ Len(ns1) = N
      /\ \A k \in 1..N : ns1[k] = IF k = c THEN r1 ELSE ns[k]
  BY <1>2, PlaceChanged
<1> HIDE DEF ns1
<1>5. /\ r2 \in NodeRecord(N) /\ r2.cont = ns1[c].cont /\ r2.parent = ns1[c].parent
      /\ r2.table = tb /\ r2.children = ns1[c].children
  <2>1. ns1[c] \in NodeRecord(N)
    BY <1>2, <1>4
  <2> QED
    BY <2>1 DEF NodeRecord
<1> HIDE DEF r2
<1>7. /\ ns2 \in Seq(NodeRecord(N)) /\ Len(ns2) = N
      /\ \A k \in 1..N : ns2[k] = IF k = c THEN r2 ELSE ns1[k]
  BY <1>4, <1>5, PlaceChanged
<1> HIDE DEF ns2
<1>8. /\ r3 \in NodeRecord(N) /\ r3.cont = ns2[n].cont /\ r3.parent = p
      /\ r3.table = ns2[n].table /\ r3.children = ns2[n].children
  <2>1. ns2[n] \in NodeRecord(N)
    BY <1>7, NodesSequence
  <2> QED
    BY <2>1 DEF NodeRecord
<1> HIDE DEF r3
<1>10. /\ ns3 \in Seq(NodeRecord(N)) /\ Len(ns3) = N
       /\ \A k \in 1..N : ns3[k] = IF k = n THEN r3 ELSE ns2[k]
  BY <1>7, <1>8, PlaceChanged
<1> HIDE DEF ns3
<1>11. ASSUME NEW k \in 1..N
       PROVE  /\ ns2[k].cont = ns[k].cont /\ ns2[k].parent = ns[k].parent
              /\ ns2[k].children = IF k = c THEN cs ELSE ns[k].children
              /\ ns2[k].table = IF k = c THEN tb ELSE ns[k].table
  <2>1. CASE k = c
    BY <1>2, <1>4, <1>5, <1>7, <2>1
  <2>2. CASE k # c
    BY <1>4, <1>7, <2>2
  <2> QED
    BY <2>1, <2>2
<1>12. ASSUME NEW k \in 1..N
       PROVE  /\ ns3[k].cont = ns[k].cont
              /\ ns3[k].children = IF k = c THEN cs ELSE ns[k].children
              /\ ns3[k].table = IF k = c THEN tb ELSE ns[k].table
              /\ ns3[k].parent = IF k = n THEN p ELSE ns[k].parent
  <2>1. CASE k = n
    BY <1>8, <1>10, <1>11, <2>1
  <2>2. CASE k # n
    BY <1>10, <1>11, <2>2
  <2> QED
    BY <2>1, <2>2
<1>13. ns1[c].table = ns[c].table
  BY <1>2, <1>4
<1>14. Changed(ns, c, cs, tb, n, p, ns3)
  BY <1>10, <1>12 DEF Changed
<1> QED
  BY <1>13, <1>14

LEMMA AddedChanges ==
    ASSUME NEW N, NEW ns \in Seq(NodeRecord(N)), Len(ns) = N,
           NEW c \in 1..N, NEW n \in 1..N, NEW cs \in Seq(1..N)
    PROVE  Changed(ns, c, cs, Append(ns[c].table, n), n, c, AddedTo(ns, c, cs, n))
<1> DEFINE ns1 == [ns EXCEPT ![c] = [ns[c] EXCEPT !.children = cs]]
           tb == Append(ns[c].table, n)
           ns2 == [ns1 EXCEPT ![c] = [ns1[c] EXCEPT !.table = tb]]
           ns3 == [ns2 EXCEPT ![n] = [ns2[n] EXCEPT !.parent = c]]
           ns2a == [ns1 EXCEPT ![c] = [ns1[c] EXCEPT !.table = Append(ns1[c].table, n)]]
           ns3a == [ns2a EXCEPT ![n] = [ns2a[n] EXCEPT !.parent = c]]
<1>1. tb \in Seq(1..N) /\ c \in 0..N
  <2>1. ns[c] \in NodeRecord(N)
    BY NodesSequence
  <2>2. ns[c].table \in Seq(1..N)
    BY <2>1, NodeFields
  <2> QED
    BY <2>2, AppendProperties
<1>2. AddedTo(ns, c, cs, n) = ns3a
  BY Zenon DEF AddedTo
<1> HIDE DEF tb
<1>3. ns1[c].table = ns[c].table /\ Changed(ns, c, cs, tb, n, c, ns3)
  BY <1>1, ChangeFacts, Zenon
<1>4. ns2a = ns2 /\ ns3a = ns3
  BY <1>3, Zenon DEF tb
<1> QED
  BY <1>2, <1>3, <1>4, Zenon DEF tb

(* Erasing: the first entry of the table for the child goes.               *)
LEMMA ErasedChanges ==
    ASSUME NEW N, nodes \in Seq(NodeRecord(N)), Len(nodes) = N, NEW c \in 1..N,
           NEW i \in DOMAIN nodes[c].children,
           RemoveFirst(nodes[c].table, nodes[c].children[i]) \in Seq(1..N)
    PROVE  LET n == nodes[c].children[i]
           IN  Changed(nodes, c, RemoveAt(nodes[c].children, i),
                       RemoveFirst(nodes[c].table, n), n, Null, Erased(c, i))
<1> DEFINE n == nodes[c].children[i]
           cs == RemoveAt(nodes[c].children, i)
           tb == RemoveFirst(nodes[c].table, n)
           ns1 == [nodes EXCEPT ![c] = [nodes[c] EXCEPT !.children = cs]]
           ns2 == [ns1 EXCEPT ![c] = [ns1[c] EXCEPT !.table = tb]]
           ns3 == [ns2 EXCEPT ![n] = [ns2[n] EXCEPT !.parent = Null]]
           ns2a == [ns1 EXCEPT ![c] = [ns1[c] EXCEPT !.table = RemoveFirst(ns1[c].table, n)]]
           ns3a == [ns2a EXCEPT ![n] = [ns2a[n] EXCEPT !.parent = Null]]
<1>1. nodes[c] \in NodeRecord(N) /\ N \in Nat
  BY NodesSequence
<1>2. nodes[c].children \in Seq(1..N)
  BY <1>1, NodeFields
<1>3. n \in 1..N /\ i \in 1..Len(nodes[c].children)
  BY <1>2
<1>4. cs \in Seq(1..N) /\ tb \in Seq(1..N)
  BY <1>2, <1>3, RemoveAtInserts
<1>5. Null \in 0..N
  BY <1>1 DEF Null
<1>6. Erased(c, i) = ns3a
  BY Zenon DEF Erased
<1> HIDE DEF n, cs, tb
<1>7. ns1[c].table = nodes[c].table /\ Changed(nodes, c, cs, tb, n, Null, ns3)
  BY <1>3, <1>4, <1>5, ChangeFacts
<1>8. ns2a = ns2
  <2>1. RemoveFirst(ns1[c].table, n) = tb
    BY <1>7, Zenon DEF tb
  <2> QED
    BY <2>1, Zenon
<1>9. Changed(nodes, c, cs, tb, n, Null, ns3a)
  BY <1>7, <1>8, Zenon
<1> QED
  BY <1>6, <1>9, Zenon DEF n, cs, tb

LEMMA RemoveFirstInserts ==
    ASSUME NEW S, NEW s \in Seq(S), NEW n \in Range(s)
    PROVE  /\ RemoveFirst(s, n) \in Seq(S)
           /\ \E i : Inserts(RemoveFirst(s, n), s, i, n)
<1> DEFINE i == SelectInSeq(s, LAMBDA m : m = n)
<1>1. \E j \in DOMAIN s : s[j] = n
  BY DEF Range
<1>2. i \in 1..Len(s) /\ s[i] = n
  BY <1>1, FirstFound, Zenon
<1>3. RemoveFirst(s, n) = RemoveAt(s, i)
  <2>1. \E j \in 1..Len(s) : s[j] = n
    BY <1>2
  <2> QED
    BY <2>1, Zenon DEF RemoveFirst
<1> HIDE DEF i
<1>4. RemoveAt(s, i) \in Seq(S) /\ Inserts(RemoveAt(s, i), s, i, n)
  BY <1>2, RemoveAtInserts
<1> QED
  BY <1>3, <1>4

(* The places of what was there, and back.                                 *)
PlacesBack(f, s, t, i) ==
    /\ \A x \in DOMAIN t : x # i => f[x] \in DOMAIN s /\ t[x] = s[f[x]]
    /\ \A x, y \in DOMAIN t : x # i /\ y # i /\ f[x] = f[y] => x = y

PlacesForth(f, s, t, i) ==
    /\ \A x \in DOMAIN s : f[x] \in DOMAIN t /\ f[x] # i /\ s[x] = t[f[x]]
    /\ \A x, y \in DOMAIN s : f[x] = f[y] => x = y

LEMMA PlacesAfter ==
    ASSUME NEW S, NEW s \in Seq(S), NEW t \in Seq(S), NEW i, NEW e, Inserts(s, t, i, e)
    PROVE  \E f : PlacesBack(f, s, t, i)
<1> DEFINE f == [x \in DOMAIN t |-> IF x < i THEN x ELSE x - 1]
<1>1. /\ Len(s) \in Nat /\ DOMAIN s = 1..Len(s) /\ Len(t) = Len(s) + 1
      /\ DOMAIN t = 1..(Len(s) + 1) /\ i \in 1..(Len(s) + 1)
      /\ \A j \in 1..Len(s) : s[j] = t[IF j < i THEN j ELSE j + 1]
  BY LenProperties DEF Inserts
<1>2. \A x \in 1..(Len(s) + 1) : f[x] = IF x < i THEN x ELSE x - 1
  BY <1>1
<1> HIDE DEF f
<1>3. ASSUME NEW x \in DOMAIN t, x # i
      PROVE  f[x] \in DOMAIN s /\ t[x] = s[f[x]]
  <2>1. x \in Int /\ f[x] \in 1..Len(s) /\ (IF f[x] < i THEN f[x] ELSE f[x] + 1) = x
    BY <1>1, <1>2, <1>3
  <2> QED
    BY <1>1, <2>1
<1>4. ASSUME NEW x \in DOMAIN t, NEW y \in DOMAIN t, x # i, y # i, f[x] = f[y]
      PROVE  x = y
  BY <1>1, <1>2, <1>4
<1> QED
  BY <1>3, <1>4 DEF PlacesBack

LEMMA PlacesBefore ==
    ASSUME NEW S, NEW s \in Seq(S), NEW t \in Seq(S), NEW i, NEW e, Inserts(s, t, i, e)
    PROVE  \E f : PlacesForth(f, s, t, i)
<1> DEFINE f == [x \in DOMAIN s |-> IF x < i THEN x ELSE x + 1]
<1>1. /\ Len(s) \in Nat /\ DOMAIN s = 1..Len(s) /\ Len(t) = Len(s) + 1
      /\ DOMAIN t = 1..(Len(s) + 1) /\ i \in 1..(Len(s) + 1)
      /\ \A j \in 1..Len(s) : s[j] = t[IF j < i THEN j ELSE j + 1]
  BY LenProperties DEF Inserts
<1>2. \A x \in 1..Len(s) : f[x] = IF x < i THEN x ELSE x + 1
  BY <1>1
<1> HIDE DEF f
<1>3. ASSUME NEW x \in DOMAIN s
      PROVE  f[x] \in DOMAIN t /\ f[x] # i /\ s[x] = t[f[x]]
  BY <1>1, <1>2
<1>4. ASSUME NEW x \in DOMAIN s, NEW y \in DOMAIN s, f[x] = f[y]
      PROVE  x = y
  BY <1>1, <1>2, <1>4
<1> QED
  BY <1>3, <1>4 DEF PlacesForth

LEMMA ListFields ==
    ASSUME NEW ns, NEW al, NEW ls, NodesInv(ns, al, ls), NEW c \in 1..Len(ns)
    PROVE  /\ ns[c] \in NodeRecord(Len(ns)) /\ Len(ns) \in Nat
           /\ ns[c].children \in Seq(1..Len(ns)) /\ ns[c].table \in Seq(1..Len(ns))
           /\ DOMAIN ns[c].children = 1..Len(ns[c].children)
           /\ Len(ns[c].children) \in Nat
           /\ \A i \in DOMAIN ns[c].children :
                 ns[c].children[i] \in Range(ns[c].children) /\ ns[c].children[i] \in al
<1>1. ns[c] \in NodeRecord(Len(ns)) /\ Len(ns) \in Nat
  BY NodesSequence DEF NodesInv
<1>2. ns[c].children \in Seq(1..Len(ns)) /\ ns[c].table \in Seq(1..Len(ns))
  BY <1>1, NodeFields
<1>3. DOMAIN ns[c].children = 1..Len(ns[c].children) /\ Len(ns[c].children) \in Nat
  BY <1>2, LenProperties
<1>4. \A i \in DOMAIN ns[c].children : ns[c].children[i] \in Range(ns[c].children)
  BY DEF Range
<1>5. Range(ns[c].children) \subseteq al
  BY DEF NodesInv, Lists
<1> QED
  BY <1>1, <1>2, <1>3, <1>4, <1>5

LEMMA AddedInv ==
    ASSUME NEW ns, NEW al, NEW ls, NodesInv(ns, al, ls), NEW c \in al, NEW n \in al,
           ns[c].cont, Len(ns[c].children) < MaxChildren, ns[n].parent \notin al,
           NEW cs \in Seq(1..Len(ns)), NEW i, Inserts(ns[c].children, cs, i, n)
    PROVE  NodesInv(AddedTo(ns, c, cs, n), al, ls)
<1> DEFINE N == Len(ns)
           new == AddedTo(ns, c, cs, n)
           tb == Append(ns[c].table, n)
<1>1. ns \in Seq(NodeRecord(N)) /\ c \in 1..N /\ n \in 1..N /\ al \subseteq 1..N
  BY DEF NodesInv
<1>2. /\ ns[c].children \in Seq(1..N) /\ ns[c].table \in Seq(1..N) /\ N \in Nat
      /\ Len(ns[c].children) \in Nat
  BY <1>1, ListFields
<1>3. Changed(ns, c, cs, tb, n, c, new)
  BY <1>1, AddedChanges
<1>4. tb \in Seq(1..N) /\ Inserts(ns[c].table, tb, Len(ns[c].table) + 1, n)
  BY <1>1, <1>2, AppendInserts
<1> HIDE DEF new, tb
<1>5. /\ new \in Seq(NodeRecord(N)) /\ Len(new) = N
      /\ \A k \in 1..N :
            /\ new[k].cont = ns[k].cont
            /\ new[k].children = IF k = c THEN cs ELSE ns[k].children
            /\ new[k].table = IF k = c THEN tb ELSE ns[k].table
            /\ new[k].parent = IF k = n THEN c ELSE ns[k].parent
  BY <1>3 DEF Changed
<1>6. Range(cs) = Range(ns[c].children) \cup {n}
  BY <1>2, InsertsRange
<1>7. /\ Len(cs) = Len(ns[c].children) + 1 /\ i \in 1..Len(cs) /\ cs[i] = n
      /\ \A j \in 1..Len(ns[c].children) :
            ns[c].children[j] = cs[IF j < i THEN j ELSE j + 1]
      /\ DOMAIN cs = 1..Len(cs)
  BY LenProperties DEF Inserts
<1>12. PICK f : PlacesBack(f, ns[c].children, cs, i)
  BY <1>2, PlacesAfter
<1>13. /\ \A x \in DOMAIN cs : x # i => /\ f[x] \in DOMAIN ns[c].children
                                       /\ cs[x] = ns[c].children[f[x]]
       /\ \A x, y \in DOMAIN cs : x # i /\ y # i /\ f[x] = f[y] => x = y
  BY <1>12 DEF PlacesBack
<1>8. Lists(new, al)
  <2>1. Len(cs) <= MaxChildren
    BY <1>2, <1>7, NodeTreeAssumption
  <2>2. \A k \in 1..N : /\ Len(ns[k].children) <= MaxChildren
                        /\ Range(ns[k].children) \subseteq al
                        /\ ns[k].children # <<>> => ns[k].cont /\ k \in al
    BY DEF NodesInv, Lists
  <2>3. Range(cs) \subseteq al
    BY <1>1, <1>6, <2>2
  <2> QED
    BY <1>5, <2>1, <2>2, <2>3 DEF Lists
<1>9. Tables(new)
  <2> SUFFICES ASSUME NEW k \in 1..N, NEW m \in 1..N
               PROVE  Times(new[k].children, m) = Times(new[k].table, m)
    BY <1>5 DEF Tables
  <2>1. Times(ns[k].children, m) = Times(ns[k].table, m)
    BY DEF NodesInv, Tables
  <2>2. CASE k = c
    <3>1. Times(cs, m) = Times(ns[c].children, m) + (IF m = n THEN 1 ELSE 0)
      BY <1>2, InsertsTimes
    <3>2. Times(tb, m) = Times(ns[c].table, m) + (IF m = n THEN 1 ELSE 0)
      BY <1>2, <1>4, InsertsTimes
    <3> QED
      BY <1>5, <2>1, <2>2, <3>1, <3>2
  <2>3. CASE k # c
    BY <1>5, <2>1, <2>3
  <2> QED
    BY <2>2, <2>3
<1>10. Owned(new, ls)
  <2>1. ASSUME n \notin ls, NEW k \in 1..N, NEW j \in DOMAIN ns[k].children
        PROVE  ns[k].children[j] # n
    <3>1. DOMAIN ns[k].children = 1..Len(ns[k].children)
      BY ListFields
    <3>2. ns[k].children # <<>>
      BY <3>1
    <3>3. k \in al
      BY <3>2 DEF NodesInv, Lists
    <3>4. ns[k].children[j] = n => ns[n].parent = k
      BY <2>1 DEF NodesInv, Owned
    <3> QED
      BY <3>3, <3>4
  <2> SUFFICES ASSUME NEW k \in 1..N, NEW j \in DOMAIN new[k].children,
                      NEW l \in DOMAIN new[k].children, new[k].children[j] \notin ls
               PROVE  /\ new[new[k].children[j]].parent = k
                      /\ new[k].children[l] = new[k].children[j] => j = l
    BY <1>5, Zenon DEF Owned
  <2>2. CASE k # c
    <3>1. new[k].children = ns[k].children
      BY <1>5, <2>2
    <3> DEFINE m == ns[k].children[j]
    <3>2. m \in 1..N
      BY <1>1, <3>1, ListFields
    <3>3. m # n
      BY <2>1, <3>1
    <3>4. ns[m].parent = k /\ (ns[k].children[l] = m => j = l)
      BY <3>1 DEF NodesInv, Owned
    <3> QED
      BY <1>5, <3>1, <3>2, <3>3, <3>4
  <2>3. CASE k = c
    <3>1. new[k].children = cs
      BY <1>5, <2>3
    <3>5. ASSUME n \notin ls, NEW x \in DOMAIN cs
          PROVE  cs[x] = n <=> x = i
      <4>1. CASE x = i
        BY <1>7, <4>1
      <4>2. CASE x # i
        <5>1. f[x] \in DOMAIN ns[c].children /\ cs[x] = ns[c].children[f[x]]
          BY <1>13, <4>2
        <5> QED
          BY <1>1, <2>1, <3>5, <4>2, <5>1
      <4> QED
        BY <4>1, <4>2
    <3>6. CASE cs[j] = n
      BY <1>1, <1>5, <2>3, <3>1, <3>5, <3>6
    <3>7. CASE cs[j] # n
      <4>1. /\ j # i /\ f[j] \in DOMAIN ns[c].children /\ cs[j] = ns[c].children[f[j]]
            /\ j \in DOMAIN cs /\ l \in DOMAIN cs
        BY <1>7, <3>1, <1>13, <3>7
      <4>2. cs[j] \in 1..N /\ cs[j] \notin ls
        <5>1. ns[c].children[f[j]] \in al
          BY <1>1, <4>1, ListFields
        <5> QED
          BY <1>1, <3>1, <4>1, <5>1
      <4>3. ns[cs[j]].parent = c
        <5>1. \A x \in DOMAIN ns[c].children :
                 ns[c].children[x] \notin ls => ns[ns[c].children[x]].parent = c
          BY <1>1 DEF NodesInv, Owned
        <5> QED
          BY <4>1, <4>2, <5>1
      <4>4. ASSUME cs[l] = cs[j]
            PROVE  j = l
        <5>1. l # i /\ f[l] \in DOMAIN ns[c].children /\ cs[l] = ns[c].children[f[l]]
          BY <1>7, <1>13, <3>7, <4>1, <4>4
        <5>2. \A x, y \in DOMAIN ns[c].children :
                 ns[c].children[x] \notin ls /\ ns[c].children[y] = ns[c].children[x]
                    => x = y
          BY <1>1 DEF NodesInv, Owned
        <5>3. f[j] = f[l]
          BY <4>1, <4>2, <4>4, <5>1, <5>2
        <5> QED
          BY <1>13, <4>1, <5>1, <5>3
      <4> QED
        BY <1>5, <2>3, <3>1, <3>7, <4>2, <4>3, <4>4
    <3> QED
      BY <3>6, <3>7
  <2> QED
    BY <2>2, <2>3
<1>11. Present(new, al)
  <2> SUFFICES ASSUME NEW m \in al, new[m].parent \in al
               PROVE  m \in Range(new[new[m].parent].children)
    BY DEF Present
  <2>1. CASE m = n
    BY <1>1, <1>5, <1>6, <2>1
  <2>2. CASE m # n
    <3>1. new[m].parent = ns[m].parent
      BY <1>1, <1>5, <2>2
    <3>2. m \in Range(ns[ns[m].parent].children)
      BY <3>1 DEF NodesInv, Present
    <3>3. ns[m].parent \in 1..N
      BY <1>1, <3>1
    <3>4. new[ns[m].parent].children = IF ns[m].parent = c THEN cs
                                       ELSE ns[ns[m].parent].children
      BY <1>5, <3>3
    <3> QED
      BY <1>6, <3>1, <3>2, <3>4
  <2> QED
    BY <2>1, <2>2
<1> QED
  BY <1>1, <1>5, <1>8, <1>9, <1>10, <1>11 DEF NodesInv, new

LEMMA SequenceRange ==
    ASSUME NEW S, NEW s \in Seq(S)
    PROVE  Range(s) \subseteq S
BY ElementOfSeq, LenProperties DEF Range

LEMMA ErasedInv ==
    ASSUME NEW al, NEW ls, NodesInv(nodes, al, ls), NEW c \in 1..Len(nodes),
           NEW i \in DOMAIN nodes[c].children,
           nodes[nodes[c].children[i]].parent = c
    PROVE  NodesInv(Erased(c, i), al, ls)
<1> DEFINE N == Len(nodes)
           n == nodes[c].children[i]
           cs == RemoveAt(nodes[c].children, i)
           tb == RemoveFirst(nodes[c].table, n)
           new == Erased(c, i)
<1>1. nodes \in Seq(NodeRecord(N)) /\ al \subseteq 1..N
  BY DEF NodesInv
<1>2. /\ nodes[c].children \in Seq(1..N) /\ nodes[c].table \in Seq(1..N) /\ N \in Nat
      /\ i \in 1..Len(nodes[c].children) /\ Len(nodes[c].children) \in Nat
      /\ n \in Range(nodes[c].children) /\ n \in al /\ n \in 1..N
  BY <1>1, ListFields
<1>3. cs \in Seq(1..N) /\ Inserts(cs, nodes[c].children, i, n)
  BY <1>2, RemoveAtInserts
<1>4. n \in Range(nodes[c].table)
  <2>1. /\ Times(nodes[c].children, n) = 0 <=> n \notin Range(nodes[c].children)
        /\ Times(nodes[c].table, n) = 0 <=> n \notin Range(nodes[c].table)
    BY <1>2, PlacesFinite
  <2>2. Times(nodes[c].children, n) = Times(nodes[c].table, n)
    BY <1>2 DEF NodesInv, Tables
  <2> QED
    BY <1>2, <2>1, <2>2
<1>5. tb \in Seq(1..N) /\ \E k : Inserts(tb, nodes[c].table, k, n)
  BY <1>2, <1>4, RemoveFirstInserts
<1>6. Changed(nodes, c, cs, tb, n, Null, new)
  BY <1>1, <1>5, ErasedChanges
<1>7. nodes[n].parent = c
  OBVIOUS
<1> HIDE DEF new, n, cs, tb
<1>8. /\ new \in Seq(NodeRecord(N)) /\ Len(new) = N
      /\ \A k \in 1..N :
            /\ new[k].cont = nodes[k].cont
            /\ new[k].children = IF k = c THEN cs ELSE nodes[k].children
            /\ new[k].table = IF k = c THEN tb ELSE nodes[k].table
            /\ new[k].parent = IF k = n THEN Null ELSE nodes[k].parent
  BY <1>6 DEF Changed
<1>9. Range(nodes[c].children) = Range(cs) \cup {n}
  BY <1>2, <1>3, InsertsRange
<1>10. /\ Len(cs) \in Nat /\ Len(nodes[c].children) = Len(cs) + 1
       /\ nodes[c].children # <<>> /\ nodes[c].children[i] = n
  BY <1>2, <1>3, LenProperties DEF Inserts
<1>11. PICK f : PlacesForth(f, cs, nodes[c].children, i)
  BY <1>2, <1>3, PlacesBefore
<1>12. /\ \A x \in DOMAIN cs : /\ f[x] \in DOMAIN nodes[c].children /\ f[x] # i
                               /\ cs[x] = nodes[c].children[f[x]]
       /\ \A x, y \in DOMAIN cs : f[x] = f[y] => x = y
  BY <1>11 DEF PlacesForth
<1>13. Lists(new, al)
  <2>1. \A k \in 1..N : /\ Len(nodes[k].children) <= MaxChildren
                        /\ Range(nodes[k].children) \subseteq al
                        /\ nodes[k].children # <<>> => nodes[k].cont /\ k \in al
    BY DEF NodesInv, Lists
  <2>2. Len(cs) <= MaxChildren /\ Range(cs) \subseteq al /\ nodes[c].cont /\ c \in al
    BY <1>9, <1>10, <2>1, NodeTreeAssumption
  <2> QED
    BY <1>8, <2>1, <2>2 DEF Lists
<1>14. Tables(new)
  <2> SUFFICES ASSUME NEW k \in 1..N, NEW m \in 1..N
               PROVE  Times(new[k].children, m) = Times(new[k].table, m)
    BY <1>8 DEF Tables
  <2>1. Times(nodes[k].children, m) = Times(nodes[k].table, m)
    BY DEF NodesInv, Tables
  <2>2. CASE k = c
    <3> DEFINE d == IF m = n THEN 1 ELSE 0
    <3>1. Times(nodes[c].children, m) = Times(cs, m) + d
      BY <1>2, <1>3, InsertsTimes
    <3>2. PICK x : Inserts(tb, nodes[c].table, x, n)
      BY <1>5
    <3>3. Times(nodes[c].table, m) = Times(tb, m) + d
      BY <1>2, <1>5, <3>2, InsertsTimes
    <3>4. Times(cs, m) \in Nat /\ Times(tb, m) \in Nat
      BY <1>3, <1>5, PlacesFinite
    <3> QED
      BY <1>8, <2>1, <2>2, <3>1, <3>3, <3>4
  <2>3. CASE k # c
    BY <1>8, <2>1, <2>3
  <2> QED
    BY <2>2, <2>3
<1>15. Owned(new, ls)
  <2>1. \A k \in 1..N : \A x, y \in DOMAIN nodes[k].children :
           nodes[k].children[x] \notin ls =>
              /\ nodes[nodes[k].children[x]].parent = k
              /\ nodes[k].children[y] = nodes[k].children[x] => x = y
    BY DEF NodesInv, Owned
  <2> SUFFICES ASSUME NEW k \in 1..N, NEW j \in DOMAIN new[k].children,
                      NEW l \in DOMAIN new[k].children, new[k].children[j] \notin ls
               PROVE  /\ new[new[k].children[j]].parent = k
                      /\ new[k].children[l] = new[k].children[j] => j = l
    BY <1>8, Zenon DEF Owned
  <2>2. CASE k # c
    <3>1. new[k].children = nodes[k].children
      BY <1>8, <2>2
    <3> DEFINE m == nodes[k].children[j]
    <3>2. m \in 1..N
      BY <1>1, <3>1, ListFields
    <3>3. nodes[m].parent = k /\ (nodes[k].children[l] = m => j = l)
      BY <2>1, <3>1
    <3>4. m # n
      BY <1>7, <2>2, <3>3
    <3> QED
      BY <1>8, <3>1, <3>2, <3>3, <3>4
  <2>3. CASE k = c
    <3>1. new[k].children = cs
      BY <1>8, <2>3
    <3>2. /\ f[j] \in DOMAIN nodes[c].children /\ f[j] # i
          /\ cs[j] = nodes[c].children[f[j]]
          /\ f[l] \in DOMAIN nodes[c].children /\ cs[l] = nodes[c].children[f[l]]
          /\ f[j] = f[l] => j = l
      BY <1>12, <3>1
    <3>3. cs[j] \in 1..N /\ cs[j] \notin ls
      BY <1>1, <3>1, <3>2, ListFields
    <3>4. nodes[cs[j]].parent = c /\ (cs[l] = cs[j] => f[j] = f[l])
      BY <2>1, <3>2, <3>3
    <3>5. cs[j] # n
      BY <1>10, <2>1, <3>2, <3>3
    <3> QED
      BY <1>8, <2>3, <3>1, <3>2, <3>3, <3>4, <3>5
  <2> QED
    BY <2>2, <2>3
<1>16. Present(new, al)
  <2> SUFFICES ASSUME NEW m \in al, new[m].parent \in al
               PROVE  m \in Range(new[new[m].parent].children)
    BY DEF Present
  <2>1. m # n /\ m \in 1..N
    BY <1>1, <1>8 DEF Null
  <2>2. new[m].parent = nodes[m].parent
    BY <1>8, <2>1
  <2>3. m \in Range(nodes[nodes[m].parent].children)
    BY <2>2 DEF NodesInv, Present
  <2> QED
    BY <1>1, <1>8, <1>9, <2>1, <2>2, <2>3
<1> QED
  BY <1>1, <1>8, <1>13, <1>14, <1>15, <1>16 DEF NodesInv, new

(* New nodes after those there are, with what they have of children.       *)
Fresh(big, ns, more) ==
    /\ Len(ns) <= Len(big)
    /\ \A k \in 1..Len(ns) : big[k] = ns[k]
    /\ \A k \in (Len(ns) + 1)..Len(big) :
          /\ big[k].parent = Null /\ big[k].table = big[k].children
          /\ Len(big[k].children) <= MaxChildren
          /\ big[k].children # <<>> => big[k].cont
          /\ Range(big[k].children) \subseteq more

LEMMA GrownInv ==
    ASSUME NEW ns, NEW al, NEW ls, NodesInv(ns, al, ls), NEW big, NEW more,
           big \in Seq(NodeRecord(Len(big))), Fresh(big, ns, more), ls \subseteq more,
           NEW all, al \cup ((Len(ns) + 1)..Len(big)) = all,
           \A k \in (Len(ns) + 1)..Len(big) : Range(big[k].children) \subseteq all
    PROVE  NodesInv(big, all, more)
<1> DEFINE N == Len(ns)
           M == Len(big)
<1>1. /\ N \in Nat /\ M \in Nat /\ N <= M /\ al \subseteq 1..N /\ all \subseteq 1..M
      /\ \A k \in 1..M : k \in 1..N \/ k \in (N + 1)..M
      /\ \A k \in 1..N : k \in 1..M
  <2>1. N \in Nat /\ M \in Nat /\ N <= M /\ al \subseteq 1..N
    BY NodesSequence DEF NodesInv, Fresh
  <2>2. all = al \cup ((N + 1)..M)
    OBVIOUS
  <2> HIDE DEF N, M
  <2>3. /\ \A k \in 1..M : k \in 1..N \/ k \in (N + 1)..M
        /\ \A k \in 1..N : k \in 1..M
        /\ \A k \in (N + 1)..M : k \in 1..M
    BY <2>1
  <2>4. all \subseteq 1..M
    BY <2>1, <2>2, <2>3
  <2> QED
    BY <2>1, <2>3, <2>4
<1>2. /\ \A k \in 1..N : big[k] = ns[k]
      /\ \A k \in (N + 1)..M :
            /\ big[k].parent = Null /\ big[k].table = big[k].children
            /\ Len(big[k].children) <= MaxChildren
            /\ big[k].children # <<>> => big[k].cont
            /\ Range(big[k].children) \subseteq more
            /\ Range(big[k].children) \subseteq all
  BY DEF Fresh
<1>3. \A k \in 1..N : /\ ns[k].children \in Seq(1..N) /\ ns[k].table \in Seq(1..N)
                      /\ \A j \in DOMAIN ns[k].children :
                            /\ ns[k].children[j] \in Range(ns[k].children)
                            /\ ns[k].children[j] \in 1..N
  BY <1>1, ListFields
<1>4. Lists(big, all)
  <2>1. \A k \in 1..N : /\ Len(ns[k].children) <= MaxChildren
                        /\ Range(ns[k].children) \subseteq al
                        /\ ns[k].children # <<>> => ns[k].cont /\ k \in al
    BY DEF NodesInv, Lists
  <2>2. al \subseteq all /\ (N + 1)..M \subseteq all
    OBVIOUS
  <2> HIDE DEF M, N
  <2> QED
    BY <1>1, <1>2, <2>1, <2>2 DEF Lists, M
<1>5. Tables(big)
  <2> SUFFICES ASSUME NEW k \in 1..M, NEW m \in 1..M
               PROVE  Times(big[k].children, m) = Times(big[k].table, m)
    BY DEF Tables
  <2>1. CASE k \in (N + 1)..M
    BY <1>2, <2>1
  <2>2. CASE k \in 1..N
    <3>1. big[k] = ns[k]
      BY <1>2, <2>2
    <3>2. CASE m \in 1..N
      BY <2>2, <3>1, <3>2 DEF NodesInv, Tables
    <3>3. CASE m \notin 1..N
      <4>1. m \notin Range(ns[k].children) /\ m \notin Range(ns[k].table)
        <5>1. ns[k].children \in Seq(1..N) /\ ns[k].table \in Seq(1..N)
          BY <1>3, <2>2
        <5>2. Range(ns[k].children) \subseteq 1..N
          BY <5>1, SequenceRange
        <5>3. Range(ns[k].table) \subseteq 1..N
          BY <5>1, SequenceRange
        <5> QED
          BY <3>3, <5>2, <5>3
      <4>2. Times(ns[k].children, m) = 0 /\ Times(ns[k].table, m) = 0
        BY <1>3, <2>2, <4>1, PlacesFinite
      <4> QED
        BY <3>1, <4>2
    <3> QED
      BY <3>2, <3>3
  <2> QED
    BY <1>1, <2>1, <2>2
<1>6. Owned(big, more)
  <2> SUFFICES ASSUME NEW k \in 1..M, NEW j \in DOMAIN big[k].children,
                      NEW l \in DOMAIN big[k].children, big[k].children[j] \notin more
               PROVE  /\ big[big[k].children[j]].parent = k
                      /\ big[k].children[l] = big[k].children[j] => j = l
    BY Zenon DEF Owned
  <2>1. k \in 1..N
    <3>1. big[k].children[j] \in Range(big[k].children)
      BY DEF Range
    <3> QED
      BY <1>1, <1>2, <3>1
  <2>2. big[k] = ns[k]
    BY <1>2, <2>1
  <2>3. ns[k].children[j] \in 1..N /\ ns[k].children[j] \notin ls
    BY <1>3, <2>1, <2>2
  <2>4. /\ ns[ns[k].children[j]].parent = k
        /\ ns[k].children[l] = ns[k].children[j] => j = l
    BY <2>1, <2>2, <2>3 DEF NodesInv, Owned
  <2> QED
    BY <1>2, <2>2, <2>3, <2>4
<1>7. Present(big, all)
  <2> SUFFICES ASSUME NEW m \in all, big[m].parent \in all
               PROVE  m \in Range(big[big[m].parent].children)
    BY DEF Present
  <2>1. m \in 1..N
    BY <1>1, <1>2 DEF Null
  <2>2. big[m] = ns[m] /\ m \in al
    BY <1>1, <1>2, <2>1
  <2>3. ns[m].parent \in 0..N
    <3>1. ns[m] \in NodeRecord(N)
      BY <2>1, ListFields
    <3> QED
      BY <3>1, NodeFields
  <2>4. ns[m].parent \in al /\ ns[m].parent \in 1..N
    BY <1>1, <2>2, <2>3
  <2>5. m \in Range(ns[ns[m].parent].children)
    BY <2>2, <2>4 DEF NodesInv, Present
  <2> QED
    BY <1>2, <2>2, <2>4, <2>5
<1> QED
  BY <1>1, <1>4, <1>5, <1>6, <1>7 DEF NodesInv

LEMMA InvFacts ==
    ASSUME TreeInv
    PROVE  /\ nodes \in Seq(NodeRecord(Len(nodes))) /\ Len(nodes) \in Nat
           /\ DOMAIN nodes = 1..Len(nodes) /\ alive \subseteq 1..Len(nodes)
           /\ held \subseteq alive /\ NodesInv(nodes, alive, listed)
           /\ \A k \in 1..Len(nodes) :
                 /\ nodes[k] \in NodeRecord(Len(nodes))
                 /\ Len(nodes[k].children) <= MaxChildren
                 /\ Range(nodes[k].children) \subseteq alive
                 /\ nodes[k].children # <<>> => nodes[k].cont /\ k \in alive
<1>1. /\ nodes \in Seq(NodeRecord(Len(nodes))) /\ alive \subseteq 1..Len(nodes)
      /\ held \subseteq alive /\ NodesInv(nodes, alive, listed) /\ Lists(nodes, alive)
  BY DEF TreeInv, NodesInv
<1> QED
  BY <1>1, NodesSequence DEF Lists

(* A step that adds nodes.                                                 *)
LEMMA GrowStep ==
    ASSUME TreeInv, NEW big, NEW hs, big \in Seq(NodeRecord(Len(big))),
           Fresh(big, nodes, listed'), listed \subseteq listed',
           \A k \in (Len(nodes) + 1)..Len(big) :
              Range(big[k].children) \subseteq alive \cup ((Len(nodes) + 1)..Len(big)),
           hs \subseteq alive \cup ((Len(nodes) + 1)..Len(big)), Become(big, hs)
    PROVE  TreeInv'
<1> DEFINE new == (Len(nodes) + 1)..Len(big)
           all == alive \cup new
<1>1. /\ DOMAIN nodes = 1..Len(nodes) /\ Len(nodes) \in Nat
      /\ NodesInv(nodes, alive, listed)
  BY InvFacts
<1>2. DOMAIN big = 1..Len(big) /\ Len(big) \in Nat
  BY LenProperties
<1>3. DOMAIN big \ DOMAIN nodes = new
  BY <1>1, <1>2
<1>4. alive \cup (DOMAIN big \ DOMAIN nodes) = all
  BY <1>3
<1>5. NodesInv(big, all, listed')
  BY <1>1, GrownInv
<1> HIDE DEF all
<1> QED
  BY <1>4, <1>5, BecomeInv DEF all

(* A step that changes the nodes there are.                                *)
LEMMA ChangeStep ==
    ASSUME TreeInv, NEW ns, NEW hs, NodesInv(ns, alive, listed'), Len(ns) = Len(nodes),
           hs \subseteq alive, Become(ns, hs)
    PROVE  TreeInv'
<1>1. DOMAIN nodes = 1..Len(nodes)
  BY InvFacts
<1>2. DOMAIN ns = 1..Len(ns)
  BY NodesSequence DEF NodesInv
<1>3. alive \cup (DOMAIN ns \ DOMAIN nodes) = alive
  BY <1>1, <1>2
<1> QED
  BY <1>3, BecomeInv

LEMMA NodeAdded ==
    ASSUME TreeInv, NEW cont \in BOOLEAN, NEW id \in Ids \cup {Null},
           NEW cs \in Seq(1..Len(nodes)), Len(cs) <= MaxChildren, cs # <<>> => cont,
           Range(cs) \subseteq alive, listed \cup Range(cs) \subseteq listed',
           Added(NewNode(cont, id, cs))
    PROVE  TreeInv'
<1> DEFINE N == Len(nodes)
           r == NewNode(cont, id, cs)
           big == Append(nodes, r)
           hs == held \cup {N + 1}
<1>1. /\ N \in Nat /\ nodes \in Seq(NodeRecord(N)) /\ held \subseteq alive
      /\ NodeRecord(N) \subseteq NodeRecord(N + 1)
  <2>1. N \in Nat /\ nodes \in Seq(NodeRecord(N)) /\ held \subseteq alive
    BY InvFacts
  <2>2. N + 1 \in Nat /\ N <= N + 1
    BY <2>1
  <2> QED
    BY <2>1, <2>2, NodeGrows
<1>2. /\ r \in NodeRecord(N + 1) /\ r.cont = cont /\ r.parent = Null
      /\ r.children = cs /\ r.table = cs
  <2>1. cs \in Seq(1..(N + 1)) /\ Null \in 0..(N + 1)
    <3>1. 1..N \subseteq 1..(N + 1) /\ 0 \in 0..(N + 1)
      BY <1>1
    <3>2. Seq(1..N) \subseteq Seq(1..(N + 1))
      BY <3>1
    <3> QED
      BY <3>1, <3>2 DEF Null
  <2>2. r = [cont |-> cont, id |-> id, parent |-> Null, children |-> cs, table |-> cs]
    BY DEF NewNode
  <2> QED
    BY <2>1, <2>2, NodeMade
<1>3. Become(big, hs)
  BY DEF Added
<1> HIDE DEF r, N
<1>4. nodes \in Seq(NodeRecord(N + 1))
  BY <1>1
<1>5. /\ big \in Seq(NodeRecord(N + 1)) /\ Len(big) = N + 1 /\ big[N + 1] = r
      /\ \A k \in 1..N : big[k] = nodes[k]
  BY <1>2, <1>4, AppendProperties DEF N
<1> HIDE DEF big
<1>6. (N + 1)..Len(big) = {N + 1}
  BY <1>1, <1>5
<1>7. Fresh(big, nodes, listed')
  BY <1>1, <1>2, <1>5, <1>6 DEF Fresh, N
<1>8. hs \subseteq alive \cup ((N + 1)..Len(big))
  BY <1>1, <1>6
<1>9. \A k \in (N + 1)..Len(big) :
         Range(big[k].children) \subseteq alive \cup ((N + 1)..Len(big))
  BY <1>2, <1>5, <1>6
<1> HIDE DEF hs
<1>10. big \in Seq(NodeRecord(Len(big))) /\ listed \subseteq listed'
  BY <1>5
<1> QED
  BY <1>3, <1>7, <1>8, <1>9, <1>10, GrowStep DEF N

LEMMA CreateInv ==
    ASSUME TreeInv, NEW cont \in BOOLEAN, NEW id \in Ids, Create(cont, id)
    PROVE  TreeInv'
<1>1. /\ <<>> \in Seq(1..Len(nodes)) /\ Len(<<>>) <= MaxChildren /\ Range(<<>>) = {}
  BY EmptySeq, NodeTreeAssumption DEF Range
<1>2. listed \cup Range(<<>>) \subseteq listed' /\ Added(NewNode(cont, id, <<>>))
  BY <1>1 DEF Create
<1> QED
  BY <1>1, <1>2, NodeAdded

LEMMA ShallowCopyInv ==
    ASSUME TreeInv, NEW n \in held, ShallowCopy(n)
    PROVE  TreeInv'
<1>1. /\ <<>> \in Seq(1..Len(nodes)) /\ Len(<<>>) <= MaxChildren /\ Range(<<>>) = {}
  BY EmptySeq, NodeTreeAssumption DEF Range
<1>2. listed \cup Range(<<>>) \subseteq listed'
  BY <1>1 DEF ShallowCopy
<1>3. Added(NewNode(nodes[n].cont, nodes[n].id, <<>>))
  BY DEF ShallowCopy, ShallowCopied
<1>4. nodes[n].cont \in BOOLEAN /\ nodes[n].id \in Ids \cup {Null}
  <2>1. nodes[n] \in NodeRecord(Len(nodes))
    BY InvFacts
  <2> QED
    BY <2>1, NodeFields
<1> QED
  BY <1>1, <1>2, <1>3, <1>4, NodeAdded

LEMMA SequencesOver ==
    ASSUME NEW S, NEW T, S \subseteq T, NEW s \in Seq(S)
    PROVE  s \in Seq(T)
OBVIOUS

LEMMA BoundedSequences ==
    ASSUME NEW S, NEW m \in Nat, NEW s \in BoundedSeq(S, m)
    PROVE  s \in Seq(S) /\ Len(s) <= m /\ DOMAIN s = 1..Len(s) /\ Range(s) \subseteq S
<1>1. PICK k \in 0..m : s \in [1..k -> S]
  BY DEF BoundedSeq, SeqOf
<1>2. s \in Seq(S) /\ Len(s) = k /\ DOMAIN s = 1..Len(s)
  BY <1>1, LenProperties
<1>3. Range(s) \subseteq S
  BY <1>2, SequenceRange
<1> QED
  BY <1>2, <1>3

LEMMA CreateWithChildrenInv ==
    ASSUME TreeInv, NEW id \in Ids, NEW cs \in BoundedSeq(held, MaxChildren),
           CreateWithChildren(id, cs)
    PROVE  TreeInv'
<1>1. cs \in Seq(held) /\ Len(cs) <= MaxChildren /\ Range(cs) \subseteq held
  BY BoundedSequences, NodeTreeAssumption
<1>2. held \subseteq alive /\ alive \subseteq 1..Len(nodes)
  BY InvFacts
<1>3. cs \in Seq(1..Len(nodes)) /\ Range(cs) \subseteq alive
  <2>1. held \subseteq 1..Len(nodes)
    BY <1>2
  <2>2. cs \in Seq(1..Len(nodes))
    BY <1>1, <2>1, SequencesOver
  <2> QED
    BY <1>1, <1>2, <2>2
<1>4. Added(NewNode(TRUE, id, cs)) /\ listed \cup Range(cs) \subseteq listed'
  BY DEF CreateWithChildren
<1> QED
  BY <1>1, <1>3, <1>4, NodeAdded

LEMMA ParentOfFacts ==
    ASSUME TreeInv, NEW n \in alive
    PROVE  /\ ParentOf(n) = Null => nodes[n].parent \notin alive
           /\ ParentOf(n) # Null => /\ nodes[n].parent = ParentOf(n)
                                    /\ ParentOf(n) \in alive
                                    /\ ParentOf(n) \in 1..Len(nodes)
<1>1. alive \subseteq 1..Len(nodes)
  BY InvFacts
<1>2. Null \notin alive
  BY <1>1 DEF Null
<1> QED
  BY <1>1, <1>2 DEF ParentOf

LEMMA AddStep ==
    ASSUME TreeInv, NEW c \in HeldContainers, NEW n \in held, Room(c),
           ParentOf(n) = Null, NEW cs \in Seq(1..Len(nodes)), NEW i,
           Inserts(nodes[c].children, cs, i, n), listed' = listed,
           Become(AddedTo(nodes, c, cs, n), held)
    PROVE  TreeInv'
<1> DEFINE ns == AddedTo(nodes, c, cs, n)
<1>1. /\ c \in alive /\ n \in alive /\ nodes[c].cont /\ nodes[n].parent \notin alive
      /\ Len(nodes[c].children) < MaxChildren
  BY InvFacts, ParentOfFacts DEF HeldContainers, Room
<1>2. NodesInv(nodes, alive, listed) /\ held \subseteq alive
  BY InvFacts
<1>3. NodesInv(ns, alive, listed)
  BY <1>1, <1>2, AddedInv
<1>4. Len(ns) = Len(nodes)
  <2> DEFINE N == Len(nodes)
  <2>1. c \in 1..N /\ n \in 1..N /\ nodes \in Seq(NodeRecord(N))
    BY <1>1, InvFacts
  <2>2. Changed(nodes, c, cs, Append(nodes[c].table, n), n, c, ns)
    BY <2>1, AddedChanges
  <2> QED
    BY <2>2 DEF Changed
<1> HIDE DEF ns
<1>5. NodesInv(ns, alive, listed')
  BY <1>3
<1> QED
  BY <1>2, <1>4, <1>5, ChangeStep DEF ns

LEMMA ChildAddInv ==
    ASSUME TreeInv, NEW c \in HeldContainers, NEW n \in held, ChildAdd(c, n)
    PROVE  TreeInv'
<1> DEFINE cs == Append(nodes[c].children, n)
<1>1. nodes[c].children \in Seq(1..Len(nodes)) /\ n \in 1..Len(nodes)
  <2>1. nodes[c] \in NodeRecord(Len(nodes)) /\ n \in 1..Len(nodes)
    BY InvFacts DEF HeldContainers
  <2> QED
    BY <2>1, NodeFields
<1>2. /\ cs \in Seq(1..Len(nodes))
      /\ Inserts(nodes[c].children, cs, Len(nodes[c].children) + 1, n)
  BY <1>1, AppendInserts
<1>3. /\ Room(c) /\ ParentOf(n) = Null /\ listed' = listed
      /\ Become(AddedTo(nodes, c, cs, n), held)
  BY Zenon DEF ChildAdd
<1> HIDE DEF cs
<1> QED
  BY <1>2, <1>3, AddStep

LEMMA ChildInsertBeforeInv ==
    ASSUME TreeInv, NEW c \in HeldContainers, NEW n \in held,
           NEW i \in DOMAIN nodes[c].children, ChildInsertBefore(c, i, n)
    PROVE  TreeInv'
<1> DEFINE cs == InsertAt(nodes[c].children, i, n)
<1>1. /\ nodes[c].children \in Seq(1..Len(nodes)) /\ n \in 1..Len(nodes)
      /\ i \in 1..Len(nodes[c].children)
  <2>1. nodes[c] \in NodeRecord(Len(nodes)) /\ n \in 1..Len(nodes)
    BY InvFacts DEF HeldContainers
  <2>2. nodes[c].children \in Seq(1..Len(nodes))
    BY <2>1, NodeFields
  <2> QED
    BY <2>1, <2>2, LenProperties
<1>2. cs \in Seq(1..Len(nodes)) /\ Inserts(nodes[c].children, cs, i, n)
  BY <1>1, InsertAtInserts
<1>3. /\ Room(c) /\ ParentOf(n) = Null /\ listed' = listed
      /\ Become(AddedTo(nodes, c, cs, n), held)
  BY Zenon DEF ChildInsertBefore, Inserted
<1> HIDE DEF cs
<1> QED
  BY <1>2, <1>3, AddStep

LEMMA EraseStep ==
    ASSUME TreeInv, NEW c \in 1..Len(nodes), NEW i \in DOMAIN nodes[c].children,
           nodes[nodes[c].children[i]].parent = c, listed' = listed,
           Become(Erased(c, i), held)
    PROVE  TreeInv'
<1>1. NodesInv(nodes, alive, listed) /\ held \subseteq alive
  BY InvFacts
<1>2. NodesInv(Erased(c, i), alive, listed')
  BY <1>1, ErasedInv
<1>3. Len(Erased(c, i)) = Len(nodes)
  <2> DEFINE N == Len(nodes)
             n == nodes[c].children[i]
             tb == RemoveFirst(nodes[c].table, n)
  <2>1. /\ nodes \in Seq(NodeRecord(N)) /\ nodes[c].children \in Seq(1..N)
        /\ nodes[c].table \in Seq(1..N)
    BY <1>1, InvFacts, ListFields
  <2>2. tb \in Seq(1..N)
    <3>1. CASE n \in Range(nodes[c].table)
      BY <2>1, <3>1, RemoveFirstInserts
    <3>2. CASE n \notin Range(nodes[c].table)
      <4>1. ~\E x \in 1..Len(nodes[c].table) : nodes[c].table[x] = n
        BY <2>1, <3>2, LenProperties DEF Range
      <4>2. tb = nodes[c].table
        BY <4>1, Zenon DEF RemoveFirst
      <4> QED
        BY <2>1, <4>2
    <3> QED
      BY <3>1, <3>2
  <2>3. Changed(nodes, c, RemoveAt(nodes[c].children, i), tb, n, Null, Erased(c, i))
    BY <2>1, <2>2, ErasedChanges
  <2> QED
    BY <2>3 DEF Changed
<1> QED
  BY <1>1, <1>2, <1>3, ChangeStep

LEMMA ChildErased ==
    ASSUME TreeInv, NEW c \in 1..Len(nodes), NEW i \in DOMAIN nodes[c].children
    PROVE  nodes[c].children[i] \in alive
BY InvFacts, ListFields

LEMMA ChildEraseInv ==
    ASSUME TreeInv, NEW c \in HeldContainers, NEW i \in DOMAIN nodes[c].children,
           ChildErase(c, i)
    PROVE  TreeInv'
<1> DEFINE n == nodes[c].children[i]
<1>1. c \in 1..Len(nodes) /\ c # Null
  BY InvFacts DEF HeldContainers, Null
<1>2. n \in alive
  BY <1>1, ChildErased
<1>3. ParentOf(n) = c /\ listed' = listed /\ Become(Erased(c, i), held)
  BY DEF ChildErase
<1>4. nodes[n].parent = c
  BY <1>1, <1>2, <1>3, ParentOfFacts
<1> QED
  BY <1>1, <1>3, <1>4, EraseStep

LEMMA DetachFromParentInv ==
    ASSUME TreeInv, NEW n \in held, DetachFromParent(n)
    PROVE  TreeInv'
<1> DEFINE c == ParentOf(n)
           i == SelectInSeq(nodes[c].children, LAMBDA m : m = n)
<1>1. /\ c # Null /\ n \in Range(nodes[c].children) /\ listed' = listed
      /\ Become(Erased(c, i), held)
  BY Zenon DEF DetachFromParent
<1>2. n \in alive
  BY InvFacts
<1>3. nodes[n].parent = c /\ c \in 1..Len(nodes)
  BY <1>1, <1>2, ParentOfFacts
<1>4. nodes[c].children \in Seq(1..Len(nodes))
  BY <1>3, InvFacts, NodeFields
<1>5. \E j \in DOMAIN nodes[c].children : nodes[c].children[j] = n
  BY <1>1 DEF Range
<1> HIDE DEF c
<1>6. i \in 1..Len(nodes[c].children) /\ nodes[c].children[i] = n
  BY <1>4, <1>5, FirstFound, Zenon
<1> HIDE DEF i
<1>7. i \in DOMAIN nodes[c].children
  BY <1>4, <1>6, LenProperties
<1> QED
  BY <1>1, <1>3, <1>6, <1>7, EraseStep

LEMMA TakeInv ==
    ASSUME TreeInv, NEW n \in alive, Take(n)
    PROVE  TreeInv'
<1>1. NodesInv(nodes, alive, listed) /\ held \subseteq alive
  BY InvFacts
<1>2. NodesInv(nodes, alive, listed') /\ Become(nodes, held \cup {n})
  BY <1>1 DEF Take
<1> QED
  BY <1>1, <1>2, ChangeStep

LEMMA DropInv ==
    ASSUME TreeInv, NEW n \in held, Drop(n)
    PROVE  TreeInv'
<1>1. NodesInv(nodes, alive, listed) /\ held \subseteq alive
  BY InvFacts
<1>2. NodesInv(nodes, alive, listed') /\ Become(nodes, held \ {n})
  BY <1>1 DEF Drop
<1> QED
  BY <1>1, <1>2, ChangeStep

LEMMA CopyInv ==
    ASSUME TreeInv, NEW n \in held, Copy(n)
    PROVE  TreeInv'
<1> DEFINE N == Len(nodes)
           top == N + 1
<1>1. PICK k \in 1..(MaxNodes - Len(nodes)) :
         \E of \in [top..(N + k) -> DOMAIN nodes],
            into \in [top..(N + k) -> BoundedSeq((top..(N + k)) \ {top}, MaxChildren)] :
            /\ IsCopy(nodes, n, top, top..(N + k), of, into)
            /\ Become(nodes \o Copied(nodes, k, of, into), held \cup {top})
            /\ listed' = listed \cup ((top..(N + k)) \ {top})
  BY Zenon DEF Copy
<1> DEFINE M == N + k
           new == top..M
<1>2. PICK of \in [new -> DOMAIN nodes],
           into \in [new -> BoundedSeq(new \ {top}, MaxChildren)] :
         /\ IsCopy(nodes, n, top, new, of, into)
         /\ Become(nodes \o Copied(nodes, k, of, into), held \cup {top})
         /\ listed' = listed \cup (new \ {top})
  BY <1>1, Zenon
<1> DEFINE add == Copied(nodes, k, of, into)
           big == nodes \o add
<1>3. /\ N \in Nat /\ DOMAIN nodes = 1..N /\ nodes \in Seq(NodeRecord(N))
      /\ k \in Nat /\ k >= 1 /\ held \subseteq alive
  BY InvFacts, NodeTreeAssumption
<1>4. ASSUME NEW m \in new
      PROVE  /\ into[m] \in Seq(1..M) /\ Len(into[m]) <= MaxChildren
             /\ Range(into[m]) \subseteq new \ {top}
             /\ nodes[of[m]].cont \in BOOLEAN /\ nodes[of[m]].id \in Ids \cup {Null}
             /\ into[m] # <<>> => nodes[of[m]].cont
  <2>1. into[m] \in BoundedSeq(new \ {top}, MaxChildren) /\ of[m] \in 1..N
    BY <1>3
  <2>2. /\ into[m] \in Seq(new \ {top}) /\ Len(into[m]) <= MaxChildren
        /\ Range(into[m]) \subseteq new \ {top}
    BY <2>1, BoundedSequences, NodeTreeAssumption
  <2>3. new \ {top} \subseteq 1..M
    BY <1>3
  <2>4. into[m] \in Seq(1..M)
    BY <2>2, <2>3, SequencesOver
  <2>5. /\ nodes[of[m]] \in NodeRecord(N)
        /\ nodes[of[m]].children # <<>> => nodes[of[m]].cont
    BY <2>1, InvFacts
  <2>6. /\ nodes[of[m]].cont \in BOOLEAN /\ nodes[of[m]].id \in Ids \cup {Null}
        /\ nodes[of[m]].children \in Seq(1..N)
    BY <2>5, NodeFields
  <2>7. Len(into[m]) = Len(nodes[of[m]].children)
    BY <1>2 DEF IsCopy
  <2>8. into[m] # <<>> => nodes[of[m]].children # <<>>
    BY <2>4, <2>6, <2>7, EmptySeq
  <2> QED
    BY <2>2, <2>4, <2>5, <2>6, <2>8
<1>5. ASSUME NEW j \in 1..k
      PROVE  /\ add[j] \in NodeRecord(M) /\ add[j].parent = Null
             /\ add[j].children = into[N + j] /\ add[j].table = into[N + j]
             /\ add[j].cont = nodes[of[N + j]].cont
  <2> DEFINE m == N + j
  <2>1. m \in new /\ Null \in 0..M
    BY <1>3 DEF Null
  <2> DEFINE cont == nodes[of[m]].cont
             id == nodes[of[m]].id
             cs == into[m]
             r == add[j]
  <2>2. r = [cont |-> cont, id |-> id, parent |-> Null, children |-> cs, table |-> cs]
    BY DEF Copied, NewNode
  <2>3. cs \in Seq(1..M) /\ cont \in BOOLEAN /\ id \in Ids \cup {Null}
    BY <1>4, <2>1
  <2> HIDE DEF r, cont, id, cs, new, M
  <2>4. /\ r \in NodeRecord(M) /\ r.parent = Null /\ r.children = cs /\ r.table = cs
        /\ r.cont = cont
    BY <2>1, <2>2, <2>3, NodeMade
  <2> QED
    BY <2>4 DEF m, r, cont, cs
<1>6. add \in Seq(NodeRecord(M)) /\ Len(add) = k
  <2>1. DOMAIN add = 1..k /\ add = [j \in 1..k |-> add[j]]
    BY DEF Copied
  <2>2. add \in [1..k -> NodeRecord(M)]
    BY <1>5, <2>1
  <2> HIDE DEF add
  <2> QED
    BY <1>3, <2>2
<1>7. nodes \in Seq(NodeRecord(M))
  <2>1. NodeRecord(N) \subseteq NodeRecord(M)
    <3>1. M \in Nat /\ N <= M
      BY <1>3
    <3> QED
      BY <1>3, <3>1, NodeGrows
  <2> QED
    BY <1>3, <2>1, SequencesOver
<1> HIDE DEF add
<1>8. /\ big \in Seq(NodeRecord(M)) /\ Len(big) = M
      /\ \A x \in 1..M : big[x] = IF x <= N THEN nodes[x] ELSE add[x - N]
  BY <1>6, <1>7, ConcatProperties
<1> HIDE DEF big
<1>9. ASSUME NEW x \in new
      PROVE  /\ big[x].parent = Null /\ big[x].table = big[x].children
             /\ Len(big[x].children) <= MaxChildren
             /\ big[x].children # <<>> => big[x].cont
             /\ Range(big[x].children) \subseteq new \ {top}
  <2>1. /\ x \in 1..M /\ ~(x <= N) /\ x - N \in 1..k /\ N + (x - N) = x
    BY <1>3
  <2>2. big[x] = add[x - N]
    BY <1>8, <2>1
  <2>3. /\ big[x].parent = Null /\ big[x].children = into[x] /\ big[x].table = into[x]
        /\ big[x].cont = nodes[of[x]].cont
    BY <1>5, <2>1, <2>2
  <2> QED
    BY <1>4, <2>3
<1>10. \A x \in 1..N : big[x] = nodes[x] /\ N <= M
  BY <1>3, <1>8
<1>11. new = (Len(nodes) + 1)..Len(big) /\ N <= M
  BY <1>3, <1>8
<1> HIDE DEF new
<1>12. Fresh(big, nodes, listed')
  BY <1>2, <1>8, <1>9, <1>10, <1>11 DEF Fresh
<1>13. /\ \A x \in (Len(nodes) + 1)..Len(big) :
             Range(big[x].children) \subseteq alive \cup ((Len(nodes) + 1)..Len(big))
       /\ listed \subseteq listed'
  BY <1>2, <1>9, <1>11
<1>14. held \cup {top} \subseteq alive \cup ((Len(nodes) + 1)..Len(big))
  <2>1. top \in new
    BY <1>3 DEF new
  <2> QED
    BY <1>3, <1>11, <2>1
<1>15. Become(big, held \cup {top})
  BY <1>2, Zenon DEF big, add
<1>16. big \in Seq(NodeRecord(Len(big)))
  BY <1>8
<1> QED
  BY <1>12, <1>13, <1>14, <1>15, <1>16, GrowStep

LEMMA TreeInitInv ==
    ASSUME TreeInit
    PROVE  TreeInv
<1>1. nodes = <<>> /\ alive = {} /\ held = {}
  BY DEF TreeInit
<1>2. /\ nodes \in Seq(NodeRecord(Len(nodes))) /\ Len(nodes) = 0
      /\ 1..Len(nodes) = {}
  BY <1>1, EmptySeq
<1>3. /\ Lists(nodes, alive) /\ Tables(nodes) /\ Owned(nodes, listed)
      /\ Present(nodes, alive)
  BY <1>1, <1>2 DEF Lists, Tables, Owned, Present
<1> QED
  BY <1>1, <1>2, <1>3 DEF TreeInv, NodesInv, Supported

(* Every call of the node model keeps the invariant: creating, adding,     *)
(* inserting, erasing, detaching, copying, taking and dropping handles,    *)
(* each with the destruction of what no handle is left of.                 *)
THEOREM TreeInvariant == TreeSpec => []TreeInv
<1>1. TreeInit => TreeInv
  BY TreeInitInv
<1>2. TreeInv /\ [TreeNext]_tree_vars => TreeInv'
  <2> SUFFICES ASSUME TreeInv, [TreeNext]_tree_vars
               PROVE  TreeInv'
    OBVIOUS
  <2>1. ASSUME NEW cont \in BOOLEAN, NEW id \in Ids, Create(cont, id)
        PROVE  TreeInv'
    BY <2>1, CreateInv
  <2>2. ASSUME NEW id \in Ids, NEW cs \in BoundedSeq(held, MaxChildren),
               CreateWithChildren(id, cs)
        PROVE  TreeInv'
    BY <2>2, CreateWithChildrenInv
  <2>3. ASSUME NEW c \in HeldContainers, NEW n \in held, ChildAdd(c, n)
        PROVE  TreeInv'
    BY <2>3, ChildAddInv
  <2>4. ASSUME NEW c \in HeldContainers, NEW n \in held,
               NEW i \in DOMAIN nodes[c].children, ChildInsertBefore(c, i, n)
        PROVE  TreeInv'
    BY <2>4, ChildInsertBeforeInv
  <2>5. ASSUME NEW c \in HeldContainers, NEW i \in DOMAIN nodes[c].children,
               ChildErase(c, i)
        PROVE  TreeInv'
    BY <2>5, ChildEraseInv
  <2>6. ASSUME NEW n \in held, DetachFromParent(n)
        PROVE  TreeInv'
    BY <2>6, DetachFromParentInv
  <2>7. ASSUME NEW n \in held, Copy(n)
        PROVE  TreeInv'
    BY <2>7, CopyInv
  <2>8. ASSUME NEW n \in held, ShallowCopy(n)
        PROVE  TreeInv'
    BY <2>8, ShallowCopyInv
  <2>9. ASSUME NEW n \in held, Drop(n)
        PROVE  TreeInv'
    BY <2>9, DropInv
  <2>10. ASSUME NEW n \in alive, Take(n)
         PROVE  TreeInv'
    BY <2>10, TakeInv
  <2>11. CASE UNCHANGED tree_vars
    BY <2>11 DEF tree_vars, TreeInv
  <2> QED
    BY <2>1, <2>2, <2>3, <2>4, <2>5, <2>6, <2>7, <2>8, <2>9, <2>10, <2>11, Zenon
       DEF TreeNext
<1> QED
  BY <1>1, <1>2, PTL DEF TreeSpec

(* Every child in a list is alive, and only containers that are alive have *)
(* children (Container's _children, node_container.hpp).                   *)
THEOREM TreeTypeCorrect == TreeSpec => []TreeTypeOK
<1>1. TreeInv => TreeTypeOK
  <2> SUFFICES ASSUME TreeInv
               PROVE  TreeTypeOK
    OBVIOUS
  <2>1. /\ nodes \in Seq(NodeRecord(Len(nodes))) /\ Len(nodes) \in Nat
        /\ DOMAIN nodes = 1..Len(nodes) /\ alive \subseteq 1..Len(nodes)
        /\ held \subseteq alive
        /\ \A c \in 1..Len(nodes) :
              /\ Range(nodes[c].children) \subseteq alive
              /\ nodes[c].children # <<>> => nodes[c].cont /\ c \in alive
    BY InvFacts
  <2>2. {Null} \cup DOMAIN nodes = 0..Len(nodes)
    BY <2>1 DEF Null
  <2>3. NodeType = NodeRecord(Len(nodes))
    BY <2>1, <2>2, Zenon DEF NodeType, NodeRecord
  <2> QED
    BY <2>1, <2>3 DEF TreeTypeOK
<1> QED
  BY <1>1, TreeInvariant, PTL

(* The multimap by id and the list of children have every child equally    *)
(* often after any calls: child_add and child_insert_before enter it into  *)
(* both, child_erase erases one entry of each, and what destroys a node    *)
(* leaves none of it.                                                      *)
THEOREM TablesAlwaysAgree == TreeSpec => []TablesAgree
<1>1. TreeInv => TablesAgree
  <2> SUFFICES ASSUME TreeInv, NEW c \in alive, NEW n \in alive
               PROVE  Times(nodes[c].children, n) = Times(nodes[c].table, n)
    BY DEF TablesAgree
  <2>1. c \in 1..Len(nodes) /\ n \in 1..Len(nodes)
    BY InvFacts
  <2> QED
    BY <2>1 DEF TreeInv, NodesInv, Tables
<1> QED
  BY <1>1, TreeInvariant, PTL

(* The assertion of detach_from_parent never fails: the parent a node      *)
(* tells has it in its list.                                               *)
THEOREM ParentsAlwaysHaveTheirChildren == TreeSpec => []ParentsHaveTheirChildren
<1>1. TreeInv => ParentsHaveTheirChildren
  <2> SUFFICES ASSUME TreeInv, NEW n \in alive, ParentOf(n) # Null
               PROVE  n \in Range(nodes[ParentOf(n)].children)
    BY DEF ParentsHaveTheirChildren
  <2>1. nodes[n].parent = ParentOf(n) /\ ParentOf(n) \in alive
    BY ParentOfFacts
  <2> QED
    BY <2>1 DEF TreeInv, NodesInv, Present
<1> QED
  BY <1>1, TreeInvariant, PTL

(* ParentAlreadySet keeps a node from a second place: one that was never   *)
(* given to a constructor is in its parent's list, once, and in no other   *)
(* list, and in none when it has no parent.                                *)
THEOREM UnlistedInOnePlace == TreeSpec => []OnePlaceUnlessListed
<1>1. TreeInv => OnePlaceUnlessListed
  <2> SUFFICES ASSUME TreeInv, NEW n \in alive, n \notin listed
               PROVE  Cardinality(Places(n)) = IF ParentOf(n) = Null THEN 0 ELSE 1
    BY DEF OnePlaceUnlessListed
  <2>1. \A c \in 1..Len(nodes) : \A i, j \in DOMAIN nodes[c].children :
           nodes[c].children[i] = n =>
              /\ nodes[n].parent = c
              /\ nodes[c].children[j] = n => i = j
    BY DEF TreeInv, NodesInv, Owned
  <2>2. /\ alive \subseteq 1..Len(nodes) /\ NodesInv(nodes, alive, listed)
        /\ \A c \in 1..Len(nodes) : Len(nodes[c].children) <= MaxChildren
    BY InvFacts
  <2>3. CASE ParentOf(n) = Null
    <3>1. nodes[n].parent \notin alive
      BY <2>3, ParentOfFacts
    <3>2. Places(n) = {}
      BY <2>1, <2>2, <3>1 DEF Places
    <3> QED
      BY <2>3, <3>2, FS_EmptySet
  <2>4. CASE ParentOf(n) # Null
    <3> DEFINE c == ParentOf(n)
    <3>1. nodes[n].parent = c /\ c \in alive /\ c \in 1..Len(nodes)
      BY <2>4, ParentOfFacts
    <3>2. n \in Range(nodes[c].children)
      BY <3>1 DEF TreeInv, NodesInv, Present
    <3> HIDE DEF c
    <3>3. PICK i \in DOMAIN nodes[c].children : nodes[c].children[i] = n
      BY <3>2 DEF Range
    <3>4. /\ DOMAIN nodes[c].children = 1..Len(nodes[c].children)
          /\ Len(nodes[c].children) \in Nat /\ Len(nodes[c].children) <= MaxChildren
      BY <2>2, <3>1, ListFields
    <3>5. <<c, i>> \in Places(n)
      <4>1. i \in 1..MaxChildren
        BY <3>4, NodeTreeAssumption
      <4> QED
        BY <3>1, <3>3, <4>1 DEF Places
    <3>6. ASSUME NEW p \in Places(n)
          PROVE  p = <<c, i>>
      <4>1. /\ p \in alive \X (1..MaxChildren) /\ p[2] \in DOMAIN nodes[p[1]].children
            /\ nodes[p[1]].children[p[2]] = n
        BY DEF Places
      <4>2. p[1] = c
        BY <2>1, <2>2, <3>1, <4>1
      <4>3. p[2] = i
        BY <2>1, <3>1, <3>3, <4>1, <4>2
      <4> QED
        BY <4>1, <4>2, <4>3
    <3>7. Places(n) = {<<c, i>>}
      BY <3>5, <3>6
    <3> QED
      BY <2>4, <3>7, FS_Singleton
  <2> QED
    BY <2>3, <2>4
<1> QED
  BY <1>1, TreeInvariant, PTL

(* What the user has no handle of is destroyed unless a cycle of           *)
(* containers holds it or something above it: a node that is alive and not *)
(* below a held one is below a node that is below itself.                  *)
THEOREM NothingEverLeaks == TreeSpec => []NothingLeaks
<1>1. TreeInv => NothingLeaks
  <2> SUFFICES ASSUME TreeInv, NEW n \in alive
               PROVE  \/ n \in held \/ \E c \in held : n \in Below(nodes, c)
                      \/ \E c \in alive : c \in Below(nodes, c) /\ n \in Below(nodes, c)
    BY DEF NothingLeaks
  <2>1. alive \subseteq DOMAIN nodes /\ DOMAIN nodes = 1..Len(nodes) /\ Len(nodes) \in Nat
    BY InvFacts
  <2>2. IsFiniteSet(alive)
    <3>1. IsFiniteSet(1..Len(nodes))
      BY <2>1, FS_Interval
    <3> QED
      BY <2>1, <3>1, FS_Subset
  <2>3. Supported(nodes, alive, held)
    BY DEF TreeInv
  <2> QED
    BY <2>1, <2>2, <2>3, NoneLeaks
<1> QED
  BY <1>1, TreeInvariant, PTL

=============================================================================
