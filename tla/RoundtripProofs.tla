---------------------------- MODULE RoundtripProofs ----------------------------
(***************************************************************************)
(* The pipes of the writer: a theorem about Roundtrip.                     *)
(***************************************************************************)
EXTENDS Roundtrip, SequenceTheorems, TLAPS

Hashes == HashTypes \cup {HT_NONE}

UnitType ==
    [kind: {"container"}, size: Counts, armored: BOOLEAN, hash: Hashes]
      \cup [kind: {"leaf", "eoc"}] \cup [kind: {"digest"}, of: SUBSET Nat]

PipeType == [id: Nat, fed: SUBSET Nat]

InfoType == [id: Nat, key: Keys, count: Counts, armored: BOOLEAN, hash: Hashes]

-----------------------------------------------------------------------------
(* Sequences.                                                              *)

LEMMA FrontFacts ==
    ASSUME NEW T, NEW s \in Seq(T), s # <<>>
    PROVE  /\ Front(s) \in Seq(T) /\ Len(s) \in Nat \ {0}
           /\ Len(Front(s)) = Len(s) - 1
           /\ \A i \in 1..(Len(s) - 1) : Front(s)[i] = s[i]
           /\ Last(s) = s[Len(s)] /\ Last(s) \in T
<1>1. Len(s) \in Nat \ {0}
  BY EmptySeq, LenProperties
<1> DEFINE n == Len(s) - 1
<1>2. n \in Nat /\ (\A i \in 1..n : s[i] \in T) /\ n = Len(s) - 1
  BY <1>1
<1>3. Front(s) = SubSeq(s, 1, n)
  BY DEF Front
<1>4. Last(s) = s[Len(s)] /\ Last(s) \in T
  BY <1>1 DEF Last
<1> HIDE DEF n
<1>5. /\ SubSeq(s, 1, n) \in Seq(T)
      /\ Len(SubSeq(s, 1, n)) = IF 1 <= n THEN n - 1 + 1 ELSE 0
      /\ \A i \in 1..(n - 1 + 1) : SubSeq(s, 1, n)[i] = s[1 + i - 1]
  BY <1>2, SubSeqProperties
<1> QED
  BY <1>1, <1>2, <1>3, <1>4, <1>5

(* The sequence operators that ToBitstream takes from its libraries.       *)
LEMMA WriterSequences ==
    /\ \A s : W!Last(s) = Last(s) /\ W!Front(s) = Front(s)
    /\ \A f : W!Range(f) = {f[x] : x \in DOMAIN f}
BY DEF W!Last, W!Front, W!Range, Last, Front

-----------------------------------------------------------------------------
(* The pipes d of a writer that is in the containers s and has written n   *)
(* units.                                                                  *)
Piped(d, s, n) ==
    /\ \A j \in 1..Len(s) : s[j].id \in 1..n
    /\ \A j, k \in 1..Len(s) : j < k => s[j].id < s[k].id
    /\ \A i \in 1..Len(d) :
          /\ d[i].fed = (d[i].id + 1)..n
          /\ \E j \in 1..Len(s) : s[j].hash # HT_NONE /\ s[j].id = d[i].id
    /\ \A j \in 1..Len(s) :
          s[j].hash # HT_NONE => \E i \in 1..Len(d) : d[i].id = s[j].id
    /\ \A i, k \in 1..Len(d) : i < k => d[i].id < d[k].id

(* What is written is hashed by every pipe.                                *)
LEMMA FedFacts ==
    ASSUME NEW d \in Seq(PipeType), NEW n \in Nat, NEW t, t = W!Fed(d, n)
    PROVE  /\ t \in Seq(PipeType) /\ Len(t) = Len(d)
           /\ \A i \in 1..Len(d) : t[i].id = d[i].id /\ t[i].fed = d[i].fed \cup {n}
<1> DEFINE F(p) == [p EXCEPT !.fed = p.fed \cup {n}]
<1>1. \A p \in PipeType : /\ F(p) \in PipeType
                          /\ F(p).id = p.id /\ F(p).fed = p.fed \cup {n}
  BY DEF PipeType
<1>2. t = [i \in 1..Len(d) |-> F(d[i])]
  BY DEF W!Fed
<1> HIDE DEF F
<1>3. \A i \in 1..Len(d) : d[i] \in PipeType
  OBVIOUS
<1>4. t \in Seq(PipeType) /\ Len(t) = Len(d) /\ \A i \in 1..Len(d) : t[i] = F(d[i])
  <2>1. \A i \in 1..Len(d) : F(d[i]) \in PipeType
    BY <1>1, <1>3
  <2> QED
    BY <1>2, <2>1, IsASeq, LenProperties
<1> QED
  BY <1>1, <1>3, <1>4

LEMMA PipedFed ==
    ASSUME NEW d \in Seq(PipeType), NEW s, NEW n \in Nat, Piped(d, s, n)
    PROVE  Piped(W!Fed(d, n + 1), s, n + 1)
<1> DEFINE t == W!Fed(d, n + 1)
<1>1. /\ t \in Seq(PipeType) /\ Len(t) = Len(d)
      /\ \A i \in 1..Len(d) : t[i].id = d[i].id /\ t[i].fed = d[i].fed \cup {n + 1}
  BY FedFacts
<1> HIDE DEF t
<1>2. /\ \A j \in 1..Len(s) : s[j].id \in 1..n
      /\ \A j, k \in 1..Len(s) : j < k => s[j].id < s[k].id
      /\ \A j \in 1..Len(s) :
            s[j].hash # HT_NONE => \E i \in 1..Len(d) : d[i].id = s[j].id
      /\ \A i, k \in 1..Len(d) : i < k => d[i].id < d[k].id
  BY DEF Piped
<1>3. ASSUME NEW i \in 1..Len(d)
      PROVE  /\ t[i].fed = (t[i].id + 1)..(n + 1)
             /\ \E j \in 1..Len(s) : s[j].hash # HT_NONE /\ s[j].id = t[i].id
  <2>1. PICK j \in 1..Len(s) : s[j].hash # HT_NONE /\ s[j].id = d[i].id
    BY DEF Piped
  <2>2. d[i].fed = (d[i].id + 1)..n /\ d[i].id \in 1..n
    BY <1>2, <2>1 DEF Piped
  <2>3. t[i].id = d[i].id /\ t[i].fed = d[i].fed \cup {n + 1}
    BY <1>1
  <2>4. ((d[i].id + 1)..n) \cup {n + 1} = (d[i].id + 1)..(n + 1)
    BY <2>2
  <2>5. t[i].fed = (t[i].id + 1)..(n + 1)
    BY <2>2, <2>3, <2>4
  <2> QED
    BY <2>1, <2>3, <2>5
<1>4. \A j \in 1..Len(s) : s[j].id \in 1..(n + 1)
  BY <1>2
<1>5. \A j \in 1..Len(s) : s[j].hash # HT_NONE => \E i \in 1..Len(t) : t[i].id = s[j].id
  BY <1>1, <1>2
<1>6. \A i, k \in 1..Len(t) : i < k => t[i].id < t[k].id
  BY <1>1, <1>2
<1>7. Piped(t, s, n + 1)
  BY <1>1, <1>2, <1>3, <1>4, <1>5, <1>6 DEF Piped
<1> QED
  BY <1>7 DEF t

(* A container begins at the unit that has just been written.              *)
LEMMA PipedPushed ==
    ASSUME NEW d \in Seq(PipeType), NEW s \in Seq(InfoType), NEW n \in Nat,
           Piped(d, s, n), NEW f \in InfoType, f.id = n + 1,
           NEW p \in PipeType, p.id = n + 1, p.fed = {}
    PROVE  LET t == W!Fed(d, n + 1) IN
           /\ f.hash = HT_NONE => Piped(t, Append(s, f), n + 1)
           /\ f.hash # HT_NONE => Piped(Append(t, p), Append(s, f), n + 1)
<1> DEFINE t == W!Fed(d, n + 1)
           u == Append(t, p)
           r == Append(s, f)
           m == Len(s)
           l == Len(t)
<1>1. t \in Seq(PipeType) /\ Piped(t, s, n + 1) /\ Len(t) = Len(d)
      /\ \A i \in 1..Len(d) : t[i].id = d[i].id
  BY FedFacts, PipedFed
<1>2. \A j \in 1..m : s[j].id \in 1..n
  BY DEF Piped
<1> HIDE DEF t
<1>3. m \in Nat /\ l \in Nat
  BY <1>1, LenProperties
<1>4. /\ Len(r) = m + 1 /\ r[m + 1] = f /\ \A j \in 1..m : r[j] = s[j]
      /\ Len(u) = l + 1 /\ u[l + 1] = p /\ \A i \in 1..l : u[i] = t[i]
  BY <1>1, AppendProperties
<1>5. /\ \A j, k \in 1..m : j < k => s[j].id < s[k].id
      /\ \A i \in 1..l :
            /\ t[i].fed = (t[i].id + 1)..(n + 1)
            /\ \E j \in 1..m : s[j].hash # HT_NONE /\ s[j].id = t[i].id
      /\ \A j \in 1..m : s[j].hash # HT_NONE => \E i \in 1..l : t[i].id = s[j].id
      /\ \A i, k \in 1..l : i < k => t[i].id < t[k].id
  BY <1>1 DEF Piped
<1>6. \A i \in 1..l : t[i].id \in 1..n
  BY <1>2, <1>5
<1> HIDE DEF u, r, m, l
<1>7. \A j \in 1..(m + 1) : r[j].id \in 1..(n + 1)
  <2> TAKE j \in 1..(m + 1)
  <2>1. CASE j = m + 1
    BY <1>4, <2>1
  <2>2. CASE j \in 1..m
    BY <1>2, <1>4, <2>2
  <2> QED
    BY <1>3, <2>1, <2>2
<1>8. \A j, k \in 1..(m + 1) : j < k => r[j].id < r[k].id
  <2> TAKE j, k \in 1..(m + 1)
  <2>1. CASE j < k /\ k = m + 1
    <3>1. j \in 1..m
      BY <1>3, <2>1
    <3>2. r[j].id \in 1..n /\ r[k].id = n + 1
      BY <1>2, <1>4, <2>1, <3>1
    <3> QED
      BY <3>2
  <2>2. CASE j < k /\ k # m + 1
    <3>1. j \in 1..m /\ k \in 1..m
      BY <1>3, <2>2
    <3> QED
      BY <1>4, <1>5, <2>2, <3>1
  <2> QED
    BY <2>1, <2>2
<1>9. ASSUME NEW i \in 1..l
      PROVE  \E j \in 1..(m + 1) : r[j].hash # HT_NONE /\ r[j].id = t[i].id
  <2>1. PICK j \in 1..m : s[j].hash # HT_NONE /\ s[j].id = t[i].id
    BY <1>5
  <2>2. j \in 1..(m + 1) /\ r[j] = s[j]
    BY <1>3, <1>4
  <2> QED
    BY <2>1, <2>2
<1>10. ASSUME f.hash = HT_NONE
       PROVE  Piped(t, r, n + 1)
  <2>1. \A j \in 1..(m + 1) : r[j].hash # HT_NONE => \E i \in 1..l : t[i].id = r[j].id
    <3> TAKE j \in 1..(m + 1)
    <3>1. CASE j = m + 1
      BY <1>4, <1>10, <3>1
    <3>2. CASE j \in 1..m
      <4>1. r[j] = s[j]
        BY <1>4, <3>2
      <4>2. s[j].hash # HT_NONE => \E i \in 1..l : t[i].id = s[j].id
        BY <1>5, <3>2
      <4> QED
        BY <4>1, <4>2
    <3> QED
      BY <1>3, <3>1, <3>2
  <2> QED
    BY <1>4, <1>5, <1>7, <1>8, <1>9, <2>1 DEF Piped, l
<1>11. ASSUME f.hash # HT_NONE
       PROVE  Piped(u, r, n + 1)
  <2>1. \A i \in 1..(l + 1) : /\ u[i].fed = (u[i].id + 1)..(n + 1)
                              /\ \E j \in 1..(m + 1) : r[j].hash # HT_NONE /\ r[j].id = u[i].id
    <3> TAKE i \in 1..(l + 1)
    <3>1. CASE i = l + 1
      <4>1. u[i].fed = {} /\ u[i].id = n + 1
        BY <1>4, <3>1
      <4>2. (n + 1 + 1)..(n + 1) = {}
        OBVIOUS
      <4>3. m + 1 \in 1..(m + 1) /\ r[m + 1].hash # HT_NONE /\ r[m + 1].id = n + 1
        BY <1>3, <1>4, <1>11
      <4>4. u[i].fed = (u[i].id + 1)..(n + 1)
        BY <4>1, <4>2
      <4> QED
        BY <4>1, <4>3, <4>4
    <3>2. CASE i \in 1..l
      <4>1. u[i] = t[i] /\ t[i].fed = (t[i].id + 1)..(n + 1)
        BY <1>4, <1>5, <3>2
      <4>2. \E j \in 1..(m + 1) : r[j].hash # HT_NONE /\ r[j].id = t[i].id
        BY <1>9, <3>2
      <4> QED
        BY <4>1, <4>2
    <3> QED
      BY <1>3, <3>1, <3>2
  <2>2. \A j \in 1..(m + 1) : r[j].hash # HT_NONE => \E i \in 1..(l + 1) : u[i].id = r[j].id
    <3> TAKE j \in 1..(m + 1)
    <3>1. CASE j = m + 1
      <4>1. l + 1 \in 1..(l + 1) /\ u[l + 1].id = n + 1 /\ r[j].id = n + 1
        BY <1>3, <1>4, <3>1
      <4> QED
        BY <4>1
    <3>2. CASE j \in 1..m
      <4>1. r[j] = s[j] /\ (s[j].hash # HT_NONE => \E i \in 1..l : t[i].id = s[j].id)
        BY <1>4, <1>5, <3>2
      <4>2. \A i \in 1..l : i \in 1..(l + 1) /\ u[i] = t[i]
        BY <1>3, <1>4
      <4> QED
        BY <4>1, <4>2
    <3> QED
      BY <1>3, <3>1, <3>2
  <2>3. \A i, k \in 1..(l + 1) : i < k => u[i].id < u[k].id
    <3> TAKE i, k \in 1..(l + 1)
    <3>1. CASE i < k /\ k = l + 1
      <4>1. i \in 1..l
        BY <1>3, <3>1
      <4>2. u[i].id \in 1..n /\ u[k].id = n + 1
        BY <1>4, <1>6, <3>1, <4>1
      <4> QED
        BY <4>2
    <3>2. CASE i < k /\ k # l + 1
      <4>1. i \in 1..l /\ k \in 1..l
        BY <1>3, <3>2
      <4> QED
        BY <1>4, <1>5, <3>2, <4>1
    <3> QED
      BY <3>1, <3>2
  <2> QED
    BY <1>4, <1>7, <1>8, <2>1, <2>2, <2>3 DEF Piped
<1> QED
  BY <1>10, <1>11 DEF t, u, r

(* The innermost container ends, and its pipe, which is the innermost.     *)
LEMMA PipedPopped ==
    ASSUME NEW d \in Seq(PipeType), NEW s \in Seq(InfoType), NEW n \in Nat,
           Piped(d, s, n), s # <<>>
    PROVE  /\ Last(s).hash = HT_NONE => Piped(d, Front(s), n)
           /\ Last(s).hash # HT_NONE =>
                 d # <<>> /\ Last(d).id = Last(s).id /\ Piped(Front(d), Front(s), n)
<1> DEFINE m == Len(s)
           l == Len(d)
           r == Front(s)
           u == Front(d)
<1>1. /\ r \in Seq(InfoType) /\ m \in Nat \ {0} /\ Len(r) = m - 1
      /\ \A j \in 1..(m - 1) : r[j] = s[j]
      /\ Last(s) = s[m]
  BY FrontFacts
<1>2. /\ \A j \in 1..m : s[j].id \in 1..n
      /\ \A j, k \in 1..m : j < k => s[j].id < s[k].id
      /\ \A i \in 1..l :
            /\ d[i].fed = (d[i].id + 1)..n
            /\ \E j \in 1..m : s[j].hash # HT_NONE /\ s[j].id = d[i].id
      /\ \A j \in 1..m : s[j].hash # HT_NONE => \E i \in 1..l : d[i].id = s[j].id
      /\ \A i, k \in 1..l : i < k => d[i].id < d[k].id
  BY DEF Piped
<1>3. l \in Nat /\ (l # 0 => d # <<>>)
  BY EmptySeq, LenProperties
<1>4. d # <<>> => /\ Len(u) = l - 1 /\ \A i \in 1..(l - 1) : u[i] = d[i]
                  /\ Last(d) = d[l]
  BY FrontFacts
<1> HIDE DEF m, l, r, u
<1>5. m \in 1..m /\ \A j \in 1..(m - 1) : j \in 1..m /\ j < m
  BY <1>1
<1>6. /\ \A j \in 1..(m - 1) : r[j].id \in 1..n
      /\ \A j, k \in 1..(m - 1) : j < k => r[j].id < r[k].id
  BY <1>1, <1>2, <1>5
<1>7. CASE Last(s).hash = HT_NONE
  <2>1. \A i \in 1..l : \E j \in 1..(m - 1) : r[j].hash # HT_NONE /\ r[j].id = d[i].id
    <3> TAKE i \in 1..l
    <3>1. PICK j \in 1..m : s[j].hash # HT_NONE /\ s[j].id = d[i].id
      BY <1>2
    <3>2. j # m
      BY <1>1, <1>7, <3>1
    <3>3. j \in 1..(m - 1)
      BY <1>1, <3>2
    <3> QED
      BY <1>1, <3>1, <3>3
  <2>2. ASSUME NEW j \in 1..(m - 1), r[j].hash # HT_NONE
        PROVE  \E i \in 1..l : d[i].id = r[j].id
    <3>1. r[j] = s[j] /\ j \in 1..m
      BY <1>1, <1>5
    <3>2. s[j].hash # HT_NONE => \E i \in 1..l : d[i].id = s[j].id
      BY <1>2, <3>1
    <3> QED
      BY <2>2, <3>1, <3>2
  <2>3. Piped(d, r, n)
    BY <1>1, <1>2, <1>6, <2>1, <2>2 DEF Piped, l
  <2> QED
    BY <1>7, <2>3 DEF r
<1>8. CASE Last(s).hash # HT_NONE
  <2>1. PICK i0 \in 1..l : d[i0].id = s[m].id
    BY <1>1, <1>2, <1>5, <1>8
(* No container that is open begins after the innermost.                   *)
  <2>2. \A i \in 1..l : d[i].id \in 1..n /\ d[i].id <= s[m].id
    <3> TAKE i \in 1..l
    <3>1. PICK j \in 1..m : s[j].id = d[i].id
      BY <1>2
    <3>2. j = m \/ j < m
      BY <1>1
    <3>3. s[j].id \in 1..n /\ s[m].id \in 1..n /\ (j < m => s[j].id < s[m].id)
      BY <1>2, <1>5
    <3> QED
      BY <3>1, <3>2, <3>3
  <2>3. l \in 1..l /\ i0 = l
    <3>1. l \in 1..l /\ (i0 = l \/ i0 < l)
      BY <1>3
    <3>2. i0 < l => d[i0].id < d[l].id
      BY <1>2, <3>1
    <3>3. d[l].id \in 1..n /\ d[l].id <= s[m].id /\ s[m].id \in 1..n
      BY <1>2, <1>5, <2>2, <3>1
    <3> QED
      BY <2>1, <3>1, <3>2, <3>3
  <2>4. d # <<>> /\ Len(u) = l - 1 /\ \A i \in 1..(l - 1) : u[i] = d[i]
    BY <1>3, <1>4, <2>3
  <2>5. \A i \in 1..(l - 1) : i \in 1..l /\ i < l
    BY <1>3
  <2>6. \A i \in 1..(l - 1) :
           /\ u[i].fed = (u[i].id + 1)..n
           /\ \E j \in 1..(m - 1) : r[j].hash # HT_NONE /\ r[j].id = u[i].id
    <3> TAKE i \in 1..(l - 1)
    <3>1. u[i] = d[i] /\ i \in 1..l /\ i < l
      BY <2>4, <2>5
    <3>2. PICK j \in 1..m : s[j].hash # HT_NONE /\ s[j].id = d[i].id
      BY <1>2, <3>1
    <3>3. d[i].id < d[l].id /\ d[l].id = s[m].id /\ d[i].id \in 1..n /\ s[m].id \in 1..n
      BY <1>2, <1>5, <2>1, <2>2, <2>3, <3>1
    <3>4. j # m
      BY <3>2, <3>3
    <3>5. j \in 1..(m - 1)
      BY <1>1, <3>4
    <3> QED
      BY <1>1, <1>2, <3>1, <3>2, <3>5
  <2>7. \A j \in 1..(m - 1) :
           r[j].hash # HT_NONE => \E i \in 1..(l - 1) : u[i].id = r[j].id
    <3> SUFFICES ASSUME NEW j \in 1..(m - 1), r[j].hash # HT_NONE
                 PROVE  \E i \in 1..(l - 1) : u[i].id = r[j].id
      OBVIOUS
    <3>1. j \in 1..m /\ j < m /\ r[j] = s[j]
      BY <1>1, <1>5
    <3>2. PICK i \in 1..l : d[i].id = s[j].id
      BY <1>2, <3>1
    <3>3. s[j].id < s[m].id /\ s[j].id \in 1..n /\ s[m].id \in 1..n
      BY <1>2, <1>5, <3>1
    <3>4. i # l
      BY <2>1, <2>3, <3>2, <3>3
    <3>5. i \in 1..(l - 1)
      BY <1>3, <3>4
    <3> QED
      BY <2>4, <3>1, <3>2, <3>5
  <2>8. \A i, k \in 1..(l - 1) : i < k => u[i].id < u[k].id
    BY <1>2, <2>4, <2>5
  <2>9. Piped(u, r, n)
    BY <1>1, <1>6, <2>4, <2>6, <2>7, <2>8 DEF Piped
  <2>10. Last(d).id = Last(s).id
    BY <1>1, <1>4, <2>1, <2>3, <2>4
  <2> QED
    BY <1>8, <2>4, <2>9, <2>10 DEF r, u
<1> QED
  BY <1>7, <1>8

-----------------------------------------------------------------------------
(* What holds of a writer that has neither been closed nor thrown: it has  *)
(* the pipes of its containers.                                            *)
OpenInv ==
    /\ out \in Seq(UnitType) /\ dest \in Seq(PipeType) /\ stack \in Seq(InfoType)
    /\ Piped(dest, stack, Len(out))

WriterInv ==
    /\ armor \in BOOLEAN /\ functions \in [Keys -> Hashes]
    /\ state = "open" => OpenInv

LEMMA WriterInit ==
    ASSUME W!Init
    PROVE  WriterInv
<1>1. /\ out = <<>> /\ dest = <<>> /\ stack = <<>> /\ armor = FALSE
      /\ functions = [k \in Keys |-> HT_NONE]
  BY DEF W!Init
<1>2. /\ <<>> \in Seq(UnitType) /\ <<>> \in Seq(PipeType) /\ <<>> \in Seq(InfoType)
      /\ Len(<<>>) = 0
  BY EmptySeq
<1>3. Piped(<<>>, <<>>, 0)
  BY <1>2 DEF Piped
<1> QED
  BY <1>1, <1>2, <1>3 DEF WriterInv, OpenInv, Hashes

(* One unit u is written, below the pipes of the open containers.          *)
LEMMA WriterPushes ==
    ASSUME WriterInv, state = "open", NEW u \in UnitType
    PROVE  /\ Append(out, u) \in Seq(UnitType) /\ Len(Append(out, u)) = Len(out) + 1
           /\ W!Fed(dest, Len(out) + 1) \in Seq(PipeType)
           /\ Piped(W!Fed(dest, Len(out) + 1), stack, Len(out) + 1)
<1>1. out \in Seq(UnitType) /\ dest \in Seq(PipeType) /\ Piped(dest, stack, Len(out))
  BY DEF WriterInv, OpenInv
<1>2. Append(out, u) \in Seq(UnitType) /\ Len(Append(out, u)) = Len(out) + 1
  BY <1>1, AppendProperties
<1>3. Len(out) \in Nat /\ Len(out) + 1 \in Nat
  BY <1>1, LenProperties
<1>4. W!Fed(dest, Len(out) + 1) \in Seq(PipeType)
  BY <1>1, <1>3, FedFacts
<1>5. Piped(W!Fed(dest, Len(out) + 1), stack, Len(out) + 1)
  BY <1>1, <1>3, PipedFed
<1> QED
  BY <1>2, <1>4, <1>5

LEMMA WriterStarts ==
    ASSUME WriterInv, NEW k \in Keys, NEW c \in Counts, W!StartContainer(k, c)
    PROVE  WriterInv'
<1> DEFINE n == Len(out)
           f == W!ParentInfo(k, c)
           p == W!Pipe(n + 1)
           t == W!Fed(dest, n + 1)
<1>1. /\ out \in Seq(UnitType) /\ dest \in Seq(PipeType) /\ stack \in Seq(InfoType)
      /\ Piped(dest, stack, n) /\ armor \in BOOLEAN /\ functions \in [Keys -> Hashes]
      /\ state = "open"
  BY DEF WriterInv, OpenInv, W!StartContainer, W!Open
<1>2. n \in Nat /\ n + 1 \in Nat
  BY <1>1, LenProperties
<1>3. f.id = n + 1 /\ f.hash = functions[k]
  BY DEF W!ParentInfo
<1>4. f \in InfoType
  <2>1. functions[k] \in Hashes /\ W!Armored(c) \in BOOLEAN
    BY <1>1 DEF W!Armored
  <2> QED
    BY <1>2, <2>1 DEF W!ParentInfo, InfoType
<1>5. W!Header(f) \in UnitType
  BY <1>4 DEF W!Header, InfoType, UnitType
<1>6. p \in PipeType /\ p.id = n + 1 /\ p.fed = {}
  BY <1>2 DEF W!Pipe, PipeType
<1>7. /\ out' = Append(out, W!Header(f)) /\ stack' = Append(stack, f)
      /\ dest' = IF f.hash = HT_NONE THEN W!Fed(dest, f.id) ELSE W!DestWithin(f)
      /\ armor' = armor /\ functions' = functions
  BY DEF W!StartContainer
<1>8. dest' = IF f.hash = HT_NONE THEN t ELSE Append(t, p)
  BY <1>3, <1>7 DEF W!DestWithin
<1> HIDE DEF f, p
<1>9. out' \in Seq(UnitType) /\ Len(out') = n + 1 /\ t \in Seq(PipeType)
  BY <1>1, <1>5, <1>7, WriterPushes
<1>10. stack' \in Seq(InfoType)
  BY <1>1, <1>4, <1>7, AppendProperties
<1>11. /\ f.hash = HT_NONE => Piped(t, Append(stack, f), n + 1)
       /\ f.hash # HT_NONE => Piped(Append(t, p), Append(stack, f), n + 1)
  BY <1>1, <1>2, <1>3, <1>4, <1>6, PipedPushed
<1> HIDE DEF t
<1>12. dest' \in Seq(PipeType)
  BY <1>6, <1>8, <1>9, AppendProperties
<1>13. Piped(dest', stack', n + 1)
  BY <1>7, <1>8, <1>11
<1> HIDE DEF n
<1>14. OpenInv'
  BY <1>9, <1>10, <1>12, <1>13 DEF OpenInv
<1> QED
  BY <1>1, <1>7, <1>14 DEF WriterInv

LEMMA WriterPushesNode ==
    ASSUME WriterInv, W!PushNode
    PROVE  WriterInv'
<1> DEFINE u == [kind |-> "leaf"]
<1>1. /\ state = "open" /\ stack' = stack /\ armor' = armor /\ functions' = functions
      /\ out' = Append(out, u) /\ dest' = W!Fed(dest, Len(out) + 1)
  BY DEF W!PushNode, W!Open
<1>2. u \in UnitType
  BY DEF UnitType
<1> HIDE DEF u
<1>3. /\ out' \in Seq(UnitType) /\ Len(out') = Len(out) + 1
      /\ dest' \in Seq(PipeType) /\ Piped(dest', stack, Len(out) + 1)
  BY <1>1, <1>2, WriterPushes
<1>4. OpenInv'
  BY <1>1, <1>3 DEF WriterInv, OpenInv
<1> QED
  BY <1>1, <1>4 DEF WriterInv

(* The marker has been written, if there is one.                           *)
LEMMA WriterMarks ==
    ASSUME WriterInv, state = "open", NEW f
    PROVE  /\ W!OutMarked(f) \in Seq(UnitType) /\ W!DestMarked(f) \in Seq(PipeType)
           /\ Piped(W!DestMarked(f), stack, Len(W!OutMarked(f)))
<1> DEFINE u == [kind |-> "eoc"]
<1>1. u \in UnitType
  BY DEF UnitType
<1> HIDE DEF u
<1>2. CASE W!Marked(f)
  <2>1. W!OutMarked(f) = Append(out, u) /\ W!DestMarked(f) = W!Fed(dest, Len(out) + 1)
    BY <1>2 DEF W!OutMarked, W!DestMarked, u
  <2> QED
    BY <1>1, <2>1, WriterPushes
<1>3. CASE ~W!Marked(f)
  <2>1. W!OutMarked(f) = out /\ W!DestMarked(f) = dest
    BY <1>3 DEF W!OutMarked, W!DestMarked
  <2> QED
    BY <2>1 DEF WriterInv, OpenInv
<1> QED
  BY <1>2, <1>3

LEMMA WriterEnds ==
    ASSUME WriterInv, W!EndContainer
    PROVE  WriterInv'
<1> DEFINE f == W!Last(stack)
           o == W!OutMarked(f)
           t == W!DestMarked(f)
           n == Len(o)
           g == [kind |-> "digest", of |-> W!Digest(f)]
<1>1. /\ state = "open" /\ stack # <<>> /\ stack' = W!Front(stack)
      /\ armor' = armor /\ functions' = functions
      /\ out' = IF W!Hashed(f) THEN Append(o, g) ELSE o
      /\ dest' = W!DestAfter(f)
  BY DEF W!EndContainer, W!Open
<1>2. /\ o \in Seq(UnitType) /\ t \in Seq(PipeType) /\ Piped(t, stack, n)
  BY <1>1, WriterMarks
<1>3. stack \in Seq(InfoType)
  BY <1>1 DEF WriterInv, OpenInv
<1>4. f = Last(stack) /\ stack' = Front(stack) /\ stack' \in Seq(InfoType)
  BY <1>1, <1>3, WriterSequences, FrontFacts
<1>5. n \in Nat /\ n + 1 \in Nat
  BY <1>2, LenProperties
<1>6. dest' = IF W!Hashed(f) THEN W!Fed(Front(t), n + 1) ELSE t
  BY <1>1, WriterSequences DEF W!DestAfter
<1>7. W!Digest(f) = Last(t).fed
  BY WriterSequences DEF W!Digest
<1>8. /\ Last(stack).hash = HT_NONE => Piped(t, Front(stack), n)
      /\ Last(stack).hash # HT_NONE => t # <<>> /\ Piped(Front(t), Front(stack), n)
  BY <1>1, <1>2, <1>3, <1>5, PipedPopped
<1> HIDE DEF f, o, t, n
<1>9. CASE W!Hashed(f)
  <2>1. t # <<>> /\ Piped(Front(t), stack', n)
    BY <1>4, <1>8, <1>9 DEF W!Hashed
  <2>2. Front(t) \in Seq(PipeType) /\ Last(t) \in PipeType
    BY <1>2, <2>1, FrontFacts
  <2>3. g \in UnitType
    BY <1>7, <2>2 DEF PipeType, UnitType
  <2> HIDE DEF g
  <2>4. out' \in Seq(UnitType) /\ Len(out') = n + 1
    BY <1>1, <1>2, <1>9, <2>3, AppendProperties DEF n
  <2>5. dest' \in Seq(PipeType)
    BY <1>5, <1>6, <1>9, <2>2, FedFacts
  <2>6. Piped(dest', stack', n + 1)
    BY <1>5, <1>6, <1>9, <2>1, <2>2, PipedFed
  <2>7. OpenInv'
    BY <1>4, <2>4, <2>5, <2>6 DEF OpenInv
  <2> QED
    BY <1>1, <2>7 DEF WriterInv
<1>10. CASE ~W!Hashed(f)
  <2>1. out' = o /\ dest' = t /\ Len(out') = n
    BY <1>1, <1>6, <1>10 DEF n
  <2>2. Piped(t, stack', n)
    BY <1>4, <1>8, <1>10 DEF W!Hashed
  <2>3. OpenInv'
    BY <1>2, <1>4, <2>1, <2>2 DEF OpenInv
  <2> QED
    BY <1>1, <2>3 DEF WriterInv
<1> QED
  BY <1>9, <1>10

(* An exception, or end_of_stream: nothing of the containers is kept.      *)
LEMMA WriterStops ==
    ASSUME WriterInv, state' # "open", armor' = armor, functions' = functions
    PROVE  WriterInv'
BY DEF WriterInv

LEMMA WriterUntouched ==
    ASSUME WriterInv, UNCHANGED writer_vars
    PROVE  WriterInv'
BY DEF WriterInv, OpenInv, writer_vars

LEMMA WriterIsSet ==
    ASSUME WriterInv,
           \/ \E b \in BOOLEAN : W!SetArmorDefault(b)
           \/ \E k \in Keys, h \in Hashes : W!SetHashFunction(k, h)
    PROVE  WriterInv'
<1>1. out' = out /\ dest' = dest /\ stack' = stack
  BY DEF W!SetArmorDefault, W!SetHashFunction
<1>2. state' = "open" => state = "open"
  BY DEF W!SetArmorDefault, W!SetHashFunction
<1>3. state = "open" => OpenInv'
  BY <1>1 DEF WriterInv, OpenInv
<1>4. armor' \in BOOLEAN
  BY DEF W!SetArmorDefault, W!SetHashFunction, WriterInv
<1>5. functions' \in [Keys -> Hashes]
  BY DEF W!SetArmorDefault, W!SetHashFunction, WriterInv
<1> QED
  BY <1>2, <1>3, <1>4, <1>5 DEF WriterInv

-----------------------------------------------------------------------------
LEMMA WriterNext ==
    ASSUME WriterInv, [Next]_vars
    PROVE  WriterInv'
<1>1. CASE ~reading /\ SendStart
  BY <1>1, WriterStarts DEF SendStart
<1>2. CASE ~reading /\ SendStartUnsupported
  BY <1>2, WriterStops DEF SendStartUnsupported, W!StartUnsupported, W!Throw
<1>3. CASE ~reading /\ SendNode
  BY <1>3, WriterPushesNode DEF SendNode
<1>4. CASE ~reading /\ SendEnd
  BY <1>4, WriterEnds DEF SendEnd
<1>5. CASE ~reading /\ SendEndWithoutDigest
  BY <1>5, WriterStops DEF SendEndWithoutDigest, W!EndWithoutDigest, W!Throw
<1>6. CASE ~reading /\ SendEos
  BY <1>6, WriterStops DEF SendEos, W!Close
<1>7. CASE ~reading /\ SendFails
  BY <1>7, WriterStops DEF SendFails, W!WriteFails, W!Throw
<1>8. CASE Settings
  BY <1>8, WriterIsSet DEF Settings, Hashes
<1>9. CASE Begin
  BY <1>9, WriterUntouched DEF Begin
<1>10. CASE ReadBack
  BY <1>10, WriterUntouched DEF ReadBack
<1>11. CASE UNCHANGED vars
  BY <1>11, WriterUntouched DEF vars
<1> QED
  BY <1>1, <1>2, <1>3, <1>4, <1>5, <1>6, <1>7, <1>8, <1>9, <1>10, <1>11 DEF Next, Write

LEMMA PipesOfWriter ==
    ASSUME WriterInv
    PROVE  WriterPipes
<1> SUFFICES ASSUME state = "open"
             PROVE  WriterPipes
  BY DEF WriterPipes, W!DestMatchesStack, W!DigestCoversBody
<1>1. /\ dest \in Seq(PipeType) /\ stack \in Seq(InfoType)
      /\ Piped(dest, stack, Len(out))
  BY DEF WriterInv, OpenInv
<1>2. DOMAIN dest = 1..Len(dest) /\ DOMAIN stack = 1..Len(stack)
  BY <1>1, LenProperties
<1>3. \A i \in DOMAIN dest : dest[i].fed = (dest[i].id + 1)..Len(out)
  BY <1>1, <1>2 DEF Piped
<1>4. \A i, j \in DOMAIN dest : i < j => dest[i].id < dest[j].id
  BY <1>1, <1>2 DEF Piped
<1>5. \A i \in DOMAIN dest : \E j \in DOMAIN stack :
         stack[j].hash # HT_NONE /\ stack[j].id = dest[i].id
  BY <1>1, <1>2 DEF Piped
<1>6. \A j \in DOMAIN stack :
         stack[j].hash # HT_NONE => \E i \in DOMAIN dest : dest[i].id = stack[j].id
  BY <1>1, <1>2 DEF Piped
<1>7. {p.id : p \in W!Range(dest)} = {f.id : f \in {g \in W!Range(stack) : W!Hashed(g)}}
  <2>1. ASSUME NEW x
        PROVE  /\ x \in {p.id : p \in W!Range(dest)}
                    <=> \E i \in DOMAIN dest : x = dest[i].id
               /\ x \in {f.id : f \in {g \in W!Range(stack) : W!Hashed(g)}}
                    <=> \E j \in DOMAIN stack : stack[j].hash # HT_NONE /\ x = stack[j].id
    BY WriterSequences DEF W!Hashed
  <2>2. ASSUME NEW x
        PROVE  (\E i \in DOMAIN dest : x = dest[i].id)
                 <=> \E j \in DOMAIN stack : stack[j].hash # HT_NONE /\ x = stack[j].id
    BY <1>5, <1>6
  <2> QED
    BY <2>1, <2>2
<1> QED
  BY <1>3, <1>4, <1>7 DEF WriterPipes, W!DestMatchesStack, W!DigestCoversBody

(* Whatever the source sends, and wherever it sets the armor default and   *)
(* the hash functions, ToBitstream has exactly the pipes of the hashed     *)
(* containers that are open, and each pipe has been fed every unit since   *)
(* the header of its container, so that every digest covers its body.      *)
THEOREM WriterPipesAlways == Spec => []WriterPipes
<1>1. Init => WriterInv
  BY WriterInit DEF Init
<1>2. WriterInv /\ [Next]_vars => WriterInv'
  BY WriterNext
<1>3. WriterInv => WriterPipes
  BY PipesOfWriter
<1> QED
  BY <1>1, <1>2, <1>3, PTL DEF Spec
=============================================================================
