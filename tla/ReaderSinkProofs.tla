--------------------------- MODULE ReaderSinkProofs ---------------------------
(***************************************************************************)
(* What the bitstream reader tells its sink, for every value of its        *)
(* constants: reader and sink agree, counts are kept, and the events are a *)
(* stream of StreamProtocol.                                               *)
(***************************************************************************)
EXTENDS FromBitstreamProofs

-----------------------------------------------------------------------------
(* What reading and counting leave alone.                                  *)

(* Two stacks of the same containers with the same children read.          *)
Alike(s, t) ==
    /\ s \in Seq(FrameType) /\ t \in Seq(FrameType)
    /\ Len(t) = Len(s)
    /\ \A i \in 1..Len(s) :
          /\ t[i].id = s[i].id /\ t[i].size = s[i].size
          /\ t[i].armored = s[i].armored /\ t[i].hash = s[i].hash
          /\ t[i].pipe = s[i].pipe /\ t[i].read = s[i].read

(* A read advances digests only.                                           *)
LEMMA FedAlike ==
    ASSUME NEW s \in Seq(FrameType), NEW src
    PROVE  Alike(s, Fed(s, src))
<1> DEFINE F(i) == IF \E k \in DOMAIN src : src[k] = s[i].id
                   THEN [s[i] EXCEPT !.fed = @ + 1] ELSE s[i]
<1>1. \A f \in FrameType :
         LET g == [f EXCEPT !.fed = @ + 1]
         IN  /\ g.id = f.id /\ g.size = f.size /\ g.armored = f.armored
             /\ g.hash = f.hash /\ g.pipe = f.pipe /\ g.read = f.read
  BY DEF FrameType
<1>2. \A i \in 1..Len(s) :
         /\ F(i).id = s[i].id /\ F(i).size = s[i].size
         /\ F(i).armored = s[i].armored /\ F(i).hash = s[i].hash
         /\ F(i).pipe = s[i].pipe /\ F(i).read = s[i].read
  BY <1>1
<1>3. Fed(s, src) = [i \in 1..Len(s) |-> F(i)]
  BY DEF Fed
<1> HIDE DEF F
<1>4. \A i \in 1..Len(s) : Fed(s, src)[i] = F(i)
  BY <1>3
<1> QED
  BY <1>2, <1>4, FedFacts DEF Alike

(* Counting a child is told by the innermost container alone.              *)
LEMMA CountedRead ==
    ASSUME NEW s \in Seq(FrameType), s # <<>>
    PROVE  /\ Counted(s) \in Seq(FrameType) /\ Len(Counted(s)) = Len(s)
           /\ \A i \in 1..Len(s) :
                 /\ Counted(s)[i].id = s[i].id /\ Counted(s)[i].size = s[i].size
                 /\ Counted(s)[i].armored = s[i].armored
                 /\ Counted(s)[i].hash = s[i].hash
                 /\ Counted(s)[i].pipe = s[i].pipe
                 /\ Counted(s)[i].read = IF i = Len(s) THEN s[i].read + 1
                                                       ELSE s[i].read
<1> DEFINE n == Len(s)
           f == [s[n] EXCEPT !.read = @ + 1]
<1>1. n \in 1..n /\ s[n] \in FrameType
  BY EmptySeq, LenProperties
<1>2. /\ f.id = s[n].id /\ f.size = s[n].size /\ f.armored = s[n].armored
      /\ f.hash = s[n].hash /\ f.pipe = s[n].pipe /\ f.read = s[n].read + 1
  BY <1>1 DEF FrameType
<1>3. Counted(s) = [s EXCEPT ![n] = f]
  BY DEF Counted
<1> HIDE DEF f
<1>4. \A i \in 1..n : Counted(s)[i] = IF i = n THEN f ELSE s[i]
  BY <1>1, <1>3
<1> QED
  BY <1>2, <1>4, CountedFacts

(* The announced count, the hash and the end of a frame do not depend on   *)
(* its digest.                                                             *)
LEMMA AlikeFrames ==
    ASSUME NEW s, NEW t, Alike(s, t), NEW i \in 1..Len(s)
    PROVE  /\ ChildCount(t[i]) = ChildCount(s[i])
           /\ IsHashed(t[i]) <=> IsHashed(s[i])
           /\ Full(t[i]) <=> Full(s[i])
<1>1. ChildCount(t[i]) = ChildCount(s[i])
  BY DEF Alike, ChildCount
<1> QED
  BY <1>1 DEF Alike, IsHashed, Full

(* A stack and its copy are empty together and have the same innermost     *)
(* container.                                                              *)
LEMMA AlikeLast ==
    ASSUME NEW s, NEW t, Alike(s, t), s # <<>>
    PROVE  /\ t # <<>>
           /\ Last(s) \in FrameType /\ Last(t) \in FrameType
           /\ ChildCount(Last(t)) = ChildCount(Last(s))
           /\ Last(t).read = Last(s).read
           /\ Full(Last(t)) <=> Full(Last(s))
<1>1. /\ s \in Seq(FrameType) /\ t \in Seq(FrameType) /\ Len(t) = Len(s)
      /\ Len(s) \in 1..Len(s)
  BY EmptySeq, LenProperties DEF Alike
<1>2. t # <<>> /\ Last(s) = s[Len(s)] /\ Last(t) = t[Len(s)]
  BY <1>1, EmptySeq DEF Last
<1> QED
  BY <1>1, <1>2, AlikeFrames DEF Alike

(* The fields of frames and of the containers of a sink.                   *)
LEMMA Fields ==
    /\ \A f \in FrameType : f.id \in Nat /\ f.read \in Nat /\ ChildCount(f) \in Int
    /\ \A c \in OpenType : c.id \in Nat /\ c.count \in Int /\ c.children \in Nat
<1>1. \A f \in FrameType : f.id \in Nat /\ f.read \in Nat
  BY DEF FrameType
<1>2. \A c \in OpenType : c.id \in Nat /\ c.count \in Int /\ c.children \in Nat
  BY DEF OpenType
<1> QED
  BY <1>1, <1>2, ChildCountType

(* The sink counts a child in its innermost container.                     *)
LEMMA SinkCountedFacts ==
    ASSUME NEW o \in Seq(OpenType), o # <<>>
    PROVE  /\ SinkCounted(o) \in Seq(OpenType) /\ Len(SinkCounted(o)) = Len(o)
           /\ \A i \in 1..Len(o) :
                 /\ SinkCounted(o)[i].id = o[i].id
                 /\ SinkCounted(o)[i].count = o[i].count
                 /\ SinkCounted(o)[i].children =
                       IF i = Len(o) THEN o[i].children + 1 ELSE o[i].children
<1> DEFINE n == Len(o)
           c == [o[n] EXCEPT !.children = @ + 1]
<1>1. n \in 1..n /\ o[n] \in OpenType
  BY EmptySeq, LenProperties
<1>2. c.id = o[n].id /\ c.count = o[n].count /\ c.children = o[n].children + 1
  BY <1>1 DEF OpenType
<1>3. SinkCounted(o) = [o EXCEPT ![n] = c]
  BY DEF SinkCounted
<1> HIDE DEF c
<1>4. \A i \in 1..n : SinkCounted(o)[i] = IF i = n THEN c ELSE o[i]
  BY <1>1, <1>3
<1>5. Len(SinkCounted(o)) = n
  BY <1>1, <1>3
<1> QED
  BY <1>2, <1>4, <1>5, SinkCountedType

-----------------------------------------------------------------------------
(* Reader and sink.                                                        *)

(* The containers the sink has open are those of the stack but the root,   *)
(* with their announced counts; only forgiven appblobs are not delivered.  *)
InStep(s, o, flags) ==
    /\ Len(o) = IF s = <<>> THEN 0 ELSE Len(s) - 1
    /\ \A i \in 1..Len(o) :
          /\ o[i].id = s[i + 1].id
          /\ o[i].count = ChildCount(s[i + 1])
          /\ o[i].children <= s[i + 1].read
          /\ "UnknownAppblobs" \notin flags => o[i].children = s[i + 1].read

(* Digests make no difference.                                             *)
LEMMA InStepAlike ==
    ASSUME NEW s, NEW t, Alike(s, t), NEW o \in Seq(OpenType), NEW flags,
           InStep(s, o, flags)
    PROVE  InStep(t, o, flags)
<1>1. /\ s \in Seq(FrameType) /\ t \in Seq(FrameType) /\ Len(t) = Len(s)
      /\ Len(s) \in Nat /\ Len(o) \in Nat
      /\ s = <<>> <=> t = <<>>
  BY EmptySeq, LenProperties DEF Alike
<1>2. \A i \in 1..Len(o) : i + 1 \in 1..Len(s)
  BY <1>1 DEF InStep
<1>3. \A i \in 1..Len(o) :
         /\ t[i + 1].id = s[i + 1].id /\ t[i + 1].read = s[i + 1].read
         /\ ChildCount(t[i + 1]) = ChildCount(s[i + 1])
  BY <1>2, AlikeFrames DEF Alike
<1> QED
  BY <1>1, <1>3 DEF InStep

(* A node that reader and sink both count.                                 *)
LEMMA InStepCounted ==
    ASSUME NEW s \in Seq(FrameType), s # <<>>, NEW o \in Seq(OpenType), NEW flags,
           InStep(s, o, flags)
    PROVE  InStep(Counted(s), SinkCounted(o), flags)
<1> DEFINE t == Counted(s)
           q == SinkCounted(o)
<1>1. /\ t \in Seq(FrameType) /\ Len(t) = Len(s) /\ Len(s) \in Nat \ {0}
      /\ t # <<>> /\ Len(o) = Len(s) - 1 /\ Len(o) \in Nat
  BY CountedRead, EmptySeq, LenProperties DEF InStep
<1>2. CASE o = <<>>
  BY <1>1, <1>2 DEF InStep, SinkCounted
<1>3. CASE o # <<>>
  <2>1. /\ Len(q) = Len(o)
        /\ \A i \in 1..Len(o) :
              /\ q[i].id = o[i].id /\ q[i].count = o[i].count
              /\ q[i].children = IF i = Len(o) THEN o[i].children + 1
                                               ELSE o[i].children
    BY <1>3, SinkCountedFacts
  <2>2. \A i \in 1..Len(o) : i + 1 \in 1..Len(s) /\ (i = Len(o) <=> i + 1 = Len(s))
    BY <1>1
  <2>3. \A i \in 1..Len(o) :
           /\ t[i + 1].id = s[i + 1].id /\ t[i + 1].size = s[i + 1].size
           /\ t[i + 1].read = IF i = Len(o) THEN s[i + 1].read + 1 ELSE s[i + 1].read
    BY <2>2, CountedRead
  <2>4. \A i \in 1..Len(o) : o[i].children \in Nat /\ s[i + 1].read \in Nat
    <3>1. \A i \in 1..Len(o) : o[i] \in OpenType /\ s[i + 1] \in FrameType
      BY <2>2
    <3> QED
      BY <3>1, Fields
  <2> HIDE DEF t, q
  <2>5. \A i \in 1..Len(o) :
           /\ o[i].id = s[i + 1].id
           /\ o[i].count = ChildCount(s[i + 1])
           /\ o[i].children <= s[i + 1].read
           /\ "UnknownAppblobs" \notin flags => o[i].children = s[i + 1].read
    BY DEF InStep
  <2>6. \A i \in 1..Len(o) :
           /\ q[i].id = t[i + 1].id
           /\ q[i].count = ChildCount(t[i + 1])
           /\ q[i].children <= t[i + 1].read
           /\ "UnknownAppblobs" \notin flags => q[i].children = t[i + 1].read
    <3> TAKE i \in 1..Len(o)
    <3>1. ChildCount(t[i + 1]) = ChildCount(s[i + 1])
      BY <2>3 DEF ChildCount
    <3>2. CASE i = Len(o)
      <4>1. q[i].children = o[i].children + 1 /\ t[i + 1].read = s[i + 1].read + 1
        BY <2>1, <2>3, <3>2
      <4>2. o[i].children + 1 <= s[i + 1].read + 1
        BY <2>4, <2>5
      <4> QED
        BY <2>1, <2>3, <2>5, <3>1, <4>1, <4>2
    <3>3. CASE i # Len(o)
      <4>1. q[i].children = o[i].children /\ t[i + 1].read = s[i + 1].read
        BY <2>1, <2>3, <3>3
      <4> QED
        BY <2>1, <2>3, <2>5, <3>1, <4>1
    <3> QED
      BY <3>2, <3>3
  <2> QED
    BY <1>1, <2>1, <2>6 DEF InStep, t, q
<1> QED
  BY <1>2, <1>3

(* A node that the reader counts and the sink does not get.                *)
LEMMA InStepSkipped ==
    ASSUME NEW s \in Seq(FrameType), s # <<>>, NEW o \in Seq(OpenType), NEW flags,
           InStep(s, o, flags), "UnknownAppblobs" \in flags
    PROVE  InStep(Counted(s), o, flags)
<1> DEFINE t == Counted(s)
<1>1. /\ t \in Seq(FrameType) /\ Len(t) = Len(s) /\ Len(s) \in Nat \ {0}
      /\ t # <<>> /\ Len(o) = Len(s) - 1 /\ Len(o) \in Nat
  BY CountedRead, EmptySeq, LenProperties DEF InStep
<1>2. \A i \in 1..Len(o) : i + 1 \in 1..Len(s)
  BY <1>1
<1>3. \A i \in 1..Len(o) :
         /\ t[i + 1].id = s[i + 1].id /\ t[i + 1].size = s[i + 1].size
         /\ t[i + 1].read \in {s[i + 1].read, s[i + 1].read + 1}
  BY <1>2, CountedRead
<1>4. \A i \in 1..Len(o) : o[i].children \in Nat /\ s[i + 1].read \in Nat
  <2>1. \A i \in 1..Len(o) : o[i] \in OpenType /\ s[i + 1] \in FrameType
    BY <1>2
  <2> QED
    BY <2>1, Fields
<1> HIDE DEF t
<1>5. \A i \in 1..Len(o) :
         /\ o[i].id = s[i + 1].id
         /\ o[i].count = ChildCount(s[i + 1])
         /\ o[i].children <= s[i + 1].read
  BY DEF InStep
<1>6. \A i \in 1..Len(o) :
         /\ o[i].id = t[i + 1].id
         /\ o[i].count = ChildCount(t[i + 1])
         /\ o[i].children <= t[i + 1].read
  <2> TAKE i \in 1..Len(o)
  <2>1. ChildCount(t[i + 1]) = ChildCount(s[i + 1])
    BY <1>3 DEF ChildCount
  <2> QED
    <3>1. o[i].children <= s[i + 1].read + 1
      BY <1>4, <1>5
    <3>2. o[i].children <= t[i + 1].read
      BY <1>3, <1>5, <3>1
    <3> QED
      BY <1>3, <1>5, <2>1, <3>2
<1> QED
  BY <1>1, <1>6 DEF InStep, t

(* A container that begins.                                                *)
LEMMA InStepPush ==
    ASSUME NEW s \in Seq(FrameType), s # <<>>, NEW o \in Seq(OpenType), NEW flags,
           InStep(s, o, flags), NEW f \in FrameType, f.read = 0,
           SinkOpen(f) \in OpenType
    PROVE  InStep(Append(s, f), Append(o, SinkOpen(f)), flags)
<1> DEFINE t == Append(s, f)
           q == Append(o, SinkOpen(f))
           n == Len(o)
<1>1. /\ Len(t) = Len(s) + 1 /\ t[Len(s) + 1] = f /\ t # <<>>
      /\ \A i \in 1..Len(s) : t[i] = s[i]
      /\ Len(s) \in Nat \ {0}
  BY AppendProperties, LenProperties, EmptySeq
<1>2. /\ Len(q) = n + 1 /\ q[n + 1] = SinkOpen(f)
      /\ \A i \in 1..n : q[i] = o[i]
      /\ n \in Nat
  BY AppendProperties, LenProperties
<1>3. n = Len(s) - 1
  BY DEF InStep
<1>4. /\ SinkOpen(f).id = f.id /\ SinkOpen(f).count = ChildCount(f)
      /\ SinkOpen(f).children = 0
  BY DEF SinkOpen
<1> HIDE DEF t, q, n
<1>5. \A i \in 1..(n + 1) : i \in 1..n \/ i = n + 1
  BY <1>2
<1>6. \A i \in 1..n : t[i + 1] = s[i + 1]
  BY <1>1, <1>2, <1>3
<1>7. t[(n + 1) + 1] = f
  BY <1>1, <1>2, <1>3
<1>8. ASSUME NEW i \in 1..(n + 1)
      PROVE  /\ q[i].id = t[i + 1].id
             /\ q[i].count = ChildCount(t[i + 1])
             /\ q[i].children <= t[i + 1].read
             /\ "UnknownAppblobs" \notin flags => q[i].children = t[i + 1].read
  <2>1. CASE i \in 1..n
    BY <1>2, <1>6, <2>1 DEF InStep, n
  <2>2. CASE i = n + 1
    BY <1>2, <1>4, <1>7, <2>2
  <2> QED
    BY <1>5, <2>1, <2>2
<1> QED
  BY <1>1, <1>2, <1>3, <1>8 DEF InStep, t, q

(* A container that ends.                                                  *)
LEMMA InStepPop ==
    ASSUME NEW s \in Seq(FrameType), Len(s) > 1, NEW o \in Seq(OpenType), NEW flags,
           InStep(s, o, flags)
    PROVE  /\ o # <<>> /\ Front(o) \in Seq(OpenType)
           /\ InStep(Front(s), Front(o), flags)
<1>1. s # <<>> /\ Len(s) \in Nat /\ Len(o) = Len(s) - 1
  BY EmptySeq, LenProperties DEF InStep
<1>2. o # <<>>
  BY <1>1, EmptySeq
<1>3. /\ Front(s) \in Seq(FrameType) /\ Len(Front(s)) = Len(s) - 1
      /\ \A i \in 1..(Len(s) - 1) : Front(s)[i] = s[i]
  BY <1>1, FrontFacts
<1>4. /\ Front(o) \in Seq(OpenType) /\ Len(Front(o)) = Len(o) - 1
      /\ \A i \in 1..(Len(o) - 1) : Front(o)[i] = o[i]
  BY <1>2, FrontFacts
<1>5. Front(s) # <<>>
  BY <1>1, <1>3, EmptySeq
<1>6. \A i \in 1..(Len(o) - 1) : Front(s)[i + 1] = s[i + 1] /\ i \in 1..Len(o)
  BY <1>1, <1>3
<1> QED
  BY <1>1, <1>2, <1>3, <1>4, <1>5, <1>6 DEF InStep

-----------------------------------------------------------------------------
(* Announced counts.                                                       *)

(* No container has more children than it announced, and one with another  *)
(* container open in it still misses that one.                             *)
Misses(f) == ChildCount(f) >= 0 => f.read < ChildCount(f)
Counting(s) ==
    /\ \A i \in 1..Len(s) : ChildCount(s[i]) >= 0 => s[i].read <= ChildCount(s[i])
    /\ \A i \in 1..(Len(s) - 1) : Misses(s[i])

(* Digests make no difference.                                             *)
LEMMA CountingAlike ==
    ASSUME NEW s, NEW t, Alike(s, t), Counting(s)
    PROVE  Counting(t)
<1>1. Len(t) = Len(s) /\ \A i \in 1..Len(s) : t[i].read = s[i].read
  BY DEF Alike
<1>2. \A i \in 1..Len(s) : ChildCount(t[i]) = ChildCount(s[i])
  BY AlikeFrames
<1>3. \A i \in 1..(Len(s) - 1) : i \in 1..Len(s)
  BY LenProperties DEF Alike
<1> QED
  BY <1>1, <1>2, <1>3 DEF Counting, Misses

(* A child may be counted where one is missing.                            *)
LEMMA CountingCounted ==
    ASSUME NEW s \in Seq(FrameType), s # <<>>, Counting(s), Misses(Last(s))
    PROVE  Counting(Counted(s))
<1> DEFINE t == Counted(s)
           n == Len(s)
<1>1. /\ Len(t) = n /\ n \in Nat \ {0} /\ Last(s) = s[n]
      /\ \A i \in 1..n :
            /\ t[i].size = s[i].size
            /\ t[i].read = IF i = n THEN s[i].read + 1 ELSE s[i].read
  BY CountedRead, EmptySeq, LenProperties DEF Last
<1>2. \A i \in 1..n : ChildCount(t[i]) = ChildCount(s[i])
  BY <1>1 DEF ChildCount
<1>3. \A i \in 1..n : s[i].read \in Nat /\ ChildCount(s[i]) \in Int
  BY Fields
<1> HIDE DEF t, n
<1>4. ASSUME NEW i \in 1..n, ChildCount(t[i]) >= 0
      PROVE  t[i].read <= ChildCount(t[i])
  <2>1. CASE i = n
    BY <1>1, <1>2, <1>3, <1>4, <2>1 DEF Misses
  <2>2. CASE i # n
    BY <1>1, <1>2, <1>4, <2>2 DEF Counting, n
  <2> QED
    BY <2>1, <2>2
<1>5. ASSUME NEW i \in 1..(n - 1)
      PROVE  Misses(t[i])
  <2>1. i \in 1..n /\ i # n
    BY <1>1
  <2>2. t[i].read = s[i].read /\ ChildCount(t[i]) = ChildCount(s[i])
    BY <1>1, <1>2, <2>1
  <2>3. Misses(s[i])
    BY DEF Counting, n
  <2> QED
    BY <2>2, <2>3 DEF Misses
<1> QED
  BY <1>1, <1>4, <1>5 DEF Counting, t

(* A container begins where a child is missing.                            *)
LEMMA CountingPush ==
    ASSUME NEW s \in Seq(FrameType), s # <<>>, Counting(s), Misses(Last(s)),
           NEW f \in FrameType, f.read = 0
    PROVE  Counting(Append(s, f))
<1> DEFINE t == Append(s, f)
           n == Len(s)
<1>1. /\ Len(t) = n + 1 /\ t[n + 1] = f /\ n \in Nat \ {0}
      /\ \A i \in 1..n : t[i] = s[i]
      /\ Last(s) = s[n]
  BY AppendProperties, LenProperties, EmptySeq DEF Last
<1>2. ChildCount(f) \in Int
  BY Fields
<1> HIDE DEF t
<1>3. ASSUME NEW i \in 1..(n + 1), ChildCount(t[i]) >= 0
      PROVE  t[i].read <= ChildCount(t[i])
  <2>1. CASE i = n + 1
    BY <1>1, <1>2, <1>3, <2>1
  <2>2. CASE i # n + 1
    BY <1>1, <1>3, <2>2 DEF Counting
  <2> QED
    BY <2>1, <2>2
<1>4. ASSUME NEW i \in 1..n
      PROVE  Misses(t[i])
  BY <1>1, <1>4 DEF Counting
<1>5. Len(t) - 1 = n
  BY <1>1
<1> QED
  BY <1>1, <1>3, <1>4, <1>5 DEF Counting, t

(* A container ends, which the one around it still misses.                 *)
LEMMA CountingPop ==
    ASSUME NEW s \in Seq(FrameType), Len(s) > 1, Counting(s)
    PROVE  Counting(Front(s)) /\ Misses(Last(Front(s)))
<1>1. s # <<>> /\ Len(s) \in Nat
  BY EmptySeq, LenProperties
<1>2. /\ Len(Front(s)) = Len(s) - 1
      /\ \A i \in 1..(Len(s) - 1) : Front(s)[i] = s[i]
  BY <1>1, FrontFacts
<1>3. Last(Front(s)) = s[Len(s) - 1]
  BY <1>1, <1>2 DEF Last
<1>4. /\ Len(s) - 1 \in 1..(Len(s) - 1)
      /\ \A i \in 1..(Len(s) - 1) : i \in 1..Len(s)
      /\ \A i \in 1..(Len(s) - 1 - 1) : i \in 1..(Len(s) - 1)
  BY <1>1
<1> QED
  BY <1>2, <1>3, <1>4 DEF Counting

(* A container that misses a child is not full.                            *)
LEMMA MissesNotFull ==
    ASSUME NEW f \in FrameType, Misses(f)
    PROVE  ~Full(f)
BY Fields DEF Misses, Full

(* A record other than the end of the children is read only where a child  *)
(* is missing.                                                             *)
LEMMA AcceptedMisses ==
    ASSUME TypeOK, parents # <<>>, Counting(parents), ~Full(CurrParent),
           NEW t, t.kind # "eoc", ~Rejected(t)
    PROVE  Misses(CurrParent)
<1> DEFINE f == CurrParent
<1>1. f \in FrameType /\ f = parents[Len(parents)] /\ Len(parents) \in 1..Len(parents)
  BY FrontFacts, LenProperties DEF CurrParent, Last, TypeOK
<1>2. f.read \in Nat /\ ChildCount(f) \in Int
  BY <1>1, Fields
<1>3. ChildCount(f) >= 0 => f.read <= ChildCount(f)
  BY <1>1 DEF Counting
<1>4. ~Overfull(f)
  BY DEF Rejected
<1>5. f.armored \in BOOLEAN
  BY <1>1 DEF FrameType
<1> QED
  BY <1>2, <1>3, <1>4, <1>5 DEF Misses, Overfull, Full

-----------------------------------------------------------------------------
(* Forgiveness: what has been let through that is not checked.             *)

(* Every container began in the input read so far, and has a pipe if it is *)
(* hashed, or its unknown hash function was forgiven.                      *)
Admitted(s, p, flags) ==
    \A i \in 1..Len(s) :
        /\ s[i].id <= p
        /\ IsHashed(s[i]) /\ s[i].pipe = <<>> => "UnknownHashFunction" \in flags

(* `forgiven' has all flags that are or were set.                          *)
FlagsInv ==
    /\ forgiving \subseteq forgiven
    /\ ret = "again" => "UnknownAppblobs" \in forgiven
    /\ Masks = {} => forgiven = {}
    /\ Admitted(parents, pos, forgiven)
    /\ UnvalidatedOnlyIfForgiven

(* Reading on, counting and ending containers keep it.                     *)
LEMMA AdmittedKept ==
    ASSUME NEW s \in Seq(FrameType), NEW p \in Nat, NEW flags, Admitted(s, p, flags)
    PROVE  /\ \A src : \A q \in Nat : p <= q => Admitted(Fed(s, src), q, flags)
           /\ s # <<>> => Admitted(Counted(s), p, flags)
           /\ s # <<>> => Admitted(Front(s), p, flags)
           /\ \A q \in Nat : p <= q => Admitted(s, q, flags)
<1>1. \A i \in 1..Len(s) : s[i].id \in Nat
  BY Fields
<1>2. ASSUME NEW src, NEW q \in Nat, p <= q
      PROVE  Admitted(Fed(s, src), q, flags)
  <2>1. Alike(s, Fed(s, src))
    BY FedAlike
  <2>2. /\ Len(Fed(s, src)) = Len(s)
        /\ \A i \in 1..Len(s) :
              /\ Fed(s, src)[i].id = s[i].id /\ Fed(s, src)[i].pipe = s[i].pipe
              /\ Fed(s, src)[i].hash = s[i].hash
    BY <2>1 DEF Alike
  <2>3. \A i \in 1..Len(s) : Fed(s, src)[i].id <= q
    BY <1>1, <1>2, <2>2 DEF Admitted
  <2> QED
    BY <2>2, <2>3 DEF Admitted, IsHashed
<1>3. ASSUME s # <<>>
      PROVE  Admitted(Counted(s), p, flags)
  <2>1. /\ Len(Counted(s)) = Len(s)
        /\ \A i \in 1..Len(s) :
              /\ Counted(s)[i].id = s[i].id /\ Counted(s)[i].pipe = s[i].pipe
              /\ Counted(s)[i].hash = s[i].hash
    BY <1>3, CountedRead
  <2> QED
    BY <2>1 DEF Admitted, IsHashed
<1>4. ASSUME s # <<>>
      PROVE  Admitted(Front(s), p, flags)
  <2>1. /\ Len(Front(s)) = Len(s) - 1 /\ Len(s) \in Nat
        /\ \A i \in 1..(Len(s) - 1) : Front(s)[i] = s[i]
    BY <1>4, FrontFacts
  <2>2. \A i \in 1..(Len(s) - 1) : i \in 1..Len(s)
    BY <2>1
  <2> QED
    BY <2>1, <2>2 DEF Admitted
<1>5. ASSUME NEW q \in Nat, p <= q
      PROVE  Admitted(s, q, flags)
  <2>1. \A i \in 1..Len(s) : s[i].id <= q
    BY <1>1, <1>5 DEF Admitted
  <2> QED
    BY <2>1 DEF Admitted
<1> QED
  BY <1>2, <1>3, <1>4, <1>5

(* A header that is accepted.                                              *)
LEMMA AdmittedPush ==
    ASSUME NEW s \in Seq(FrameType), NEW p \in Nat, NEW flags, Admitted(s, p, flags),
           NEW f \in FrameType, f.id = p + 1,
           IsHashed(f) /\ f.pipe = <<>> => "UnknownHashFunction" \in flags
    PROVE  Admitted(Append(s, f), p + 1, flags)
<1>1. /\ Len(Append(s, f)) = Len(s) + 1 /\ Len(s) \in Nat
      /\ Append(s, f)[Len(s) + 1] = f
      /\ \A i \in 1..Len(s) : Append(s, f)[i] = s[i]
  BY AppendProperties, LenProperties
<1>2. p + 1 \in Nat /\ p <= p + 1 /\ f.id <= p + 1
  OBVIOUS
<1>3. Admitted(s, p + 1, flags)
  BY <1>2, AdmittedKept
<1>4. \A i \in 1..(Len(s) + 1) : i \in 1..Len(s) \/ i = Len(s) + 1
  BY <1>1
<1> QED
  BY <1>1, <1>2, <1>3, <1>4 DEF Admitted

(* What is left of the stack when a container ends.                        *)
LEMMA AdmittedBelow ==
    ASSUME TypeOK, Len(parents) > 1, NEW flags, Admitted(parents, pos, flags)
    PROVE  /\ Admitted(Front(parents), pos, flags)
           /\ Admitted(StackBelow(CurrParent), pos + 1, flags)
           /\ ~IsHashed(CurrParent) => Admitted(StackBelow(CurrParent), pos, flags)
<1>1. /\ parents \in Seq(FrameType) /\ pos \in Nat /\ pos + 1 \in Nat /\ pos <= pos + 1
      /\ parents # <<>> /\ Front(parents) \in Seq(FrameType)
  BY StackBelowFacts, EmptySeq DEF TypeOK
<1>2. Admitted(Front(parents), pos, flags)
  BY <1>1, AdmittedKept
<1> QED
  BY <1>1, <1>2, AdmittedKept DEF StackBelow

(* The stack that an exception leaves.                                     *)
LEMMA AdmittedAbort ==
    ASSUME NEW stack, NEW src, Abort(stack, src), Admitted(stack, pos', forgiven)
    PROVE  /\ Admitted(parents', pos', forgiven)
           /\ UNCHANGED <<forgiving, forgiven>> /\ ret' = "null"
<1>1. Admitted(<<>>, pos', forgiven)
  BY DEF Admitted
<1> QED
  BY <1>1 DEF Abort, Cleanup, CallOver

(* A hashed container that is accepted without a pipe has been forgiven.   *)
LEMMA FrameForgiven ==
    ASSUME TypeOK, NEW t \in Headers, HeaderAccepted(t)
    PROVE  IsHashed(Frame(t)) /\ Frame(t).pipe = <<>>
              => "UnknownHashFunction" \in forgiving
<1>1. Frame(t).hash = t.hash
  BY DEF Frame, NewFrame
<1>2. CASE t.hash \in Supported
  <2>1. Append(source, pos + 1) # <<>>
    <3>1. source \in Seq(Nat) /\ pos + 1 \in Nat
      BY DEF TypeOK
    <3>2. Len(Append(source, pos + 1)) = Len(source) + 1 /\ Len(source) \in Nat
      BY <3>1, AppendProperties, LenProperties
    <3>3. Len(<<>>) = 0 /\ Len(source) + 1 # 0
      BY <3>2, EmptySeq
    <3> QED
      BY <3>2, <3>3, Zenon
  <2> QED
    BY <1>2, <2>1 DEF Frame, NewFrame
<1>3. CASE t.hash \notin Supported
  BY <1>1, <1>3 DEF HeaderAccepted, IsHashed
<1> QED
  BY <1>2, <1>3

(* A reader without a container and without a flag satisfies FlagsInv.     *)
LEMMA InitFlags == Init => FlagsInv
<1> SUFFICES ASSUME Init PROVE FlagsInv
  OBVIOUS
<1>1. parents = <<RootFrame>> /\ Len(parents) = 1 /\ parents[1] = RootFrame
  BY DEF Init
<1>2. Admitted(parents, pos, forgiven)
  BY <1>1 DEF Init, RootFrame, Admitted, IsHashed
<1>3. UnvalidatedOnlyIfForgiven
  BY DEF Init, NoFooter, UnvalidatedOnlyIfForgiven, IsHashed
<1> QED
  BY <1>2, <1>3 DEF Init, FlagsInv

(* The calls.                                                              *)
LEMMA CallFlags == TypeOK /\ FlagsInv /\ Call => FlagsInv'
<1> SUFFICES ASSUME TypeOK, FlagsInv, Call PROVE FlagsInv'
  OBVIOUS
<1>1. CASE UNCHANGED <<parents, pos, forgiving, forgiven, ret, footer>>
  BY <1>1 DEF FlagsInv, UnvalidatedOnlyIfForgiven
<1>2. CASE Close
  <2>1. UNCHANGED <<pos, forgiving, forgiven, ret, footer>>
        /\ (parents' = parents \/ parents' = <<>>)
    BY <1>2 DEF Close, Cleanup
  <2>2. Admitted(<<>>, pos, forgiven)
    BY DEF Admitted
  <2> QED
    BY <2>1, <2>2 DEF FlagsInv, UnvalidatedOnlyIfForgiven
<1>3. ASSUME NEW flags \in Masks, NEW on \in BOOLEAN, SetForgivingFor(flags, on)
      PROVE  FlagsInv'
  <2>1. /\ UNCHANGED <<parents, pos, ret, footer>>
        /\ forgiven' = forgiven \cup forgiving'
    BY <1>3 DEF SetForgivingFor
  <2>2. Admitted(parents, pos, forgiven')
    BY <2>1 DEF FlagsInv, Admitted
  <2>3. Masks # {}
    OBVIOUS
  <2> QED
    BY <2>1, <2>2, <2>3 DEF FlagsInv, UnvalidatedOnlyIfForgiven
<1>4. ReadAll \/ ReadNext \/ Crashed
         => UNCHANGED <<parents, pos, forgiving, forgiven, ret, footer>>
  BY DEF ReadAll, ReadNext, Crashed, vars, readerVars, historyVars
<1> QED
  BY <1>1, <1>2, <1>3, <1>4 DEF Call

(* The steps of a call.                                                    *)
LEMMA ReadFlags == TypeOK /\ FlagsInv /\ Read => FlagsInv'
<1> SUFFICES ASSUME TypeOK, FlagsInv, Read PROVE FlagsInv'
  OBVIOUS
<1> DEFINE fed == Fed(parents, source)
<1>1. /\ parents \in Seq(FrameType) /\ pos \in Nat /\ pos + 1 \in Nat
      /\ pos <= pos + 1 /\ Admitted(parents, pos, forgiven)
  BY DEF TypeOK, FlagsInv
<1>2. /\ fed \in Seq(FrameType) /\ Admitted(fed, pos + 1, forgiven)
      /\ parents # <<>> => fed # <<>>
  BY <1>1, FedFacts, AdmittedKept, EmptySeq
<1>3. ASSUME Admitted(parents', pos', forgiven), UNCHANGED <<forgiving, forgiven, footer>>,
             ret' = ret \/ ret' # "again" \/ "UnknownAppblobs" \in forgiven
      PROVE  FlagsInv'
  BY <1>3 DEF FlagsInv, UnvalidatedOnlyIfForgiven
<1> HIDE DEF fed
<1>4. CASE StepAtEnd \/ CheckFull \/ CheckDone \/ Return
  <2>1. /\ UNCHANGED <<parents, pos, forgiving, forgiven, footer>>
        /\ ret' = ret \/ ret' = "null"
    BY <1>4 DEF StepAtEnd, CheckFull, CheckDone, Return, historyVars, CallOver
  <2> QED
    BY <1>1, <1>3, <2>1
<1>5. CASE ReadEof
  BY <1>1, <1>3, <1>5, AdmittedAbort DEF ReadEof
<1>6. ASSUME NEW t, RejectToken(t)
      PROVE  FlagsInv'
  <2>1. Abort(fed, source) /\ pos' = pos + 1 /\ footer' = footer
    BY <1>6 DEF RejectToken, Reading, fed
  <2> QED
    BY <1>2, <1>3, <2>1, AdmittedAbort
<1>7. ASSUME NEW t, ReadEoc(t)
      PROVE  FlagsInv'
  <2>1. /\ parents' = fed /\ pos' = pos + 1 /\ ret' = "null"
        /\ UNCHANGED <<forgiving, forgiven, footer>>
    BY <1>7 DEF ReadEoc, Reading, historyVars, fed
  <2> QED
    BY <1>2, <1>3, <2>1
<1>8. ASSUME NEW t, SkipAppblob(t)
      PROVE  FlagsInv'
  <2>1. /\ parents' = Counted(fed) /\ pos' = pos + 1 /\ parents # <<>>
        /\ UNCHANGED <<forgiving, forgiven, footer>>
    BY <1>8 DEF SkipAppblob, Reading, Stepping, ThenCheck, fed
  <2>2. "UnknownAppblobs" \in forgiven
    BY <1>8 DEF SkipAppblob, Rejected, FlagsInv
  <2> QED
    BY <1>1, <1>2, <1>3, <2>1, <2>2, AdmittedKept
<1>9. ASSUME NEW t, NEW reply \in BOOLEAN, PushNode(t, reply)
      PROVE  FlagsInv'
  <2>1. pos' = pos + 1 /\ parents # <<>> /\ footer' = footer
    BY <1>9 DEF PushNode, Reading, Stepping
  <2>2. CASE reply
    <3>1. /\ parents' = Counted(fed) /\ ret' = "leaf"
          /\ UNCHANGED <<forgiving, forgiven>>
      BY <1>9, <2>2 DEF PushNode, ThenCheck, fed
    <3> QED
      BY <1>1, <1>2, <1>3, <2>1, <3>1, AdmittedKept
  <2>3. CASE ~reply
    <3>1. Abort(fed, source)
      BY <1>9, <2>3 DEF PushNode, fed
    <3> QED
      BY <1>2, <1>3, <2>1, <3>1, AdmittedAbort
  <2> QED
    BY <2>2, <2>3
<1>10. ASSUME NEW t \in Tokens, NEW reply \in BOOLEAN, StartContainer(t, reply)
       PROVE  FlagsInv'
  <2> DEFINE stack == Append(fed, Frame(t))
             src == IF Frame(t).pipe # <<>> THEN Frame(t).pipe ELSE source
  <2>1. /\ pos' = pos + 1 /\ footer' = footer
        /\ t \in Headers /\ HeaderAccepted(t)
    BY <1>10 DEF StartContainer, Reading, Tokens, Rejected
  <2>2. Frame(t) \in FrameType /\ Frame(t).id = pos + 1
    BY <2>1, NewFrameType DEF Frame, NewFrame, TypeOK
  <2>3. IsHashed(Frame(t)) /\ Frame(t).pipe = <<>> => "UnknownHashFunction" \in forgiven
    BY <2>1, FrameForgiven DEF FlagsInv
  <2>4. Admitted(fed, pos, forgiven)
    BY <1>1, AdmittedKept DEF fed
  <2>5. Admitted(stack, pos + 1, forgiven)
    BY <1>1, <1>2, <2>2, <2>3, <2>4, AdmittedPush
  <2>6. IF reply THEN parents' = stack /\ ThenCheck("container") ELSE Abort(stack, src)
    BY <1>10 DEF StartContainer, fed
  <2> HIDE DEF stack, src
  <2>7. CASE reply
    <3>1. parents' = stack /\ ret' = "container" /\ UNCHANGED <<forgiving, forgiven>>
      BY <2>6, <2>7 DEF ThenCheck
    <3> QED
      BY <1>3, <2>1, <2>5, <3>1
  <2>8. CASE ~reply
    BY <1>3, <2>1, <2>5, <2>6, <2>8, AdmittedAbort
  <2> QED
    BY <2>7, <2>8
<1>11. CASE FooterEof
  <2>1. /\ Len(parents) > 1 /\ pos' = pos /\ footer' = footer
        /\ Abort(Front(parents), SourceBelow(CurrParent))
    BY <1>11 DEF FooterEof, Ending
  <2> QED
    BY <1>1, <1>3, <2>1, AdmittedBelow, AdmittedAbort
<1>12. ASSUME NEW foot, RejectFooter(foot)
       PROVE  FlagsInv'
  <2>1. /\ Len(parents) > 1 /\ pos' = pos + 1 /\ footer' = footer
        /\ Abort(StackBelow(CurrParent), SourceBelow(CurrParent))
    BY <1>12 DEF RejectFooter, Ending
  <2> QED
    BY <1>1, <1>3, <2>1, AdmittedBelow, AdmittedAbort
<1>13. ASSUME NEW foot, NEW reply \in BOOLEAN, EndContainer(foot, reply)
       PROVE  FlagsInv'
  <2> DEFINE stack == StackBelow(CurrParent)
             src == SourceBelow(CurrParent)
  <2>1. /\ Len(parents) > 1
        /\ foot \in Footers(CurrParent) /\ FooterAccepted(foot)
        /\ footer' = [hash |-> CurrParent.hash, validated |-> foot = "match"]
        /\ IF foot = "none" THEN pos' = pos ELSE pos' = pos + 1
    BY <1>13 DEF EndContainer, Ending
  <2>2. /\ CurrParent \in FrameType /\ stack \in Seq(FrameType) /\ stack # <<>>
        /\ CurrParent = parents[Len(parents)] /\ Len(parents) \in 1..Len(parents)
    BY <1>1, <2>1, StackBelowFacts, LenProperties DEF CurrParent, Last
  <2>3. Admitted(stack, pos', forgiven) /\ pos' \in Nat
    <3>1. CASE foot = "none"
      <4>1. ~IsHashed(CurrParent)
        BY <2>1, <3>1 DEF Footers
      <4> QED
        BY <1>1, <2>1, <3>1, <4>1, AdmittedBelow
    <3>2. CASE foot # "none"
      BY <1>1, <2>1, <3>2, AdmittedBelow
    <3> QED
      BY <3>1, <3>2
  <2>4. UnvalidatedOnlyIfForgiven' \/ forgiven' # forgiven
    <3> SUFFICES ASSUME IsHashed(CurrParent), foot # "match", forgiven' = forgiven
                 PROVE  forgiven \cap {"ChecksumErrors", "UnknownHashFunction"} # {}
      BY <2>1 DEF UnvalidatedOnlyIfForgiven, IsHashed
    <3>1. CASE CurrParent.pipe # <<>>
      <4>1. foot = "mismatch"
        BY <2>1, <3>1 DEF Footers, FooterAccepted
      <4> QED
        BY <2>1, <4>1 DEF FooterAccepted, FlagsInv
    <3>2. CASE CurrParent.pipe = <<>>
      BY <1>1, <2>2, <3>2 DEF Admitted
    <3> QED
      BY <3>1, <3>2
  <2>5. /\ Admitted(parents', pos', forgiven)
        /\ UNCHANGED <<forgiving, forgiven>>
        /\ ret' = ret \/ ret' = "null"
    <3>1. CASE reply
      <4>1. /\ parents' = Counted(stack) /\ ret' = ret
            /\ UNCHANGED <<forgiving, forgiven>>
        BY <1>13, <3>1 DEF EndContainer, ThenCheck
      <4>2. Admitted(Counted(stack), pos', forgiven)
        BY <2>2, <2>3, AdmittedKept
      <4> QED
        BY <4>1, <4>2
    <3>2. CASE ~reply
      <4>1. Abort(stack, src)
        BY <1>13, <3>2 DEF EndContainer
      <4> QED
        BY <2>3, <4>1, AdmittedAbort
    <3> QED
      BY <3>1, <3>2
  <2> QED
    BY <2>4, <2>5 DEF FlagsInv
<1>14. ASSUME NEW reply \in BOOLEAN, EndOfStream(reply)
       PROVE  FlagsInv'
  <2>1. /\ parents' = <<>> /\ UNCHANGED <<forgiving, forgiven, footer>>
        /\ ret' = ret \/ ret' = "null"
    BY <1>14 DEF EndOfStream, CallOver
  <2>2. Admitted(<<>>, pos', forgiven)
    BY DEF Admitted
  <2> QED
    BY <1>3, <2>1, <2>2
<1> QED
  BY <1>4, <1>5, <1>6, <1>7, <1>8, <1>9, <1>10, <1>11, <1>12, <1>13, <1>14
  DEF Read

(* The flags are accounted for in every reachable state.                   *)
LEMMA FlagsInvariant == Spec => []FlagsInv
<1>1. FlagsInv /\ UNCHANGED vars => FlagsInv'
  BY DEF FlagsInv, UnvalidatedOnlyIfForgiven, vars, readerVars, historyVars
<1>2. TypeOK /\ FlagsInv /\ [Next]_vars => FlagsInv'
  BY <1>1, CallFlags, ReadFlags DEF Next
<1> QED
  BY InitFlags, <1>2, TypeCorrect, PTL DEF Spec

(* No container with a digest reaches the sink unvalidated unless a caller *)
(* has asked for that: check_end_of_container and proc_container_flags.    *)
THEOREM UnvalidatedOnlyWhenForgiven == Spec => []UnvalidatedOnlyIfForgiven
<1>1. FlagsInv => UnvalidatedOnlyIfForgiven
  BY DEF FlagsInv
<1> QED
  BY <1>1, FlagsInvariant, PTL

-----------------------------------------------------------------------------
(* The stream of events.                                                   *)

(* An end of f is due: it has the children it announced, or that has been  *)
(* forgiven.                                                               *)
EndDue(f) ==
    ChildCount(f) \in {-1, f.read} \/ "PrematureEndOfContainer" \in forgiven

(* Until the stream is cut the reader and the sink have the same           *)
(* containers open, and a record is read only where a child may be missing *)
(* still.                                                                  *)
StreamInv ==
    /\ phase # "cut" => InStep(parents, open, forgiven)
    /\ phase = "ended" => parents = <<>>
    /\ phase = "live" =>
          /\ parents # <<>>
          /\ Counting(parents)
          /\ pc \in {"idle", "step", "return"} => ~Full(CurrParent)
          /\ pc = "end" => EndDue(CurrParent)

(* Forgiving more keeps reader and sink in step.                           *)
LEMMA InStepMore ==
    ASSUME NEW s, NEW o, NEW flags, NEW more, flags \subseteq more,
           InStep(s, o, flags)
    PROVE  InStep(s, o, more)
BY DEF InStep

(* A stream that has been cut stays so.                                    *)
LEMMA CutStays ==
    ASSUME phase = "cut", Next
    PROVE  phase' = "cut"
<1>1. ASSUME NEW stack, NEW src, Abort(stack, src)
      PROVE  phase' = "cut"
  BY <1>1 DEF Abort
<1>2. ASSUME NEW r, ThenCheck(r)
      PROVE  phase' = "cut"
  BY <1>2 DEF ThenCheck
<1>3. CASE Call
  BY <1>3 DEF Call, ReadAll, ReadNext, Close, Crashed, SetForgivingFor,
              historyVars, vars
<1>4. CASE Read
  <2>1. CASE StepAtEnd \/ CheckFull \/ CheckDone \/ Return
    BY <2>1 DEF StepAtEnd, CheckFull, CheckDone, Return, historyVars
  <2>2. CASE ReadEof \/ FooterEof
    BY <1>1, <2>2 DEF ReadEof, FooterEof
  <2>3. ASSUME NEW t, RejectToken(t) \/ ReadEoc(t) \/ SkipAppblob(t)
        PROVE  phase' = "cut"
    BY <1>1, <1>2, <2>3 DEF RejectToken, ReadEoc, SkipAppblob, historyVars
  <2>4. ASSUME NEW t, NEW reply \in BOOLEAN,
               PushNode(t, reply) \/ StartContainer(t, reply)
        PROVE  phase' = "cut"
    BY <1>1, <1>2, <2>4 DEF PushNode, StartContainer
  <2>5. ASSUME NEW foot, RejectFooter(foot)
        PROVE  phase' = "cut"
    BY <1>1, <2>5 DEF RejectFooter
  <2>6. ASSUME NEW foot, NEW reply \in BOOLEAN, EndContainer(foot, reply)
        PROVE  phase' = "cut"
    BY <1>1, <1>2, <2>6 DEF EndContainer
  <2>7. ASSUME NEW reply \in BOOLEAN, EndOfStream(reply)
        PROVE  phase' = "cut"
    BY <2>7 DEF EndOfStream
  <2> QED
    BY <1>4, <2>1, <2>2, <2>3, <2>4, <2>5, <2>6, <2>7 DEF Read
<1> QED
  BY <1>3, <1>4 DEF Next

(* An exception cuts a stream that was live.                               *)
LEMMA AbortCuts ==
    ASSUME phase = "live", NEW stack, NEW src, Abort(stack, src)
    PROVE  phase' = "cut"
BY DEF Abort

(* A new reader is in step with its sink.                                  *)
LEMMA InitStream == Init => StreamInv
<1> SUFFICES ASSUME Init PROVE StreamInv
  OBVIOUS
<1>1. /\ parents = <<RootFrame>> /\ Len(parents) = 1 /\ parents[1] = RootFrame
      /\ CurrParent = RootFrame /\ parents # <<>>
      /\ open = <<>> /\ Len(open) = 0 /\ phase = "live" /\ pc = "idle"
  BY DEF Init, CurrParent, Last
<1>2. ChildCount(RootFrame) = -1
  BY DEF RootFrame, ChildCount
<1>3. ~Full(RootFrame)
  BY DEF Full, RootFrame
<1>4. InStep(parents, open, forgiven)
  BY <1>1 DEF InStep
<1>5. Counting(parents)
  BY <1>1, <1>2 DEF Counting
<1> QED
  BY <1>1, <1>3, <1>4, <1>5 DEF StreamInv

(* The calls.                                                              *)
LEMMA CallStream == TypeOK /\ StreamInv /\ pc = "idle" /\ Call => StreamInv'
<1> SUFFICES ASSUME TypeOK, StreamInv, pc = "idle", Call PROVE StreamInv'
  OBVIOUS
<1>1. CASE phase = "cut"
  <2>1. phase' = "cut"
    BY <1>1, CutStays DEF Next
  <2> QED
    BY <2>1 DEF StreamInv
<1>2. ASSUME UNCHANGED <<parents, open, phase>>, forgiven \subseteq forgiven',
             pc' \in {"idle", "step"}, phase # "cut"
      PROVE  StreamInv'
  <2>1. InStep(parents, open, forgiven')
    BY <1>2, InStepMore DEF StreamInv
  <2>2. CurrParent' = CurrParent
    BY <1>2 DEF CurrParent
  <2>3. pc' # "end"
    BY <1>2
  <2> QED
    BY <1>2, <2>1, <2>2, <2>3 DEF StreamInv
<1>3. CASE phase # "cut" /\ Close
  <2>1. CASE phase = "live" /\ "source" \in held
    BY <1>3, <2>1 DEF Close, StreamInv
  <2>2. CASE phase = "ended" /\ "source" \in held
    <3>1. UNCHANGED <<parents, open, phase, forgiven, pc>>
      BY <1>3, <2>2 DEF Close, Cleanup, StreamInv
    <3> QED
      BY <1>2, <1>3, <3>1
  <2>3. CASE "source" \notin held
    <3>1. UNCHANGED <<parents, open, phase, forgiven, pc>>
      BY <1>3, <2>3 DEF Close
    <3> QED
      BY <1>2, <1>3, <3>1
  <2> QED
    BY <1>3, <2>1, <2>2, <2>3 DEF TypeOK
<1>4. CASE phase # "cut" /\ (ReadAll \/ ReadNext \/ Crashed)
  <2>1. UNCHANGED <<parents, open, phase, forgiven>> /\ pc' \in {pc, "step"}
    BY <1>4 DEF ReadAll, ReadNext, Crashed, vars, readerVars, historyVars
  <2> QED
    BY <1>2, <1>4, <2>1
<1>5. ASSUME NEW flags, NEW on, phase # "cut", SetForgivingFor(flags, on)
      PROVE  StreamInv'
  BY <1>2, <1>5 DEF SetForgivingFor
<1> QED
  BY <1>1, <1>3, <1>4, <1>5 DEF Call

(* The stack after a read, and what may be counted in it.                  *)
LEMMA ReadingStream ==
    ASSUME TypeOK, parents # <<>>, InStep(parents, open, forgiven), Counting(parents)
    PROVE  LET fed == Fed(parents, source)
           IN  /\ fed \in Seq(FrameType) /\ fed # <<>>
               /\ InStep(fed, open, forgiven) /\ Counting(fed)
               /\ Misses(CurrParent) => Misses(Last(fed))
               /\ EndDue(CurrParent) => EndDue(Last(fed))
<1>1. /\ parents \in Seq(FrameType) /\ Alike(parents, Fed(parents, source))
      /\ open \in Seq(OpenType)
  BY FedAlike DEF TypeOK
<1> DEFINE fed == Fed(parents, source)
<1> HIDE DEF fed
<1>2. InStep(fed, open, forgiven)
  BY <1>1, InStepAlike DEF fed
<1>3. Counting(fed)
  BY <1>1, CountingAlike DEF fed
<1>4. /\ fed # <<>> /\ ChildCount(Last(fed)) = ChildCount(CurrParent)
      /\ Last(fed).read = CurrParent.read
  BY <1>1, AlikeLast DEF fed, CurrParent
<1>5. /\ Misses(CurrParent) => Misses(Last(fed))
      /\ EndDue(CurrParent) => EndDue(Last(fed))
  BY <1>4 DEF Misses, EndDue
<1>6. fed \in Seq(FrameType)
  BY <1>1 DEF Alike, fed
<1> QED
  BY <1>2, <1>3, <1>4, <1>5, <1>6 DEF fed

(* A marker that is accepted ends a container that may end.                *)
LEMMA EocDue ==
    ASSUME NEW t, t.kind = "eoc", ~Rejected(t), forgiving \subseteq forgiven
    PROVE  EndDue(CurrParent)
BY DEF Rejected, EocAccepted, EndDue

(* The steps of a call.                                                    *)
LEMMA ReadStream == TypeOK /\ FlagsInv /\ StreamInv /\ Read => StreamInv'
<1> SUFFICES ASSUME TypeOK, FlagsInv, StreamInv, Read PROVE StreamInv'
  OBVIOUS
<1>1. CASE phase = "cut"
  <2>1. phase' = "cut"
    BY <1>1, CutStays DEF Next
  <2> QED
    BY <2>1 DEF StreamInv
<1>2. CASE phase = "ended"
  <2>1. parents = <<>> /\ InStep(<<>>, open, forgiven)
    BY <1>2 DEF StreamInv
  <2>2. Len(parents) = 0
    BY <2>1
  <2>3. StepAtEnd \/ CheckFull \/ CheckDone \/ Return
    BY <2>1, <2>2 DEF Read, ReadEof, RejectToken, ReadEoc, SkipAppblob, PushNode,
       StartContainer, FooterEof, RejectFooter, EndContainer, EndOfStream,
       Reading, Stepping, Ending
  <2>4. UNCHANGED <<parents, open, phase, forgiven>>
    BY <2>3 DEF StepAtEnd, CheckFull, CheckDone, Return, historyVars
  <2> QED
    BY <1>2, <2>1, <2>4 DEF StreamInv
<1>3. ASSUME phase = "live"
      PROVE  StreamInv'
  <2> DEFINE fed == Fed(parents, source)
  <2>1. /\ parents # <<>> /\ InStep(parents, open, forgiven) /\ Counting(parents)
        /\ parents \in Seq(FrameType) /\ open \in Seq(OpenType)
        /\ forgiving \subseteq forgiven
    BY <1>3 DEF StreamInv, TypeOK, FlagsInv
  <2>2. /\ fed \in Seq(FrameType) /\ fed # <<>>
        /\ InStep(fed, open, forgiven) /\ Counting(fed)
        /\ Misses(CurrParent) => Misses(Last(fed))
        /\ EndDue(CurrParent) => EndDue(Last(fed))
    BY <2>1, ReadingStream
  <2> HIDE DEF fed
  <2>3. ASSUME phase' = "cut"
        PROVE  StreamInv'
    BY <2>3 DEF StreamInv
  <2>4. ASSUME NEW stack, NEW src, Abort(stack, src)
        PROVE  StreamInv'
    BY <1>3, <2>3, <2>4, AbortCuts
  <2>5. ASSUME pc' = "check", phase' = phase,
               parents' # <<>>, InStep(parents', open', forgiven'), Counting(parents')
        PROVE  StreamInv'
    BY <1>3, <2>5 DEF StreamInv
  <2>6. CASE StepAtEnd
    BY <2>1, <2>6 DEF StepAtEnd
  <2>7. CASE ReadEof \/ FooterEof
    BY <2>4, <2>7 DEF ReadEof, FooterEof
  <2>8. ASSUME NEW t, RejectToken(t)
        PROVE  StreamInv'
    BY <2>4, <2>8 DEF RejectToken
  <2>9. ASSUME NEW t, ReadEoc(t)
        PROVE  StreamInv'
    <3>1. EndDue(CurrParent)
      BY <2>1, <2>9, EocDue DEF ReadEoc
    <3>2. /\ parents' = fed /\ pc' = "end"
          /\ UNCHANGED <<open, phase, forgiven>>
      BY <2>9 DEF ReadEoc, historyVars, fed
    <3>3. EndDue(CurrParent)'
      BY <2>2, <3>1, <3>2 DEF EndDue, CurrParent
    <3> QED
      BY <1>3, <2>2, <3>2, <3>3 DEF StreamInv
  <2>10. ASSUME NEW t, Stepping, t.kind # "eoc", ~Rejected(t)
         PROVE  Misses(Last(fed))
    <3>1. ~Full(CurrParent)
      BY <1>3, <2>10 DEF StreamInv, Stepping
    <3> QED
      BY <2>1, <2>2, <2>10, <3>1, AcceptedMisses
  <2>11. ASSUME NEW t, SkipAppblob(t)
         PROVE  StreamInv'
    <3>1. /\ parents' = Counted(fed) /\ pc' = "check"
          /\ UNCHANGED <<open, phase, forgiven>>
          /\ Misses(Last(fed)) /\ "UnknownAppblobs" \in forgiven
      BY <2>1, <2>10, <2>11
      DEF SkipAppblob, Reading, ThenCheck, Rejected, fed
    <3>2. Counted(fed) # <<>>
      BY <2>2, CountedRead, EmptySeq
    <3>3. Counting(Counted(fed)) /\ InStep(Counted(fed), open, forgiven)
      BY <2>1, <2>2, <3>1, CountingCounted, InStepSkipped
    <3> QED
      BY <2>5, <3>1, <3>2, <3>3
  <2>12. ASSUME NEW t, NEW reply \in BOOLEAN, PushNode(t, reply)
         PROVE  StreamInv'
    <3>1. CASE reply
      <4>1. /\ parents' = Counted(fed) /\ pc' = "check"
            /\ UNCHANGED <<phase, forgiven>>
            /\ open' = SinkCounted(open)
        BY <2>12, <3>1 DEF PushNode, ThenCheck, fed
      <4>2. Misses(Last(fed))
        BY <2>10, <2>12 DEF PushNode, Reading
      <4>3. Counted(fed) # <<>>
        BY <2>2, CountedRead, EmptySeq
      <4>4. Counting(Counted(fed)) /\ InStep(Counted(fed), SinkCounted(open), forgiven)
        BY <2>1, <2>2, <4>2, CountingCounted, InStepCounted
      <4> QED
        BY <2>5, <4>1, <4>3, <4>4
    <3>2. CASE ~reply
      BY <2>4, <2>12, <3>2 DEF PushNode
    <3> QED
      BY <3>1, <3>2
  <2>13. ASSUME NEW t \in Tokens, NEW reply \in BOOLEAN, StartContainer(t, reply)
         PROVE  StreamInv'
    <3> DEFINE f == Frame(t)
    <3>1. CASE reply
      <4>1. /\ parents' = Append(fed, f) /\ pc' = "check"
            /\ UNCHANGED <<phase, forgiven>>
            /\ open' = Append(open, SinkOpen(f))
        BY <2>13, <3>1 DEF StartContainer, ThenCheck, fed
      <4>2. Misses(Last(fed))
        BY <2>10, <2>13 DEF StartContainer, Reading
      <4>3. t \in Headers
        BY <2>13 DEF StartContainer, Tokens
      <4>4. f \in FrameType /\ f.read = 0
        BY <4>3, NewFrameType DEF Frame, NewFrame, TypeOK
      <4>5. SinkOpen(f) \in OpenType
        BY <4>4, Fields DEF SinkOpen, OpenType
      <4> HIDE DEF f
      <4>6. Append(fed, f) # <<>>
        BY <2>2, <4>4, AppendProperties, EmptySeq
      <4>7. /\ Counting(Append(fed, f))
            /\ InStep(Append(fed, f), Append(open, SinkOpen(f)), forgiven)
        BY <2>1, <2>2, <4>2, <4>4, <4>5, CountingPush, InStepPush
      <4> QED
        BY <2>5, <4>1, <4>6, <4>7
    <3>2. CASE ~reply
      BY <2>4, <2>13, <3>2 DEF StartContainer
    <3> QED
      BY <3>1, <3>2
  <2>14. CASE CheckFull
    <3>1. /\ UNCHANGED <<parents, open, phase, forgiven>> /\ pc' = "end"
          /\ Full(CurrParent)
      BY <2>14 DEF CheckFull, ParentFull, historyVars
    <3>2. EndDue(CurrParent)'
      BY <3>1 DEF EndDue, Full, CurrParent
    <3> QED
      BY <1>3, <2>1, <3>1, <3>2 DEF StreamInv
  <2>15. CASE CheckDone \/ Return
    <3>1. /\ UNCHANGED <<parents, open, phase, forgiven>> /\ pc' # "end"
          /\ ~Full(CurrParent)
      BY <1>3, <2>1, <2>15
      DEF CheckDone, Return, CallOver, ParentFull, historyVars, StreamInv
    <3>2. ~Full(CurrParent)'
      BY <3>1 DEF CurrParent
    <3> QED
      BY <1>3, <2>1, <3>1, <3>2 DEF StreamInv
  <2>16. ASSUME NEW foot, RejectFooter(foot)
         PROVE  StreamInv'
    BY <2>4, <2>16 DEF RejectFooter
  <2>17. ASSUME NEW foot, NEW reply \in BOOLEAN, EndContainer(foot, reply)
         PROVE  StreamInv'
    <3> DEFINE below == StackBelow(CurrParent)
    <3>1. CASE reply
      <4>1. /\ Len(parents) > 1
            /\ parents' = Counted(below) /\ pc' = "check"
            /\ UNCHANGED <<phase, forgiven>>
            /\ open' = SinkCounted(Front(open))
        BY <2>17, <3>1 DEF EndContainer, Ending, ThenCheck
      <4>2. /\ below \in Seq(FrameType) /\ below # <<>>
            /\ Front(parents) \in Seq(FrameType) /\ Front(parents) # <<>>
        BY <4>1, StackBelowFacts
      <4>3. Alike(Front(parents), below)
        BY <4>2, FedAlike DEF StackBelow, Alike
      <4>4. /\ Counting(Front(parents)) /\ Misses(Last(Front(parents)))
            /\ Front(open) \in Seq(OpenType)
            /\ InStep(Front(parents), Front(open), forgiven)
        BY <2>1, <4>1, CountingPop, InStepPop
      <4> HIDE DEF below
      <4>5. Counting(below) /\ Misses(Last(below))
        <5>1. /\ ChildCount(Last(below)) = ChildCount(Last(Front(parents)))
              /\ Last(below).read = Last(Front(parents)).read
          BY <4>2, <4>3, AlikeLast
        <5> QED
          BY <4>3, <4>4, <5>1, CountingAlike DEF Misses
      <4>6. InStep(below, Front(open), forgiven)
        BY <4>3, <4>4, InStepAlike
      <4>7. Counted(below) # <<>>
        BY <4>2, CountedRead, EmptySeq
      <4>8. Counting(Counted(below)) /\ InStep(Counted(below), SinkCounted(Front(open)), forgiven)
        BY <4>2, <4>4, <4>5, <4>6, CountingCounted, InStepCounted
      <4> QED
        BY <2>5, <4>1, <4>7, <4>8
    <3>2. CASE ~reply
      BY <2>4, <2>17, <3>2 DEF EndContainer
    <3> QED
      BY <3>1, <3>2
  <2>18. ASSUME NEW reply \in BOOLEAN, EndOfStream(reply)
         PROVE  StreamInv'
    <3>1. /\ parents' = <<>> /\ phase' = "ended" /\ Len(parents) = 1
          /\ UNCHANGED <<open, forgiven>>
      BY <1>3, <2>18 DEF EndOfStream
    <3>2. InStep(<<>>, open, forgiven)
      <4>1. Len(open) = 0
        BY <2>1, <3>1 DEF InStep
      <4> QED
        BY <4>1 DEF InStep
    <3> QED
      BY <3>1, <3>2 DEF StreamInv
  <2> QED
    BY <2>6, <2>7, <2>8, <2>9, <2>11, <2>12, <2>13, <2>14, <2>15, <2>16, <2>17, <2>18
    DEF Read
<1> QED
  BY <1>1, <1>2, <1>3 DEF TypeOK

-----------------------------------------------------------------------------
(* The calls.                                                              *)

(* Between the calls nothing runs.  A read_next takes a node in its first  *)
(* read_step; it then stays below the depth it has noted, if that is       *)
(* deeper than the depth it began at and no appblob is skipped.            *)
CallInv ==
    /\ pc = "idle" <=> api \in {"none", "crashed"}
    /\ api # "read_next" => wait = 0 /\ local = NoLocal
    /\ "UnknownAppblobs" \notin forgiven =>
          /\ wait = 0 \/ wait > local.base => local.taken <= 1
          /\ api = "read_next" /\ pc = "step" =>
                /\ wait = 0 => local.taken = 0 \/ parents = <<>>
                /\ wait > 0 => Len(parents) >= wait

(* The end of a call.                                                      *)
LEMMA CallOverInv ==
    ASSUME CallOver
    PROVE  CallInv'
<1>1. pc' = "idle" /\ api' = "none" /\ local' = NoLocal /\ wait' = 0
  BY DEF CallOver
<1>2. NoLocal.taken = 0
  BY DEF NoLocal
<1> QED
  BY <1>1, <1>2 DEF CallInv

(* The calls.                                                              *)
LEMMA CallCall == TypeOK /\ CallInv /\ Call => CallInv'
<1> SUFFICES ASSUME TypeOK, CallInv, Call PROVE CallInv'
  OBVIOUS
<1>1. CASE ReadAll
  BY <1>1 DEF ReadAll, CanCall, CallInv, historyVars
<1>2. CASE ReadNext
  <2>1. /\ pc' = "step" /\ api' = "read_next" /\ wait' = wait
        /\ UNCHANGED <<parents, forgiven>>
        /\ local' = [base |-> Len(parents), taken |-> 0] /\ wait = 0
    BY <1>2 DEF ReadNext, CanCall, CallInv
  <2>2. local'.taken = 0 /\ local'.base = Len(parents)
    BY <2>1
  <2> QED
    BY <2>1, <2>2 DEF CallInv
<1>3. CASE Close
  <2>1. /\ UNCHANGED <<pc, wait, forgiven, local>> /\ pc = "idle"
        /\ api = "none" /\ api' \in {"none", "crashed"}
    BY <1>3 DEF Close, CallInv
  <2> QED
    BY <2>1 DEF CallInv
<1>4. CASE Crashed
  BY <1>4 DEF Crashed, CallInv, vars, readerVars, historyVars
<1>5. ASSUME NEW flags, NEW on, SetForgivingFor(flags, on)
      PROVE  CallInv'
  <2>1. /\ UNCHANGED <<parents, pc, api, wait, local>> /\ forgiven \subseteq forgiven'
        /\ api = "none"
    BY <1>5 DEF SetForgivingFor
  <2> QED
    BY <2>1 DEF CallInv
<1> QED
  BY <1>1, <1>2, <1>3, <1>4, <1>5 DEF Call

(* The steps of a call.                                                    *)
LEMMA ReadCall == TypeOK /\ FlagsInv /\ CallInv /\ Read => CallInv'
<1> SUFFICES ASSUME TypeOK, FlagsInv, CallInv, Read PROVE CallInv'
  OBVIOUS
<1> DEFINE free == "UnknownAppblobs" \notin forgiven
<1>1. /\ local.base \in Nat /\ local.taken \in Nat /\ wait \in Nat
      /\ Len(parents) \in Nat
  BY LenProperties DEF TypeOK
<1>2. ASSUME NEW stack, NEW src, Abort(stack, src)
      PROVE  CallInv'
  BY <1>2, CallOverInv DEF Abort
<1>3. ASSUME pc # "idle", pc' \in {"check", "end", "return"},
             UNCHANGED <<api, wait, forgiven, local>>
      PROVE  CallInv'
  <2>1. pc' # "idle" /\ pc' # "step"
    BY <1>3
  <2> QED
    BY <1>3, <2>1 DEF CallInv
<1>4. CASE StepAtEnd \/ CheckFull
  BY <1>3, <1>4 DEF StepAtEnd, CheckFull, historyVars
<1>5. CASE ReadEof \/ FooterEof
  BY <1>2, <1>5 DEF ReadEof, FooterEof
<1>6. ASSUME NEW t, RejectToken(t)
      PROVE  CallInv'
  BY <1>2, <1>6 DEF RejectToken
<1>7. ASSUME NEW t, ReadEoc(t)
      PROVE  CallInv'
  BY <1>3, <1>7 DEF ReadEoc, Reading, Stepping, historyVars
<1>8. ASSUME NEW t, SkipAppblob(t)
      PROVE  CallInv'
  BY <1>3, <1>8 DEF SkipAppblob, Reading, Stepping, ThenCheck
<1>9. ASSUME Stepping, pc' = "check", local' = Taken,
             UNCHANGED <<api, wait, forgiven>>
      PROVE  CallInv'
  <2>1. pc = "step" /\ parents # <<>>
    BY <1>9 DEF Stepping
  <2>2. CASE api = "read_next" /\ Len(parents) <= local.base
    <3>1. local'.base = local.base /\ local'.taken = local.taken + 1
      <4>1. local \in [base: Nat, taken: Nat]
        BY DEF TypeOK
      <4> QED
        BY <1>9, <2>2, <4>1 DEF Taken
    <3>2. free /\ wait = 0 => local.taken = 0
      BY <2>1, <2>2 DEF CallInv
    <3>3. free /\ wait > 0 => Len(parents) >= wait
      BY <2>1, <2>2 DEF CallInv
    <3>4. free => ~(wait > local.base) \/ wait = 0
      BY <1>1, <2>2, <3>3
    <3>5. free /\ (wait = 0 \/ wait > local.base) => local.taken + 1 <= 1
      BY <1>1, <3>2, <3>4
    <3> QED
      BY <1>9, <2>1, <2>2, <3>1, <3>5 DEF CallInv
  <2>3. CASE ~(api = "read_next" /\ Len(parents) <= local.base)
    <3>1. local' = local
      BY <1>9, <2>3 DEF Taken
    <3> QED
      BY <1>3, <1>9, <2>1, <3>1
  <2> QED
    BY <2>2, <2>3
<1>10. ASSUME NEW t, NEW reply \in BOOLEAN, PushNode(t, reply)
       PROVE  CallInv'
  BY <1>2, <1>9, <1>10 DEF PushNode, Reading, ThenCheck
<1>11. ASSUME NEW t, NEW reply \in BOOLEAN, StartContainer(t, reply)
       PROVE  CallInv'
  BY <1>2, <1>9, <1>11 DEF StartContainer, Reading, ThenCheck
<1>12. CASE CheckDone
  <2>1. CASE ret = "again"
    <3>1. pc' = "step" /\ UNCHANGED <<parents, api, wait, forgiven, local>>
          /\ pc # "idle" /\ ~free
      BY <1>12, <2>1 DEF CheckDone, historyVars, FlagsInv
    <3> QED
      BY <3>1 DEF CallInv
  <2>2. CASE ret # "again"
    BY <1>3, <1>12, <2>2 DEF CheckDone, historyVars
  <2> QED
    BY <2>1, <2>2
<1>13. ASSUME NEW foot, RejectFooter(foot)
       PROVE  CallInv'
  BY <1>2, <1>13 DEF RejectFooter
<1>14. ASSUME NEW foot, NEW reply \in BOOLEAN, EndContainer(foot, reply)
       PROVE  CallInv'
  BY <1>2, <1>3, <1>14 DEF EndContainer, Ending, ThenCheck
<1>15. ASSUME NEW reply \in BOOLEAN, EndOfStream(reply)
       PROVE  CallInv'
  <2>1. CASE reply
    BY <1>3, <1>15, <2>1 DEF EndOfStream
  <2>2. CASE ~reply
    BY <1>15, <2>2, CallOverInv DEF EndOfStream
  <2> QED
    BY <2>1, <2>2
<1>16. CASE Return
  <2>1. CASE LoopOver
    BY <1>16, <2>1, CallOverInv DEF Return
  <2>2. CASE ~LoopOver
    <3>1. /\ pc = "return" /\ pc' = "step"
          /\ wait' = IF api = "read_next" /\ wait = 0 THEN Len(parents) ELSE wait
          /\ UNCHANGED <<parents, api, forgiven, local>>
      BY <1>16, <2>2 DEF Return
    <3>2. CASE api # "read_next"
      BY <3>1, <3>2 DEF CallInv
    <3>3. CASE api = "read_next" /\ wait = 0
      <4>1. wait' = Len(parents) /\ (wait' = 0 => parents = <<>>)
        BY <3>1, <3>3, EmptySeq DEF TypeOK
      <4>2. free => local.taken <= 1
        BY <3>3 DEF CallInv
      <4>3. Len(parents) >= wait'
        BY <1>1, <4>1
      <4>4. pc' # "idle" /\ api \notin {"none", "crashed"}
        BY <3>1, <3>3
      <4> QED
        BY <3>1, <3>3, <4>1, <4>2, <4>3, <4>4 DEF CallInv
    <3>4. CASE api = "read_next" /\ wait # 0
      <4>1. wait' = wait /\ Len(parents) >= wait
        BY <1>1, <2>2, <3>1, <3>4 DEF LoopOver
      <4>2. pc' # "idle" /\ api \notin {"none", "crashed"}
        BY <3>1, <3>4
      <4> QED
        BY <3>1, <3>4, <4>1, <4>2 DEF CallInv
    <3> QED
      BY <3>2, <3>3, <3>4
  <2> QED
    BY <2>1, <2>2
<1> QED
  BY <1>4, <1>5, <1>6, <1>7, <1>8, <1>10, <1>11, <1>12, <1>13, <1>14, <1>15, <1>16
  DEF Read

(* What the calls and the stream keep, in every reachable state.           *)
LEMMA StreamInvariant == Spec => [](CallInv /\ StreamInv)
<1>1. Init => CallInv /\ StreamInv
  <2>1. Init => CallInv
    BY DEF Init, CallInv, NoLocal
  <2> QED
    BY <2>1, InitStream
<1>2. CallInv /\ StreamInv /\ UNCHANGED vars => CallInv' /\ StreamInv'
  <2> SUFFICES ASSUME CallInv, StreamInv, UNCHANGED vars PROVE CallInv' /\ StreamInv'
    OBVIOUS
  <2>1. CallInv'
    BY DEF CallInv, vars, readerVars, historyVars
  <2>2. /\ UNCHANGED <<parents, pc, open, phase, forgiven>>
        /\ CurrParent' = CurrParent
    BY DEF vars, readerVars, historyVars, CurrParent
  <2>3. EndDue(CurrParent)' <=> EndDue(CurrParent)
    BY <2>2 DEF EndDue
  <2> QED
    BY <2>1, <2>2, <2>3 DEF StreamInv
<1>3. TypeOK /\ FlagsInv /\ (CallInv /\ StreamInv) /\ [Next]_vars
         => (CallInv /\ StreamInv)'
  <2> SUFFICES ASSUME TypeOK, FlagsInv, CallInv, StreamInv, [Next]_vars
               PROVE  CallInv' /\ StreamInv'
    OBVIOUS
  <2>1. CASE Read
    BY <2>1, ReadCall, ReadStream
  <2>2. CASE Call
    <3>1. pc = "idle"
      BY <2>2 DEF Call, ReadAll, ReadNext, CanCall, Close, Crashed, SetForgivingFor,
                  CallInv
    <3> QED
      BY <2>2, <3>1, CallCall, CallStream
  <2> QED
    BY <1>2, <2>1, <2>2 DEF Next
<1> QED
  BY <1>1, <1>3, TypeCorrect, FlagsInvariant, PTL DEF Spec

(* Reader and sink agree on the open containers and their children, as     *)
(* long as the stream is not cut: push_node and start_container are called *)
(* for what read_child_count counts, end_container for what leaves         *)
(* _parent_stack.                                                          *)
THEOREM SinkAlwaysInStep == Spec => []SinkInStep
<1>1. TypeOK /\ StreamInv => SinkInStep
  <2> SUFFICES ASSUME TypeOK, StreamInv, phase # "cut"
               PROVE  /\ Len(open) = IF parents = <<>> THEN 0 ELSE Len(parents) - 1
                      /\ \A i \in DOMAIN open :
                            /\ open[i].id = parents[i + 1].id
                            /\ open[i].children <= parents[i + 1].read
                            /\ "UnknownAppblobs" \notin forgiven
                                 => open[i].children = parents[i + 1].read
    BY DEF SinkInStep
  <2>1. DOMAIN open = 1..Len(open)
    BY DEF TypeOK
  <2> QED
    BY <2>1 DEF StreamInv, InStep
<1> QED
  BY <1>1, TypeCorrect, StreamInvariant, PTL

(* No container gets more children than announced, and none that is full   *)
(* and unarmored is read on: read_step and check_end_of_container.         *)
THEOREM ChildCountsAlwaysBounded == Spec => []ChildCountsBounded
<1>1. TypeOK /\ StreamInv => ChildCountsBounded
  <2> SUFFICES ASSUME TypeOK, StreamInv, phase = "live"
               PROVE  /\ \A i \in DOMAIN parents :
                            ChildCount(parents[i]) >= 0
                               => parents[i].read <= ChildCount(parents[i])
                      /\ pc \in {"step", "idle"}
                            => \A i \in DOMAIN parents : ~Full(parents[i])
    BY DEF ChildCountsBounded
  <2> DEFINE n == Len(parents)
  <2>1. /\ DOMAIN parents = 1..n /\ n \in Nat /\ CurrParent = parents[n]
        /\ \A i \in 1..n : parents[i] \in FrameType
        /\ Counting(parents)
    BY LenProperties DEF TypeOK, StreamInv, CurrParent, Last
  <2> HIDE DEF n
  <2>2. \A i \in 1..n : i = n \/ i \in 1..(n - 1)
    BY <2>1
  <2>3. \A i \in 1..(n - 1) : ~Full(parents[i])
    <3>1. \A i \in 1..(n - 1) : i \in 1..n /\ Misses(parents[i])
      BY <2>1 DEF Counting, n
    <3> QED
      BY <2>1, <3>1, MissesNotFull
  <2> QED
    BY <2>1, <2>2, <2>3 DEF StreamInv, Counting, n
<1> QED
  BY <1>1, TypeCorrect, StreamInvariant, PTL

(* A read_next that has noted the depth of a container it opened reads no  *)
(* sibling of it, unless it skipped appblobs (the while of read_next).     *)
THEOREM ReadNextAlwaysKeepsToItsDepth == Spec => []ReadNextKeepsToItsDepth
<1>1. TypeOK /\ CallInv => ReadNextKeepsToItsDepth
  <2> SUFFICES ASSUME TypeOK, CallInv, local.taken > 1, ~(wait <= local.base)
               PROVE  "UnknownAppblobs" \in forgiven
    BY DEF ReadNextKeepsToItsDepth
  <2>1. local.base \in Nat /\ local.taken \in Nat /\ wait \in Nat
    BY DEF TypeOK
  <2>2. wait > local.base /\ ~(local.taken <= 1)
    BY <2>1
  <2> QED
    BY <2>2 DEF CallInv
<1> QED
  BY <1>1, TypeCorrect, StreamInvariant, PTL

-----------------------------------------------------------------------------
(* The reader implements StreamProtocol.                                   *)

(* The counts that headers can announce.                                   *)
AnnouncedCounts == {-1} \cup {ToInt32(n) : n \in Sizes}
Announced == \A i \in 1..Len(open) : open[i].count \in AnnouncedCounts

(* Callers that leave a reader alone once read_next has thrown.            *)
QuietWhenCut == phase = "cut" => parents = <<>> \/ pc = "idle"

(* Without a container nothing is read.                                    *)
LEMMA NothingIsRead ==
    ASSUME TypeOK, parents = <<>>, Read
    PROVE  UNCHANGED <<parents, open, phase>>
<1>1. Len(parents) = 0
  OBVIOUS
<1>2. StepAtEnd \/ CheckFull \/ CheckDone \/ Return
  BY <1>1 DEF Read, ReadEof, RejectToken, ReadEoc, SkipAppblob, PushNode,
     StartContainer, FooterEof, RejectFooter, EndContainer, EndOfStream,
     Reading, Stepping, Ending
<1> QED
  BY <1>2 DEF StepAtEnd, CheckFull, CheckDone, Return, historyVars

(* Nothing runs between the calls.                                         *)
LEMMA ReadRuns ==
    ASSUME Read
    PROVE  pc # "idle"
BY DEF Read, ReadEof, RejectToken, ReadEoc, SkipAppblob, PushNode,
   StartContainer, FooterEof, RejectFooter, EndContainer, EndOfStream,
   Reading, Stepping, Ending, StepAtEnd, CheckFull, CheckDone, Return

(* The calls send no event, and only close ends a stream.                  *)
LEMMA CallEvents ==
    ASSUME Call
    PROVE  /\ UNCHANGED open
           /\ phase' = phase \/ (phase = "live" /\ phase' = "cut")
BY DEF Call, ReadAll, ReadNext, Close, Crashed, SetForgivingFor, vars, historyVars

(* A cut stream stays quiet.                                               *)
LEMMA QuietStep ==
    ASSUME ~Resume, TypeOK, CallInv, StreamInv, QuietWhenCut, Next
    PROVE  /\ QuietWhenCut'
           /\ phase # "live" => UNCHANGED <<open, phase>>
<1>1. CASE Read
  <2>1. CASE phase = "live"
    <3>1. ASSUME NEW stack, NEW src, Abort(stack, src)
          PROVE  pc' = "idle"
      BY <3>1 DEF Abort, CallOver
    <3>2. ASSUME NEW r, ThenCheck(r)
          PROVE  phase' = phase
      BY <3>2 DEF ThenCheck
    <3>3. pc' = "idle" \/ phase' \in {phase, "ended"}
      <4>1. CASE StepAtEnd \/ CheckFull \/ CheckDone \/ Return
        BY <4>1 DEF StepAtEnd, CheckFull, CheckDone, Return, historyVars
      <4>2. CASE ReadEof \/ FooterEof
        BY <3>1, <4>2 DEF ReadEof, FooterEof
      <4>3. ASSUME NEW t, RejectToken(t) \/ ReadEoc(t) \/ SkipAppblob(t)
            PROVE  pc' = "idle" \/ phase' = phase
        BY <3>1, <3>2, <4>3 DEF RejectToken, ReadEoc, SkipAppblob, historyVars
      <4>4. ASSUME NEW t, NEW reply \in BOOLEAN,
                   PushNode(t, reply) \/ StartContainer(t, reply)
            PROVE  pc' = "idle" \/ phase' = phase
        BY <3>1, <3>2, <4>4 DEF PushNode, StartContainer
      <4>5. ASSUME NEW foot, RejectFooter(foot)
            PROVE  pc' = "idle"
        BY <3>1, <4>5 DEF RejectFooter
      <4>6. ASSUME NEW foot, NEW reply \in BOOLEAN, EndContainer(foot, reply)
            PROVE  pc' = "idle" \/ phase' = phase
        BY <3>1, <3>2, <4>6 DEF EndContainer
      <4>7. ASSUME NEW reply \in BOOLEAN, EndOfStream(reply)
            PROVE  phase' \in {phase, "ended"}
        BY <4>7 DEF EndOfStream
      <4> QED
        BY <1>1, <4>1, <4>2, <4>3, <4>4, <4>5, <4>6, <4>7 DEF Read
    <3> QED
      BY <2>1, <3>3 DEF QuietWhenCut
  <2>2. CASE phase # "live"
    <3>1. parents = <<>>
      BY <1>1, <2>2, ReadRuns DEF QuietWhenCut, StreamInv, TypeOK
    <3> QED
      BY <1>1, <3>1, NothingIsRead DEF QuietWhenCut
  <2> QED
    BY <2>1, <2>2
<1>2. CASE Call
  <2>1. parents' = parents \/ parents' = <<>>
    BY <1>2 DEF Call, ReadAll, ReadNext, Close, Crashed, SetForgivingFor, Cleanup,
                vars, readerVars
  <2>2. pc' = "idle" \/ phase # "cut" \/ parents = <<>>
    BY <1>2 DEF Call, ReadAll, ReadNext, CanCall, Close, Crashed, SetForgivingFor,
                CallInv, vars, readerVars
  <2>3. pc' = "idle" \/ phase' = phase
    BY <1>2 DEF Call, ReadAll, ReadNext, Close, Crashed, SetForgivingFor, CallInv,
                vars, readerVars, historyVars
  <2> QED
    BY <1>2, <2>1, <2>2, <2>3, CallEvents DEF QuietWhenCut
<1> QED
  BY <1>1, <1>2 DEF Next

(* The counts of the containers that are open are announced ones.          *)
LEMMA AnnouncedKept ==
    ASSUME NEW o \in Seq(OpenType), \A i \in 1..Len(o) : o[i].count \in AnnouncedCounts
    PROVE  /\ \A i \in 1..Len(SinkCounted(o)) : SinkCounted(o)[i].count \in AnnouncedCounts
           /\ \A i \in 1..Len(Front(o)) : Front(o)[i].count \in AnnouncedCounts
           /\ \A c : c.count \in AnnouncedCounts =>
                 \A i \in 1..Len(Append(o, c)) : Append(o, c)[i].count \in AnnouncedCounts
<1>1. \A i \in 1..Len(SinkCounted(o)) : SinkCounted(o)[i].count \in AnnouncedCounts
  <2>1. CASE o = <<>>
    BY <2>1 DEF SinkCounted
  <2>2. CASE o # <<>>
    BY <2>2, SinkCountedFacts
  <2> QED
    BY <2>1, <2>2
<1>2. \A i \in 1..Len(Front(o)) : Front(o)[i].count \in AnnouncedCounts
  <2>1. CASE o = <<>>
    <3>1. Len(Front(o)) = 0
      BY <2>1 DEF Front
    <3> QED
      BY <3>1
  <2>2. CASE o # <<>>
    <3>1. /\ Len(Front(o)) = Len(o) - 1 /\ Len(o) \in Nat
          /\ \A i \in 1..(Len(o) - 1) : Front(o)[i] = o[i]
      BY <2>2, FrontFacts
    <3>2. \A i \in 1..(Len(o) - 1) : i \in 1..Len(o)
      BY <3>1
    <3> QED
      BY <3>1, <3>2
  <2> QED
    BY <2>1, <2>2
<1>3. ASSUME NEW c, c.count \in AnnouncedCounts
      PROVE  \A i \in 1..Len(Append(o, c)) : Append(o, c)[i].count \in AnnouncedCounts
  <2>1. /\ Len(Append(o, c)) = Len(o) + 1 /\ Append(o, c)[Len(o) + 1] = c
        /\ \A i \in 1..Len(o) : Append(o, c)[i] = o[i]
        /\ Len(o) \in Nat
    BY LenProperties
  <2>2. \A i \in 1..(Len(o) + 1) : i \in 1..Len(o) \/ i = Len(o) + 1
    BY <2>1
  <2> QED
    BY <1>3, <2>1, <2>2
<1> QED
  BY <1>1, <1>2, <1>3

(* The innermost container of the sink is the innermost of the reader.     *)
LEMMA InnermostInStep ==
    ASSUME NEW s \in Seq(FrameType), NEW o \in Seq(OpenType), o # <<>>, NEW flags,
           InStep(s, o, flags)
    PROVE  /\ Last(o).count = ChildCount(Last(s))
           /\ "UnknownAppblobs" \notin flags => Last(o).children = Last(s).read
<1>1. Len(o) \in Nat \ {0} /\ Len(s) \in Nat
  BY EmptySeq, LenProperties
<1>2. s # <<>> /\ Len(o) = Len(s) - 1
  BY <1>1 DEF InStep
<1>3. Len(o) \in 1..Len(o) /\ Last(o) = o[Len(o)] /\ Last(s) = s[Len(o) + 1]
  BY <1>1, <1>2 DEF Last
<1> QED
  BY <1>3 DEF InStep

(* The sequence operators that StreamProtocol takes from its libraries.    *)
LEMMA SinkSequences == \A s : Sink!Last(s) = Last(s) /\ Sink!Front(s) = Front(s)
BY DEF Sink!Last, Sink!Front, Last, Front

(* Every step is a step of the protocol or none that the sink observes.    *)
LEMMA StepKeepsProtocol ==
    ASSUME ~Resume, Masks = {} => \A n \in Sizes : ToInt32(n) >= -1,
           TypeOK, FlagsInv, CallInv, StreamInv, QuietWhenCut, Announced,
           [Next]_vars
    PROVE  [Sink!Next]_<<open, phase>> /\ Announced'
<1> USE DEF AnnouncedCounts
<1>1. ASSUME UNCHANGED open
      PROVE  Announced'
  BY <1>1 DEF Announced
<1>2. CASE UNCHANGED vars
  BY <1>1, <1>2 DEF vars, historyVars
<1>3. CASE Next /\ phase # "live"
  BY <1>1, <1>3, QuietStep
<1>4. CASE Call /\ phase = "live"
  <2>1. UNCHANGED open /\ (phase' = phase \/ phase' = "cut")
    BY <1>4, CallEvents
  <2> QED
    BY <1>1, <1>4, <2>1 DEF Sink!Next, Sink!Cut
<1>5. CASE Read /\ phase = "live"
  <2>1. /\ parents # <<>> /\ InStep(parents, open, forgiven) /\ Counting(parents)
        /\ parents \in Seq(FrameType) /\ open \in Seq(OpenType)
        /\ CurrParent \in FrameType /\ DOMAIN open = 1..Len(open)
        /\ pos \in Nat /\ Len(parents) \in Nat \ {0}
    BY <1>5, FrontFacts DEF StreamInv, TypeOK, CurrParent
  <2>2. ASSUME UNCHANGED open, phase' = phase \/ phase' = "cut"
        PROVE  [Sink!Next]_<<open, phase>> /\ Announced'
    BY <1>1, <1>5, <2>2 DEF Sink!Next, Sink!Cut
  <2>3. ASSUME NEW stack, NEW src, Abort(stack, src)
        PROVE  phase' = "cut"
    BY <1>5, <2>3, AbortCuts
  <2>4. ASSUME NEW r, ThenCheck(r)
        PROVE  phase' = phase
    BY <2>4 DEF ThenCheck
  <2>5. ASSUME Masks = {}, open # <<>>
        PROVE  /\ Last(open).count = ChildCount(CurrParent)
               /\ Last(open).children = CurrParent.read
               /\ Last(open).count \in Int /\ Last(open).count >= -1
               /\ Last(open).children \in Nat
    <3>1. forgiven = {}
      BY <2>5 DEF FlagsInv
    <3>2. /\ Last(open).count = ChildCount(CurrParent)
          /\ Last(open).children = CurrParent.read
      BY <2>1, <2>5, <3>1, InnermostInStep DEF CurrParent
    <3>3. Len(open) \in 1..Len(open) /\ Last(open) = open[Len(open)]
      BY <2>1, <2>5, EmptySeq, LenProperties DEF Last
    <3>4. Last(open).count \in AnnouncedCounts
      BY <3>3 DEF Announced
    <3>5. Last(open).count >= -1
      BY <2>5, <3>4
    <3> QED
      BY <2>1, <3>2, <3>5, Fields
  <2>6. ASSUME NEW t, Stepping, t.kind # "eoc", ~Rejected(t)
        PROVE  Sink!Room
    <3>1. ~Full(CurrParent)
      BY <1>5, <2>6 DEF StreamInv, Stepping
    <3>2. Misses(CurrParent)
      BY <2>1, <2>6, <3>1, AcceptedMisses
    <3> SUFFICES ASSUME Masks = {}, open # <<>>
                 PROVE  Last(open).count = -1 \/ Last(open).children < Last(open).count
      BY SinkSequences DEF Sink!Room
    <3> QED
      BY <2>5, <3>2 DEF Misses
  <2>7. CASE StepAtEnd \/ CheckFull \/ CheckDone \/ Return
    BY <2>2, <2>7 DEF StepAtEnd, CheckFull, CheckDone, Return, historyVars
  <2>8. CASE ReadEof \/ FooterEof
    BY <2>2, <2>3, <2>8 DEF ReadEof, FooterEof
  <2>9. ASSUME NEW t, RejectToken(t) \/ ReadEoc(t) \/ SkipAppblob(t)
        PROVE  [Sink!Next]_<<open, phase>> /\ Announced'
    BY <2>2, <2>3, <2>4, <2>9 DEF RejectToken, ReadEoc, SkipAppblob, historyVars
  <2>10. ASSUME NEW t, NEW reply \in BOOLEAN, PushNode(t, reply)
         PROVE  [Sink!Next]_<<open, phase>> /\ Announced'
    <3>1. open' = SinkCounted(open) /\ phase' \in {"live", "cut"}
      BY <1>5, <2>3, <2>4, <2>10 DEF PushNode
    <3>2. Sink!Room
      BY <2>6, <2>10 DEF PushNode, Reading
    <3>3. Announced'
      BY <2>1, <3>1, AnnouncedKept DEF Announced
    <3>4. Sink!PushNode
      BY <1>5, <3>1, <3>2 DEF Sink!PushNode, Sink!AddChild, SinkCounted
    <3> QED
      BY <3>3, <3>4 DEF Sink!Next
  <2>11. ASSUME NEW t \in Tokens, NEW reply \in BOOLEAN, StartContainer(t, reply)
         PROVE  [Sink!Next]_<<open, phase>> /\ Announced'
    <3> DEFINE f == Frame(t)
               c == pos + 1
               n == ChildCount(Frame(t))
    <3>1. open' = Append(open, SinkOpen(f)) /\ phase' \in {"live", "cut"}
      BY <1>5, <2>3, <2>4, <2>11 DEF StartContainer
    <3>2. Sink!Room
      BY <2>6, <2>11 DEF StartContainer, Reading
    <3>3. t \in Headers /\ pos < MaxPos
      BY <2>11 DEF StartContainer, Reading, Tokens
    <3>4. f.id = c /\ f.size = t.size
      BY DEF Frame, NewFrame
    <3>5. c \in 1..MaxPos
      BY <2>1, <3>3, ConstantsAssumption
    <3>6. n \in AnnouncedCounts
      <4>1. t.size \in Sizes \cup {NoSize}
        BY <3>3 DEF Headers
      <4> QED
        BY <3>4, <4>1 DEF ChildCount
    <3>7. \A i \in 1..Len(open) : open[i].id # c
      <4>1. \A i \in 1..Len(open) : i + 1 \in 1..Len(parents)
        BY <2>1 DEF InStep
      <4>2. \A i \in 1..Len(open) : open[i].id = parents[i + 1].id
        BY <2>1 DEF InStep
      <4>3. \A i \in 1..Len(open) : open[i].id <= pos /\ open[i].id \in Nat
        <5>1. \A i \in 1..Len(parents) : parents[i].id <= pos /\ parents[i].id \in Nat
          BY <2>1, Fields DEF FlagsInv, Admitted
        <5> QED
          BY <4>1, <4>2, <5>1
      <4>4. \A i \in 1..Len(open) : open[i].id # pos + 1
        BY <2>1, <4>3
      <4> QED
        BY <4>4
    <3>8. SinkOpen(f) = Sink!Opened(c, n)
      BY <3>4 DEF SinkOpen, Sink!Opened
    <3>9. Announced'
      <4>1. SinkOpen(f).count \in AnnouncedCounts
        BY <3>6 DEF SinkOpen
      <4> HIDE DEF f
      <4> QED
        BY <2>1, <3>1, <4>1, AnnouncedKept DEF Announced
    <3> HIDE DEF f, c, n
    <3>10. Sink!StartContainer(c, n)
      BY <1>5, <2>1, <3>1, <3>2, <3>7, <3>8 DEF Sink!StartContainer
    <3> QED
      BY <3>5, <3>6, <3>9, <3>10 DEF Sink!Next
  <2>12. ASSUME NEW foot, RejectFooter(foot)
         PROVE  [Sink!Next]_<<open, phase>> /\ Announced'
    BY <2>2, <2>3, <2>12 DEF RejectFooter
  <2>13. ASSUME NEW foot, NEW reply \in BOOLEAN, EndContainer(foot, reply)
         PROVE  [Sink!Next]_<<open, phase>> /\ Announced'
    <3>1. /\ pc = "end" /\ Len(parents) > 1
          /\ open' = SinkCounted(Front(open)) /\ phase' \in {"live", "cut"}
      BY <1>5, <2>3, <2>4, <2>13 DEF EndContainer, Ending
    <3>2. open # <<>> /\ Front(open) \in Seq(OpenType)
      BY <2>1, <3>1, InStepPop
    <3>3. Sink!Kept(Last(open))
      <4> SUFFICES ASSUME Masks = {}
                   PROVE  Last(open).count \in {-1, Last(open).children}
        BY DEF Sink!Kept
      <4>1. EndDue(CurrParent) /\ forgiven = {}
        BY <1>5, <3>1 DEF StreamInv, FlagsInv
      <4> QED
        BY <2>5, <3>2, <4>1 DEF EndDue
    <3>4. Announced'
      <4>1. \A i \in 1..Len(Front(open)) : Front(open)[i].count \in AnnouncedCounts
        BY <2>1, AnnouncedKept DEF Announced
      <4> QED
        BY <3>1, <3>2, <4>1, AnnouncedKept DEF Announced
    <3>5. Sink!EndContainer
      BY <1>5, <3>1, <3>2, <3>3, SinkSequences
      DEF Sink!EndContainer, Sink!AddChild, SinkCounted
    <3> QED
      BY <3>4, <3>5 DEF Sink!Next
  <2>14. ASSUME NEW reply \in BOOLEAN, EndOfStream(reply)
         PROVE  [Sink!Next]_<<open, phase>> /\ Announced'
    <3>1. UNCHANGED open /\ phase' = "ended" /\ Len(parents) = 1
      BY <1>5, <2>14 DEF EndOfStream
    <3>2. open = <<>>
      BY <2>1, <3>1, EmptySeq DEF InStep
    <3> QED
      BY <1>1, <1>5, <3>1, <3>2 DEF Sink!Next, Sink!EndOfStream
  <2> QED
    BY <1>5, <2>7, <2>8, <2>9, <2>10, <2>11, <2>12, <2>13, <2>14 DEF Read
<1> QED
  BY <1>2, <1>3, <1>4, <1>5 DEF Next

(* What a sink gets from the reader is a stream: containers nest, nothing  *)
(* follows an end or an error, and announced counts are kept while no flag *)
(* is ever set.  Callers must not go on reading once read_next has thrown. *)
(* Counts are truncated to an int32_t, so sizes that become less than -1   *)
(* keep no promise.                                                        *)
THEOREM ReaderKeepsProtocol ==
    ASSUME ~Resume, Masks = {} => \A n \in Sizes : ToInt32(n) >= -1
    PROVE  Spec => KeepsProtocol
<1>1. Init => Sink!Init /\ QuietWhenCut /\ Announced
  <2>1. \A o : o = <<>> => Len(o) = 0
    OBVIOUS
  <2> QED
    BY <2>1 DEF Init, Sink!Init, QuietWhenCut, Announced
<1>2. UNCHANGED vars /\ QuietWhenCut => QuietWhenCut'
  BY DEF QuietWhenCut, vars, readerVars, historyVars
<1>3. /\ TypeOK /\ FlagsInv /\ (CallInv /\ StreamInv) /\ (QuietWhenCut /\ Announced)
      /\ [Next]_vars
      => (QuietWhenCut /\ Announced)' /\ [Sink!Next]_<<open, phase>>
  BY <1>2, QuietStep, StepKeepsProtocol
<1>4. Spec => Sink!Init /\ [][Sink!Next]_<<open, phase>>
  BY <1>1, <1>3, TypeCorrect, FlagsInvariant, StreamInvariant, PTL DEF Spec
<1> QED
  BY <1>4 DEF KeepsProtocol, Sink!Spec, Sink!vars
=============================================================================
