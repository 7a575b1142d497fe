------------------------- MODULE FromBitstreamProofs -------------------------
(***************************************************************************)
(* Proofs about the bitstream reader, for every value of its constants.    *)
(***************************************************************************)
EXTENDS FromBitstream, SequenceTheorems, TLAPS

-----------------------------------------------------------------------------
(* The operators the reader is built from.                                 *)

(* Removing the last element of a nonempty sequence.                       *)
LEMMA FrontFacts ==
    ASSUME NEW S, NEW s \in Seq(S), s # <<>>
    PROVE  /\ Front(s) \in Seq(S)
           /\ Len(Front(s)) = Len(s) - 1
           /\ \A i \in 1..(Len(s) - 1) : Front(s)[i] = s[i]
           /\ Len(s) \in Nat \ {0}
           /\ Last(s) \in S
<1>1. Len(s) \in Nat \ {0}
  BY EmptySeq, LenProperties
<1> DEFINE n == Len(s) - 1
<1>2. n \in Nat /\ \A i \in 1..n : s[i] \in S
  BY <1>1
<1> HIDE DEF n
<1>3. /\ SubSeq(s, 1, n) \in Seq(S)
      /\ Len(SubSeq(s, 1, n)) = IF 1 <= n THEN n - 1 + 1 ELSE 0
      /\ \A i \in 1..(n - 1 + 1) : SubSeq(s, 1, n)[i] = s[1 + i - 1]
  BY <1>2, SubSeqProperties
<1>4. s[Len(s)] \in S
  BY <1>1
<1>5. Front(s) = SubSeq(s, 1, n) /\ Last(s) = s[Len(s)]
  BY DEF Front, Last, n
<1>6. n = Len(s) - 1
  BY DEF n
<1> QED
  BY <1>1, <1>2, <1>3, <1>4, <1>5, <1>6

(* Updating one of the two counters of a frame leaves its identity alone.  *)
LEMMA FrameUpdates ==
    ASSUME NEW f \in FrameType
    PROVE  LET fed == [f EXCEPT !.fed = @ + 1]
               read == [f EXCEPT !.read = @ + 1]
           IN  /\ fed \in FrameType /\ read \in FrameType
               /\ fed.id = f.id /\ fed.pipe = f.pipe /\ fed.fed = f.fed + 1
               /\ read.id = f.id /\ read.pipe = f.pipe /\ read.fed = f.fed
<1>1. f.fed + 1 \in Nat /\ f.read + 1 \in Nat
  BY DEF FrameType
<1> QED
  BY <1>1 DEF FrameType

(* A read changes nothing in the stack but the hashed units of the pipes   *)
(* it goes through.                                                        *)
LEMMA FedFacts ==
    ASSUME NEW stack \in Seq(FrameType), NEW src
    PROVE  /\ Fed(stack, src) \in Seq(FrameType)
           /\ Len(Fed(stack, src)) = Len(stack)
           /\ \A i \in 1..Len(stack) :
                 /\ Fed(stack, src)[i].id = stack[i].id
                 /\ Fed(stack, src)[i].pipe = stack[i].pipe
                 /\ Fed(stack, src)[i].fed =
                       IF \E k \in DOMAIN src : src[k] = stack[i].id
                       THEN stack[i].fed + 1 ELSE stack[i].fed
<1> DEFINE F(i) == IF \E k \in DOMAIN src : src[k] = stack[i].id
                   THEN [stack[i] EXCEPT !.fed = @ + 1] ELSE stack[i]
<1>1. \A i \in 1..Len(stack) : stack[i] \in FrameType
  OBVIOUS
<1>2. ASSUME NEW i \in 1..Len(stack)
      PROVE  /\ F(i) \in FrameType
             /\ F(i).id = stack[i].id /\ F(i).pipe = stack[i].pipe
             /\ F(i).fed = IF \E k \in DOMAIN src : src[k] = stack[i].id
                           THEN stack[i].fed + 1 ELSE stack[i].fed
  BY <1>1, FrameUpdates
<1>3. Fed(stack, src) = [i \in 1..Len(stack) |-> F(i)]
  BY DEF Fed
<1> HIDE DEF F
<1>4. Fed(stack, src) \in Seq(FrameType) /\ Len(Fed(stack, src)) = Len(stack)
  BY <1>2, <1>3
<1>5. \A i \in 1..Len(stack) : Fed(stack, src)[i] = F(i)
  BY <1>3
<1> QED
  BY <1>2, <1>4, <1>5

(* Counting a child changes nothing else in the stack.                     *)
LEMMA CountedFacts ==
    ASSUME NEW stack \in Seq(FrameType), stack # <<>>
    PROVE  /\ Counted(stack) \in Seq(FrameType)
           /\ Len(Counted(stack)) = Len(stack)
           /\ \A i \in 1..Len(stack) :
                 /\ Counted(stack)[i].id = stack[i].id
                 /\ Counted(stack)[i].pipe = stack[i].pipe
                 /\ Counted(stack)[i].fed = stack[i].fed
<1> DEFINE n == Len(stack)
           f == [stack[n] EXCEPT !.read = @ + 1]
<1>1. n \in 1..n /\ stack[n] \in FrameType
  BY EmptySeq, LenProperties
<1>2. /\ f \in FrameType
      /\ f.id = stack[n].id /\ f.pipe = stack[n].pipe /\ f.fed = stack[n].fed
  BY <1>1, FrameUpdates
<1>3. Counted(stack) = [stack EXCEPT ![n] = f]
  BY DEF Counted
<1> HIDE DEF f
<1>4. /\ Counted(stack) \in Seq(FrameType)
      /\ Len(Counted(stack)) = n
      /\ \A i \in 1..n : Counted(stack)[i] = IF i = n THEN f ELSE stack[i]
  BY <1>1, <1>2, <1>3
<1> QED
  BY <1>1, <1>2, <1>4

(* The announced count of a frame is an integer.                           *)
LEMMA ChildCountType ==
    ASSUME NEW f \in FrameType
    PROVE  ChildCount(f) \in Int
<1>1. CASE f.size = NoSize
  BY <1>1 DEF ChildCount
<1>2. CASE f.size \in Nat
  BY <1>2, ConstantsAssumption DEF ChildCount, ToInt32, NoSize
<1> QED
  BY <1>1, <1>2 DEF FrameType

(* A frame built for a header the input can hold is well typed.            *)
LEMMA NewFrameType ==
    ASSUME NEW t \in Headers, NEW below \in Seq(Nat), pos \in Nat
    PROVE  NewFrame(t, below, 0, 0) \in FrameType
<1>1. Append(below, pos + 1) \in Seq(Nat)
  BY AppendProperties
<1>2. <<>> \in Seq(Nat)
  BY EmptySeq
<1>3. t.size \in Nat \cup {NoSize}
  BY ConstantsAssumption DEF Headers
<1> QED
  BY <1>1, <1>2, <1>3 DEF NewFrame, FrameType, Headers

(* Counting a child for the sink keeps its record well typed.              *)
LEMMA SinkCountedType ==
    ASSUME NEW s \in Seq(OpenType)
    PROVE  SinkCounted(s) \in Seq(OpenType)
<1>1. CASE s = <<>>
  BY <1>1 DEF SinkCounted
<1>2. CASE s # <<>>
  <2> DEFINE n == Len(s)
             c == [s[n] EXCEPT !.children = @ + 1]
  <2>1. n \in 1..n /\ s[n] \in OpenType
    BY <1>2, EmptySeq, LenProperties
  <2>2. ASSUME NEW f \in OpenType
        PROVE  [f EXCEPT !.children = @ + 1] \in OpenType
    BY DEF OpenType
  <2>3. c \in OpenType
    BY <2>1, <2>2
  <2>4. SinkCounted(s) = [s EXCEPT ![n] = c]
    BY <1>2 DEF SinkCounted
  <2> HIDE DEF c
  <2> QED
    BY <2>1, <2>3, <2>4
<1> QED
  BY <1>1, <1>2

(* Every way out of a call by an exception.                                *)
LEMMA AbortType ==
    ASSUME TypeOK, NEW stack \in Seq(FrameType), NEW src \in Seq(Nat),
           Abort(stack, src),
           pos' \in Nat, open' \in Seq(OpenType),
           footer' \in [hash: HashTypes \cup {NotHashed}, validated: BOOLEAN]
    PROVE  TypeOK'
<1>1. <<>> \in Seq(FrameType) /\ <<>> \in Seq(Nat)
  BY EmptySeq
<1>2. parents' \in Seq(FrameType) /\ source' \in Seq(Nat)
  BY <1>1 DEF Abort, Cleanup
<1>3. NoLocal \in [base: Nat, taken: Nat]
  BY DEF NoLocal
<1> QED
  BY <1>2, <1>3 DEF TypeOK, Abort, CallOver, Cleanup

(* The stack that is left when the innermost container is removed.         *)
LEMMA StackBelowFacts ==
    ASSUME TypeOK, Len(parents) > 1
    PROVE  /\ CurrParent \in FrameType
           /\ Front(parents) \in Seq(FrameType)
           /\ Len(Front(parents)) = Len(parents) - 1
           /\ Front(parents) # <<>>
           /\ StackBelow(CurrParent) \in Seq(FrameType)
           /\ Len(StackBelow(CurrParent)) = Len(parents) - 1
           /\ StackBelow(CurrParent) # <<>>
           /\ SourceBelow(CurrParent) \in Seq(Nat)
<1>1. parents \in Seq(FrameType) /\ parents # <<>>
  BY EmptySeq DEF TypeOK
<1>2. /\ CurrParent \in FrameType
      /\ Front(parents) \in Seq(FrameType)
      /\ Len(Front(parents)) = Len(parents) - 1
      /\ Len(parents) \in Nat
  BY <1>1, FrontFacts DEF CurrParent
<1>3. Front(parents) # <<>>
  BY <1>2, EmptySeq
<1>4. CurrParent.pipe \in Seq(Nat)
  BY <1>2 DEF FrameType
<1>5. SourceBelow(CurrParent) \in Seq(Nat)
  BY <1>4, FrontFacts DEF SourceBelow, TypeOK
<1>6. /\ StackBelow(CurrParent) \in Seq(FrameType)
      /\ Len(StackBelow(CurrParent)) = Len(parents) - 1
  BY <1>2, <1>5, FedFacts DEF StackBelow
<1>7. StackBelow(CurrParent) # <<>>
  BY <1>2, <1>6, EmptySeq
<1> QED
  BY <1>2, <1>3, <1>5, <1>6, <1>7

-----------------------------------------------------------------------------
(* Every variable keeps its type, whatever the input, the replies of the   *)
(* sink and the calls are.                                                 *)

(* A new reader is well typed.                                             *)
LEMMA InitType == Init => TypeOK
<1> SUFFICES ASSUME Init PROVE TypeOK
  OBVIOUS
<1>1. <<>> \in Seq(Nat) /\ <<>> \in Seq(OpenType)
  BY EmptySeq
<1>2. RootFrame \in FrameType
  BY <1>1 DEF RootFrame, FrameType
<1>3. <<RootFrame>> \in Seq(FrameType)
  BY <1>2
<1> QED
  BY <1>1, <1>3 DEF Init, TypeOK, NoFooter, NoLocal

(* An API call that begins (or close, or a flag) keeps the types.          *)
LEMMA CallType == TypeOK /\ Call => TypeOK'
<1> SUFFICES ASSUME TypeOK, Call PROVE TypeOK'
  OBVIOUS
<1>1. <<>> \in Seq(FrameType) /\ <<>> \in Seq(Nat)
  BY EmptySeq
<1>2. CASE ReadAll
  BY <1>2 DEF ReadAll, TypeOK, historyVars
<1>3. CASE ReadNext
  <2>1. local' \in [base: Nat, taken: Nat]
    BY <1>3, LenProperties DEF ReadNext, TypeOK
  <2> QED
    BY <1>3, <2>1 DEF ReadNext, TypeOK
<1>4. CASE Close
  <2>1. CASE "source" \in held
    BY <1>1, <1>4, <2>1 DEF Close, Cleanup, TypeOK
  <2>2. CASE "source" \notin held
    BY <1>4, <2>2 DEF Close, TypeOK
  <2> QED
    BY <2>1, <2>2
<1>5. CASE Crashed
  BY <1>5 DEF Crashed, TypeOK, vars, readerVars, historyVars
<1>6. ASSUME NEW flags \in Masks, NEW on \in BOOLEAN, SetForgivingFor(flags, on)
      PROVE  TypeOK'
  <2>1. forgiving' \subseteq Flags /\ forgiven' \subseteq Flags
    BY <1>6, MasksAssumption DEF SetForgivingFor, TypeOK
  <2> QED
    BY <1>6, <2>1 DEF SetForgivingFor, TypeOK
<1> QED
  BY <1>2, <1>3, <1>4, <1>5, <1>6 DEF Call

(* Every step of a running call keeps the types.                           *)
LEMMA ReadType == TypeOK /\ Read => TypeOK'
<1> SUFFICES ASSUME TypeOK, Read PROVE TypeOK'
  OBVIOUS
<1> DEFINE fed == Fed(parents, source)
<1>1. fed \in Seq(FrameType) /\ Len(fed) = Len(parents) /\ pos + 1 \in Nat
  BY FedFacts DEF TypeOK
<1>2. parents # <<>> => fed # <<>>
  BY <1>1, EmptySeq DEF TypeOK
<1>3. /\ local \in [base: Nat, taken: Nat]
      /\ Taken \in [base: Nat, taken: Nat]
  <2>1. local \in [base: Nat, taken: Nat]
    BY DEF TypeOK
  <2>2. local.taken + 1 \in Nat
    BY <2>1
  <2>3. [local EXCEPT !.taken = local.taken + 1] \in [base: Nat, taken: Nat]
    BY <2>1, <2>2
  <2> QED
    BY <2>1, <2>3 DEF Taken
<1> HIDE DEF fed
<1>4. CASE StepAtEnd
  BY <1>4 DEF StepAtEnd, TypeOK, historyVars
<1>5. CASE ReadEof
  <2> USE <1>5 DEF ReadEof
  <2> QED
    BY AbortType DEF TypeOK
<1>6. ASSUME NEW t \in Tokens, RejectToken(t)
      PROVE  TypeOK'
  <2>1. Abort(fed, source) /\ pos' = pos + 1 /\ UNCHANGED <<open, footer>>
    BY <1>6 DEF RejectToken, Reading, fed
  <2> QED
    BY <1>1, <2>1, AbortType DEF TypeOK
<1>7. ASSUME NEW t \in Tokens, ReadEoc(t)
      PROVE  TypeOK'
  <2>1. parents' = fed /\ pos' = pos + 1
    BY <1>7 DEF ReadEoc, Reading, fed
  <2> QED
    BY <1>1, <1>7, <2>1 DEF ReadEoc, TypeOK, historyVars
<1>8. ASSUME NEW t \in Tokens, SkipAppblob(t)
      PROVE  TypeOK'
  <2>1. parents' = Counted(fed) /\ pos' = pos + 1 /\ parents # <<>>
    BY <1>8 DEF SkipAppblob, Reading, Stepping, fed
  <2>2. parents' \in Seq(FrameType)
    BY <1>1, <1>2, <2>1, CountedFacts
  <2> QED
    BY <1>1, <1>8, <2>1, <2>2 DEF SkipAppblob, ThenCheck, TypeOK
<1>9. ASSUME NEW t \in Tokens, NEW reply \in BOOLEAN, PushNode(t, reply)
      PROVE  TypeOK'
  <2>1. /\ pos' = pos + 1 /\ parents # <<>> /\ UNCHANGED footer
        /\ open' = SinkCounted(open)
    BY <1>9 DEF PushNode, Reading, Stepping
  <2>2. open' \in Seq(OpenType)
    BY <2>1, SinkCountedType DEF TypeOK
  <2>3. CASE reply
    <3>1. /\ parents' = Counted(fed) /\ local' = Taken
          /\ ThenCheck("leaf") /\ UNCHANGED source
      BY <1>9, <2>3 DEF PushNode, fed
    <3>2. parents' \in Seq(FrameType)
      BY <1>1, <1>2, <2>1, <3>1, CountedFacts
    <3> QED
      BY <1>1, <1>3, <2>1, <2>2, <3>1, <3>2 DEF ThenCheck, TypeOK
  <2>4. CASE ~reply
    <3>1. Abort(fed, source)
      BY <1>9, <2>4 DEF PushNode, fed
    <3> QED
      BY <1>1, <2>1, <2>2, <3>1, AbortType DEF TypeOK
  <2> QED
    BY <2>3, <2>4
<1>10. ASSUME NEW t \in Tokens, NEW reply \in BOOLEAN, StartContainer(t, reply)
       PROVE  TypeOK'
  <2> DEFINE f == Frame(t)
             stack == Append(fed, f)
             src == IF f.pipe # <<>> THEN f.pipe ELSE source
  <2>1. /\ pos' = pos + 1 /\ UNCHANGED footer
        /\ open' = Append(open, SinkOpen(f))
        /\ t \in Headers
    BY <1>10 DEF StartContainer, Reading, Tokens
  <2>2. f \in FrameType
    BY <2>1, NewFrameType DEF Frame, TypeOK
  <2>3. stack \in Seq(FrameType)
    BY <1>1, <2>2, AppendProperties
  <2>4. src \in Seq(Nat)
    BY <2>2 DEF FrameType, TypeOK
  <2>5. SinkOpen(f) \in OpenType
    <3>1. ChildCount(f) \in Int
      BY <2>2, ChildCountType
    <3>2. f.id \in Nat
      BY <2>2 DEF FrameType
    <3> QED
      BY <3>1, <3>2 DEF SinkOpen, OpenType
  <2>6. open' \in Seq(OpenType)
    BY <2>1, <2>5, AppendProperties DEF TypeOK
  <2>7. IF reply
        THEN /\ parents' = stack /\ source' = src
             /\ local' = Taken
             /\ ThenCheck("container")
        ELSE Abort(stack, src)
    BY <1>10 DEF StartContainer, fed
  <2> HIDE DEF stack, src, f
  <2>8. CASE reply
    BY <1>1, <1>3, <2>1, <2>3, <2>4, <2>6, <2>7, <2>8 DEF ThenCheck, TypeOK
  <2>9. CASE ~reply
    BY <1>1, <2>1, <2>3, <2>4, <2>6, <2>7, <2>9, AbortType DEF TypeOK
  <2> QED
    BY <2>8, <2>9
<1>11. CASE CheckFull
  BY <1>11 DEF CheckFull, TypeOK, historyVars
<1>12. CASE CheckDone
  BY <1>12 DEF CheckDone, TypeOK, historyVars
<1>13. CASE FooterEof
  <2>1. Len(parents) > 1 /\ Abort(Front(parents), SourceBelow(CurrParent))
    BY <1>13 DEF FooterEof, Ending
  <2>2. UNCHANGED <<pos, open, footer>>
    BY <1>13 DEF FooterEof
  <2> QED
    BY <2>1, <2>2, StackBelowFacts, AbortType DEF TypeOK
<1>14. ASSUME NEW foot, RejectFooter(foot)
       PROVE  TypeOK'
  <2>1. /\ Len(parents) > 1
        /\ Abort(StackBelow(CurrParent), SourceBelow(CurrParent))
        /\ pos' = pos + 1 /\ UNCHANGED <<open, footer>>
    BY <1>14 DEF RejectFooter, Ending
  <2> QED
    BY <1>1, <2>1, StackBelowFacts, AbortType DEF TypeOK
<1>15. ASSUME NEW foot, NEW reply \in BOOLEAN, EndContainer(foot, reply)
       PROVE  TypeOK'
  <2>1. /\ Len(parents) > 1
        /\ open' = SinkCounted(Front(open))
        /\ footer' = [hash |-> CurrParent.hash, validated |-> foot = "match"]
        /\ pos' \in {pos, pos + 1}
    BY <1>15 DEF EndContainer, Ending
  <2>2. CurrParent.hash \in HashTypes \cup {NotHashed}
    BY <2>1, StackBelowFacts DEF FrameType
  <2>3. footer' \in [hash: HashTypes \cup {NotHashed}, validated: BOOLEAN]
    BY <2>1, <2>2
  <2>4. Front(open) \in Seq(OpenType)
    <3>1. CASE open = <<>>
      BY <3>1, SubSeqEmpty, EmptySeq DEF Front
    <3>2. CASE open # <<>>
      BY <3>2, FrontFacts DEF TypeOK
    <3> QED
      BY <3>1, <3>2
  <2>5. open' \in Seq(OpenType)
    BY <2>1, <2>4, SinkCountedType
  <2>6. pos' \in Nat
    BY <1>1, <2>1 DEF TypeOK
  <2>7. CASE reply
    <3>1. /\ parents' = Counted(StackBelow(CurrParent))
          /\ source' = SourceBelow(CurrParent)
          /\ ThenCheck(ret) /\ UNCHANGED local
      BY <1>15, <2>7 DEF EndContainer
    <3>2. parents' \in Seq(FrameType) /\ source' \in Seq(Nat)
      BY <2>1, <3>1, StackBelowFacts, CountedFacts
    <3> QED
      BY <2>3, <2>5, <2>6, <3>1, <3>2 DEF ThenCheck, TypeOK
  <2>8. CASE ~reply
    <3>1. Abort(StackBelow(CurrParent), SourceBelow(CurrParent))
      BY <1>15, <2>8 DEF EndContainer
    <3> QED
      BY <2>1, <2>3, <2>5, <2>6, <3>1, StackBelowFacts, AbortType
  <2> QED
    BY <2>7, <2>8
<1>16. ASSUME NEW reply \in BOOLEAN, EndOfStream(reply)
       PROVE  TypeOK'
  <2>1. <<>> \in Seq(FrameType) /\ <<>> \in Seq(Nat)
    BY EmptySeq
  <2>2. /\ parents' = <<>>
        /\ phase' \in {phase, "ended"}
        /\ UNCHANGED <<forgiving, pos, open, footer, forgiven>>
    BY <1>16 DEF EndOfStream
  <2>3. CASE reply
    BY <1>16, <2>1, <2>2, <2>3 DEF EndOfStream, TypeOK
  <2>4. CASE ~reply
    <3>1. /\ CallOver
          /\ source' \in {source, <<>>}
          /\ held' \subseteq held
      BY <1>16, <2>4 DEF EndOfStream
    <3>2. local' \in [base: Nat, taken: Nat]
      BY <3>1 DEF CallOver, NoLocal
    <3> QED
      BY <2>1, <2>2, <3>1, <3>2 DEF CallOver, TypeOK
  <2> QED
    BY <2>3, <2>4
<1>17. CASE Return
  <2>1. Len(parents) \in Nat
    BY LenProperties DEF TypeOK
  <2> QED
    BY <1>17, <2>1 DEF Return, CallOver, NoLocal, TypeOK
<1> QED
  BY <1>4, <1>5, <1>6, <1>7, <1>8, <1>9, <1>10, <1>11, <1>12, <1>13, <1>14,
     <1>15, <1>16, <1>17 DEF Read

(* Type correctness of the reader.                                         *)
THEOREM TypeCorrect == Spec => []TypeOK
<1>1. TypeOK /\ UNCHANGED vars => TypeOK'
  BY DEF TypeOK, vars, readerVars, historyVars
<1>2. TypeOK /\ [Next]_vars => TypeOK'
  BY <1>1, CallType, ReadType DEF Next
<1> QED
  BY InitType, <1>2, PTL DEF Spec

-----------------------------------------------------------------------------
(* The chain of hash pipes.                                                *)

(* The pipes of the frames are a chain that h ends, and a read through any *)
(* of them reaches all the outer ones.                                     *)
Chains(stack, h) ==
    /\ Chained(stack, h)
    /\ Reaches(stack, h, Len(stack))
    /\ \A i \in 1..Len(stack) :
          HasPipe(stack[i]) => Reaches(stack, Front(stack[i].pipe), i - 1)

(* No frame, no pipe.                                                      *)
LEMMA ChainsEmpty ==
    ASSUME NEW p
    PROVE  Chains(<<>>, <<>>) /\ Covers(<<>>, p)
BY DEF Chains, Chained, InnermostPipe, Reaches, Covers

(* The chain depends on the identities and the pipes of the frames only.   *)
LEMMA ChainsSame ==
    ASSUME NEW s \in Seq(FrameType), NEW t \in Seq(FrameType), NEW h,
           Len(t) = Len(s),
           \A i \in 1..Len(s) : t[i].id = s[i].id /\ t[i].pipe = s[i].pipe,
           Chains(s, h)
    PROVE  Chains(t, h)
<1>1. \A i \in 1..Len(s) : HasPipe(t[i]) <=> HasPipe(s[i])
  BY DEF HasPipe
<1>2. ASSUME NEW g, NEW n \in 0..Len(s)
      PROVE  /\ InnermostPipe(s, g, n) => InnermostPipe(t, g, n)
             /\ Reaches(s, g, n) => Reaches(t, g, n)
  <2>1. \A i \in 1..n : i \in 1..Len(s)
    BY LenProperties
  <2>2. \A i \in 1..n : \A j \in (i+1)..n : j \in 1..Len(s)
    BY LenProperties
  <2> QED
    BY <1>1, <2>1, <2>2 DEF InnermostPipe, Reaches
<1>3. Len(s) \in 0..Len(s) /\ \A i \in 1..Len(s) : i - 1 \in 0..Len(s)
  BY LenProperties
<1> QED
  BY <1>1, <1>2, <1>3 DEF Chains, Chained

(* A frame without a pipe makes no difference.                             *)
LEMMA WithoutPipe ==
    ASSUME NEW s, NEW e, NEW n \in Nat, ~HasPipe(s[n + 1])
    PROVE  /\ InnermostPipe(s, e, n + 1) <=> InnermostPipe(s, e, n)
           /\ Reaches(s, e, n + 1) <=> Reaches(s, e, n)
<1>1. \A i \in 1..(n + 1) : i \in 1..n \/ i = n + 1
  OBVIOUS
<1>2. \A i \in 1..n : i \in 1..(n + 1)
  OBVIOUS
<1>3. Reaches(s, e, n + 1) <=> Reaches(s, e, n)
  BY <1>1, <1>2 DEF Reaches
<1>4. (\A i \in 1..(n + 1) : ~HasPipe(s[i])) <=> (\A i \in 1..n : ~HasPipe(s[i]))
  BY <1>1, <1>2
<1>5. ASSUME NEW i \in 1..n
      PROVE  (\A j \in (i+1)..(n+1) : ~HasPipe(s[j]))
                <=> (\A j \in (i+1)..n : ~HasPipe(s[j]))
  <2>1. \A j \in (i+1)..(n+1) : j \in (i+1)..n \/ j = n + 1
    OBVIOUS
  <2>2. \A j \in (i+1)..n : j \in (i+1)..(n+1)
    OBVIOUS
  <2> QED
    BY <2>1, <2>2
<1>6. InnermostPipe(s, e, n + 1) <=> InnermostPipe(s, e, n)
  BY <1>1, <1>2, <1>4, <1>5 DEF InnermostPipe
<1> QED
  BY <1>3, <1>6

(* A new container reads through a pipe of its own on top of the current   *)
(* source, or through the source itself.                                   *)
LEMMA ChainsPush ==
    ASSUME NEW s \in Seq(FrameType), NEW h \in Seq(Nat), NEW f \in FrameType,
           f.pipe = <<>> \/ f.pipe = Append(h, f.id),
           Chains(s, h)
    PROVE  Chains(Append(s, f), IF HasPipe(f) THEN f.pipe ELSE h)
<1> DEFINE t == Append(s, f)
           n == Len(s)
           g == IF HasPipe(f) THEN f.pipe ELSE h
<1>1. /\ n \in Nat /\ t \in Seq(FrameType) /\ Len(t) = n + 1
      /\ t[n + 1] = f
      /\ \A i \in 1..n : t[i] = s[i]
  BY LenProperties, AppendProperties
<1> HIDE DEF t, n
<1>2. ASSUME NEW e, NEW m \in 0..n
      PROVE  /\ InnermostPipe(s, e, m) => InnermostPipe(t, e, m)
             /\ Reaches(s, e, m) => Reaches(t, e, m)
  <2>1. \A i \in 1..m : t[i] = s[i]
    BY <1>1
  <2>2. \A i \in 1..m : \A j \in (i+1)..m : t[j] = s[j]
    BY <1>1
  <2> QED
    BY <2>1, <2>2 DEF InnermostPipe, Reaches
<1>3. /\ InnermostPipe(t, h, n) /\ Reaches(t, h, n)
      /\ \A i \in 1..n : HasPipe(t[i]) =>
            /\ Last(t[i].pipe) = t[i].id
            /\ InnermostPipe(t, Front(t[i].pipe), i - 1)
            /\ Reaches(t, Front(t[i].pipe), i - 1)
  <2>1. n \in 0..n /\ \A i \in 1..n : i - 1 \in 0..n
    BY <1>1
  <2> QED
    BY <1>1, <1>2, <2>1 DEF Chains, Chained, n
<1>4. CASE f.pipe = <<>>
  <2>1. ~HasPipe(t[n + 1]) /\ g = h
    BY <1>1, <1>4 DEF HasPipe
  <2>2. InnermostPipe(t, h, n + 1) /\ Reaches(t, h, n + 1)
    BY <1>1, <1>3, <2>1, WithoutPipe
  <2>3. \A i \in 1..(n + 1) : HasPipe(t[i]) =>
            /\ i \in 1..n /\ Last(t[i].pipe) = t[i].id
            /\ InnermostPipe(t, Front(t[i].pipe), i - 1)
            /\ Reaches(t, Front(t[i].pipe), i - 1)
    <3>1. \A i \in 1..(n + 1) : i \in 1..n \/ i = n + 1
      BY <1>1
    <3> QED
      BY <1>3, <2>1, <3>1
  <2> HIDE DEF g
  <2>4. Chains(t, h)
    BY <1>1, <2>2, <2>3 DEF Chains, Chained
  <2> QED
    BY <2>1, <2>4 DEF t, g
<1>5. CASE f.pipe = Append(h, f.id)
  <2>1. f.id \in Nat
    BY DEF FrameType
  <2>2. /\ f.pipe \in Seq(Nat) /\ Len(f.pipe) = Len(h) + 1
        /\ f.pipe[Len(h) + 1] = f.id
        /\ \A i \in 1..Len(h) : f.pipe[i] = h[i]
        /\ Len(h) \in Nat
    BY <1>5, <2>1, AppendProperties, LenProperties
  <2>3. HasPipe(f) /\ g = f.pipe
    BY <2>2, EmptySeq DEF HasPipe
  <2>4. Front(f.pipe) = h
    <3>1. /\ Front(f.pipe) \in Seq(Nat) /\ Len(Front(f.pipe)) = Len(h)
          /\ \A i \in 1..Len(h) : Front(f.pipe)[i] = f.pipe[i]
      <4>1. f.pipe # <<>> /\ Len(f.pipe) - 1 = Len(h)
        BY <2>2, <2>3 DEF HasPipe
      <4> QED
        BY <2>2, <4>1, FrontFacts
    <3> QED
      BY <2>2, <3>1, SeqEqual
  <2>5. Last(f.pipe) = f.id
    BY <2>2 DEF Last
  <2>6. Reaches(t, f.pipe, n + 1)
    <3>1. DOMAIN h = 1..Len(h) /\ DOMAIN f.pipe = 1..(Len(h) + 1)
      BY <2>2
    <3>2. ASSUME NEW i \in 1..n, HasPipe(t[i])
          PROVE  /\ Len(t[i].pipe) \in DOMAIN f.pipe
                 /\ f.pipe[Len(t[i].pipe)] = t[i].id
      <4> DEFINE k == Len(t[i].pipe)
      <4>1. Reaches(t, h, n)
        BY <1>3
      <4>2. k \in DOMAIN h /\ h[k] = t[i].id
        BY <3>2, <4>1 DEF Reaches
      <4> HIDE DEF k
      <4>3. k \in 1..Len(h)
        BY <3>1, <4>2
      <4>4. \A j \in 1..Len(h) : f.pipe[j] = h[j] /\ j \in 1..(Len(h) + 1)
        BY <2>2
      <4>5. k \in DOMAIN f.pipe /\ f.pipe[k] = t[i].id
        BY <3>1, <4>2, <4>3, <4>4
      <4> QED
        BY <4>5 DEF k
    <3>3. Len(t[n + 1].pipe) \in DOMAIN f.pipe /\ f.pipe[Len(t[n + 1].pipe)] = t[n + 1].id
      BY <1>1, <2>2, <3>1
    <3>4. \A i \in 1..(n + 1) : i \in 1..n \/ i = n + 1
      BY <1>1
    <3> QED
      BY <3>2, <3>3, <3>4 DEF Reaches
  <2>7. InnermostPipe(t, f.pipe, n + 1)
    BY <1>1, <2>3 DEF InnermostPipe
  <2>8. ASSUME NEW i \in 1..(n + 1), HasPipe(t[i])
        PROVE  /\ Last(t[i].pipe) = t[i].id
               /\ InnermostPipe(t, Front(t[i].pipe), i - 1)
               /\ Reaches(t, Front(t[i].pipe), i - 1)
    <3>1. CASE i \in 1..n
      BY <1>3, <2>8, <3>1
    <3>2. CASE i = n + 1
      <4>1. i - 1 = n /\ t[i].pipe = f.pipe /\ t[i].id = f.id
        BY <1>1, <3>2
      <4> QED
        BY <1>3, <2>4, <2>5, <4>1
    <3>3. i \in 1..n \/ i = n + 1
      BY <1>1
    <3> QED
      BY <3>1, <3>2, <3>3
  <2>9. Chains(t, f.pipe)
    BY <1>1, <2>6, <2>7, <2>8 DEF Chains, Chained
  <2> QED
    BY <2>3, <2>9 DEF t
<1> QED
  BY <1>4, <1>5

(* Removing the innermost container restores the chain below it.           *)
LEMMA ChainsPop ==
    ASSUME NEW s \in Seq(FrameType), s # <<>>, NEW h \in Seq(Nat),
           Chains(s, h)
    PROVE  Chains(Front(s), IF HasPipe(Last(s)) THEN Front(Last(s).pipe) ELSE h)
<1> DEFINE t == Front(s)
           n == Len(s) - 1
           f == Last(s)
           g == IF HasPipe(f) THEN Front(f.pipe) ELSE h
<1>1. /\ n \in Nat /\ t \in Seq(FrameType) /\ Len(t) = n
      /\ \A i \in 1..n : t[i] = s[i]
      /\ s[n + 1] = f /\ Len(s) = n + 1
  BY FrontFacts DEF Last
<1> HIDE DEF t, n, f
<1>2. ASSUME NEW e, NEW m \in 0..n
      PROVE  /\ InnermostPipe(s, e, m) => InnermostPipe(t, e, m)
             /\ Reaches(s, e, m) => Reaches(t, e, m)
  <2>1. \A i \in 1..m : t[i] = s[i]
    BY <1>1
  <2>2. \A i \in 1..m : \A j \in (i+1)..m : t[j] = s[j]
    BY <1>1
  <2> QED
    BY <2>1, <2>2 DEF InnermostPipe, Reaches
<1>3. InnermostPipe(s, g, n) /\ Reaches(s, g, n)
  <2>1. CASE HasPipe(f)
    BY <1>1, <2>1 DEF Chains, Chained
  <2>2. CASE ~HasPipe(f)
    <3>1. InnermostPipe(s, h, n + 1) /\ Reaches(s, h, n + 1)
      BY <1>1 DEF Chains, Chained
    <3> QED
      BY <1>1, <2>2, <3>1, WithoutPipe
  <2> QED
    BY <2>1, <2>2
<1>4. n \in 0..n /\ \A i \in 1..n : i - 1 \in 0..n /\ i \in 1..(n + 1)
  BY <1>1
<1>5. InnermostPipe(t, g, n) /\ Reaches(t, g, n)
  BY <1>2, <1>3, <1>4
<1>6. ASSUME NEW i \in 1..n, HasPipe(t[i])
      PROVE  /\ Last(t[i].pipe) = t[i].id
             /\ InnermostPipe(t, Front(t[i].pipe), i - 1)
             /\ Reaches(t, Front(t[i].pipe), i - 1)
  BY <1>1, <1>2, <1>4, <1>6 DEF Chains, Chained
<1> QED
  BY <1>1, <1>5, <1>6 DEF Chains, Chained, t, f

-----------------------------------------------------------------------------
(* The stack, the source and the position of a reader that is in order.    *)

Good(stack, h, p) ==
    /\ stack \in Seq(FrameType) /\ h \in Seq(Nat) /\ p \in Nat
    /\ Chains(stack, h)
    /\ Covers(stack, p)
    /\ stack # <<>> => ~HasPipe(stack[1])

(* Both counters advance by one.                                           *)
LEMMA Shift ==
    ASSUME NEW p \in Nat, NEW b \in Nat
    PROVE  (p - b) + 1 = (p + 1) - b
OBVIOUS

(* An empty stack with no pipe is good wherever the input is.              *)
LEMMA GoodEmpty ==
    ASSUME NEW p \in Nat
    PROVE  Good(<<>>, <<>>, p)
BY ChainsEmpty, EmptySeq DEF Good

(* Reading a unit through the source advances all the digests with it.     *)
LEMMA GoodFed ==
    ASSUME NEW s, NEW h, NEW p, Good(s, h, p)
    PROVE  Good(Fed(s, h), h, p + 1) /\ Len(Fed(s, h)) = Len(s)
<1> DEFINE t == Fed(s, h)
<1>1. /\ s \in Seq(FrameType) /\ h \in Seq(Nat) /\ p \in Nat
      /\ Chains(s, h) /\ Covers(s, p)
  BY DEF Good
<1>2. /\ t \in Seq(FrameType) /\ Len(t) = Len(s)
      /\ \A i \in 1..Len(s) :
            /\ t[i].id = s[i].id /\ t[i].pipe = s[i].pipe
            /\ t[i].fed = IF \E k \in DOMAIN h : h[k] = s[i].id
                          THEN s[i].fed + 1 ELSE s[i].fed
  BY <1>1, FedFacts
<1> HIDE DEF t
<1>3. Chains(t, h)
  BY <1>1, <1>2, ChainsSame
<1>4. ASSUME NEW i \in 1..Len(t), HasPipe(t[i])
      PROVE  t[i].fed = (p + 1) - t[i].id
  <2>1. i \in 1..Len(s) /\ HasPipe(s[i]) /\ s[i] \in FrameType
    BY <1>1, <1>2, <1>4 DEF HasPipe
  <2>2. s[i].fed = p - s[i].id
    BY <1>1, <2>1 DEF Covers
  <2>3. \E k \in DOMAIN h : h[k] = s[i].id
    BY <1>1, <2>1 DEF Chains, Reaches
  <2>4. s[i].id \in Nat
    BY <2>1 DEF FrameType
  <2>5. t[i].fed = s[i].fed + 1 /\ t[i].id = s[i].id
    BY <1>2, <2>1, <2>3
  <2>6. (p - s[i].id) + 1 = (p + 1) - s[i].id
    BY <1>1, <2>4, Shift
  <2> QED
    BY <2>2, <2>5, <2>6
<1>5. t # <<>> => ~HasPipe(t[1])
  <2>1. t # <<>> => s # <<>> /\ 1 \in 1..Len(s)
    BY <1>1, <1>2, EmptySeq, LenProperties
  <2> QED
    BY <1>2, <2>1 DEF Good, HasPipe
<1> QED
  BY <1>1, <1>2, <1>3, <1>4, <1>5 DEF Good, Covers, t

(* Counting a child does not disturb the pipes.                            *)
LEMMA GoodCounted ==
    ASSUME NEW s, NEW h, NEW p, Good(s, h, p), s # <<>>
    PROVE  Good(Counted(s), h, p)
<1>1. /\ s \in Seq(FrameType) /\ h \in Seq(Nat) /\ p \in Nat
      /\ Chains(s, h) /\ Covers(s, p)
  BY DEF Good
<1>2. /\ Counted(s) \in Seq(FrameType) /\ Len(Counted(s)) = Len(s)
      /\ \A i \in 1..Len(s) :
            /\ Counted(s)[i].id = s[i].id /\ Counted(s)[i].pipe = s[i].pipe
            /\ Counted(s)[i].fed = s[i].fed
  BY <1>1, CountedFacts
<1>3. Chains(Counted(s), h)
  BY <1>1, <1>2, ChainsSame
<1>4. Covers(Counted(s), p)
  BY <1>1, <1>2 DEF Covers, HasPipe
<1>5. ~HasPipe(Counted(s)[1])
  <2>1. 1 \in 1..Len(s)
    BY <1>1, EmptySeq, LenProperties
  <2> QED
    BY <1>2, <2>1 DEF Good, HasPipe
<1> QED
  BY <1>1, <1>2, <1>3, <1>4, <1>5 DEF Good

(* A new container begins with an empty digest.                            *)
LEMMA GoodPush ==
    ASSUME NEW s, NEW h, NEW p, Good(s, h, p), s # <<>>,
           NEW f \in FrameType, f.id = p, f.fed = 0,
           f.pipe = <<>> \/ f.pipe = Append(h, f.id)
    PROVE  Good(Append(s, f), IF HasPipe(f) THEN f.pipe ELSE h, p)
<1>1. /\ s \in Seq(FrameType) /\ h \in Seq(Nat) /\ p \in Nat
      /\ Chains(s, h) /\ Covers(s, p)
  BY DEF Good
<1> DEFINE g == IF HasPipe(f) THEN f.pipe ELSE h
<1>2. Append(s, f) \in Seq(FrameType) /\ Chains(Append(s, f), g)
  BY <1>1, ChainsPush, AppendProperties
<1>3. g \in Seq(Nat)
  BY <1>1 DEF FrameType
<1>4. Covers(Append(s, f), p)
  <2>1. /\ Len(Append(s, f)) = Len(s) + 1 /\ Len(s) \in Nat
        /\ Append(s, f)[Len(s) + 1] = f
        /\ \A i \in 1..Len(s) : Append(s, f)[i] = s[i]
    BY <1>1, AppendProperties, LenProperties
  <2>2. \A i \in 1..(Len(s) + 1) : i \in 1..Len(s) \/ i = Len(s) + 1
    BY <2>1
  <2>3. f.fed = p - f.id
    BY <1>1
  <2> QED
    BY <1>1, <2>1, <2>2, <2>3 DEF Covers
<1>5. ~HasPipe(Append(s, f)[1])
  <2>1. 1 \in 1..Len(s)
    BY <1>1, EmptySeq, LenProperties
  <2>2. Append(s, f)[1] = s[1]
    BY <1>1, <2>1, AppendProperties
  <2> QED
    BY <2>2 DEF Good
<1> QED
  BY <1>1, <1>2, <1>3, <1>4, <1>5 DEF Good

(* Removing the innermost container leaves a good stack.                   *)
LEMMA GoodPop ==
    ASSUME NEW s, NEW h, NEW p, Good(s, h, p), s # <<>>
    PROVE  Good(Front(s), IF HasPipe(Last(s)) THEN Front(Last(s).pipe) ELSE h, p)
<1>1. /\ s \in Seq(FrameType) /\ h \in Seq(Nat) /\ p \in Nat
      /\ Chains(s, h) /\ Covers(s, p)
  BY DEF Good
<1> DEFINE g == IF HasPipe(Last(s)) THEN Front(Last(s).pipe) ELSE h
<1>2. /\ Front(s) \in Seq(FrameType) /\ Len(Front(s)) = Len(s) - 1
      /\ \A i \in 1..(Len(s) - 1) : Front(s)[i] = s[i]
      /\ Last(s) \in FrameType /\ Len(s) \in Nat
  BY <1>1, FrontFacts
<1>3. Chains(Front(s), g)
  BY <1>1, ChainsPop
<1>4. g \in Seq(Nat)
  <2>1. Last(s).pipe \in Seq(Nat)
    BY <1>2 DEF FrameType
  <2> QED
    BY <1>1, <2>1, FrontFacts DEF HasPipe
<1>5. Covers(Front(s), p)
  BY <1>1, <1>2 DEF Covers
<1>6. Front(s) # <<>> => ~HasPipe(Front(s)[1])
  <2>1. Front(s) # <<>> => 1 \in 1..(Len(s) - 1)
    BY <1>2, EmptySeq
  <2> QED
    BY <1>2, <2>1 DEF Good
<1> QED
  BY <1>1, <1>2, <1>3, <1>4, <1>5, <1>6 DEF Good

(* What is left when a container ends, before and after its footer.        *)
LEMMA GoodBelow ==
    ASSUME Good(parents, source, pos), Len(parents) > 1
    PROVE  /\ Good(Front(parents), SourceBelow(CurrParent), pos)
           /\ IsHashed(CurrParent) =>
                Good(StackBelow(CurrParent), SourceBelow(CurrParent), pos + 1)
           /\ ~IsHashed(CurrParent) =>
                Good(StackBelow(CurrParent), SourceBelow(CurrParent), pos)
<1>1. parents # <<>>
  BY EmptySeq
<1>2. SourceBelow(CurrParent) =
        IF HasPipe(Last(parents)) THEN Front(Last(parents).pipe) ELSE source
  BY DEF SourceBelow, HasPipe, CurrParent
<1>3. Good(Front(parents), SourceBelow(CurrParent), pos)
  BY <1>1, <1>2, GoodPop
<1> QED
  BY <1>3, GoodFed DEF StackBelow

(* An exception leaves a good stack, cleaned up or as it was.              *)
LEMMA GoodAbort ==
    ASSUME NEW stack, NEW src, Abort(stack, src), Good(stack, src, pos')
    PROVE  Good(parents', source', pos')
<1>1. pos' \in Nat
  BY DEF Good
<1> QED
  BY <1>1, GoodEmpty DEF Abort, Cleanup

-----------------------------------------------------------------------------
(* The invariant of the reader.                                            *)

(* The inductive invariant in terms of Good.                               *)
LEMMA ReaderInvIsGood ==
    ReaderInv <=> TypeOK /\ Good(parents, source, pos) /\ NoNullAccess
BY DEF ReaderInv, Good, Chains, SourceMatchesStack, HashCoversBody, TypeOK

(* A new reader satisfies the inductive invariant.                         *)
LEMMA InitReaderInv == Init => ReaderInv
<1> SUFFICES ASSUME Init PROVE ReaderInv
  OBVIOUS
<1>1. TypeOK
  BY InitType
<1>2. /\ parents = <<RootFrame>> /\ Len(parents) = 1
      /\ ~HasPipe(parents[1]) /\ source = <<>>
  <2>1. <<RootFrame>>[1] = RootFrame /\ Len(<<RootFrame>>) = 1
    OBVIOUS
  <2>2. RootFrame.pipe = <<>>
    BY DEF RootFrame
  <2> QED
    BY <2>1, <2>2 DEF Init, HasPipe
<1>3. \A i \in 1..Len(parents) : ~HasPipe(parents[i])
  BY <1>2
<1>4. Chains(parents, source) /\ Covers(parents, pos)
  BY <1>2, <1>3 DEF Chains, Chained, InnermostPipe, Reaches, Covers
<1>5. NoNullAccess
  BY DEF Init, NoNullAccess
<1> QED
  BY <1>1, <1>2, <1>4, <1>5, ReaderInvIsGood DEF Good, TypeOK

(* An API call that begins preserves the inductive invariant.              *)
LEMMA CallReaderInv ==
    ASSUME ReaderInv, Call
    PROVE  Good(parents', source', pos') /\ NoNullAccess'
<1>1. Good(parents, source, pos) /\ NoNullAccess /\ pos \in Nat
  BY ReaderInvIsGood DEF Good
<1>2. CASE Close
  <2>1. pos' = pos
    BY <1>2 DEF Close
  <2>2. CASE "source" \in held
    BY <1>1, <1>2, <2>1, <2>2, GoodEmpty DEF Close, Cleanup, NoNullAccess
  <2>3. CASE "source" \notin held
    BY <1>1, <1>2, <2>1, <2>3 DEF Close, NoNullAccess
  <2> QED
    BY <2>2, <2>3
<1>3. CASE UNCHANGED <<parents, source, pos, held>>
  BY <1>1, <1>3 DEF NoNullAccess
<1>4. ReadAll \/ ReadNext \/ Crashed \/
      (\E flags \in Masks, on \in BOOLEAN : SetForgivingFor(flags, on))
        => UNCHANGED <<parents, source, pos, held>>
  BY DEF ReadAll, ReadNext, Crashed, SetForgivingFor, vars, readerVars
<1> QED
  BY <1>2, <1>3, <1>4 DEF Call

(* Every step of a running call preserves the inductive invariant.         *)
LEMMA ReadReaderInv ==
    ASSUME ReaderInv, Read
    PROVE  Good(parents', source', pos') /\ NoNullAccess'
<1> DEFINE fed == Fed(parents, source)
<1>1. /\ Good(parents, source, pos) /\ NoNullAccess /\ TypeOK
      /\ pos \in Nat /\ parents \in Seq(FrameType) /\ source \in Seq(Nat)
  BY ReaderInvIsGood DEF Good
<1>2. Good(fed, source, pos + 1) /\ Len(fed) = Len(parents)
  BY <1>1, GoodFed
<1>3. parents # <<>> => fed # <<>>
  BY <1>1, <1>2, EmptySeq DEF Good
<1>4. ASSUME NEW stack, NEW src, Abort(stack, src), parents # <<>>
      PROVE  NoNullAccess'
  BY <1>1, <1>4 DEF Abort, Cleanup, NoNullAccess
<1> HIDE DEF fed
<1>5. CASE StepAtEnd \/ CheckFull \/ CheckDone \/ Return
  <2>1. UNCHANGED <<parents, source, pos, held>>
    BY <1>5 DEF StepAtEnd, CheckFull, CheckDone, Return
  <2> QED
    BY <1>1, <2>1 DEF NoNullAccess
<1>6. CASE ReadEof
  BY <1>1, <1>4, <1>6, GoodAbort DEF ReadEof, Stepping
<1>7. ASSUME NEW t, RejectToken(t)
      PROVE  Good(parents', source', pos') /\ NoNullAccess'
  <2>1. Abort(fed, source) /\ pos' = pos + 1 /\ parents # <<>>
    BY <1>7 DEF RejectToken, Reading, Stepping, fed
  <2> QED
    BY <1>2, <1>4, <2>1, GoodAbort
<1>8. ASSUME NEW t, ReadEoc(t)
      PROVE  Good(parents', source', pos') /\ NoNullAccess'
  <2>1. /\ parents' = fed /\ pos' = pos + 1 /\ parents # <<>>
        /\ UNCHANGED <<source, held>>
    BY <1>8 DEF ReadEoc, Reading, Stepping, fed
  <2> QED
    BY <1>1, <1>2, <2>1 DEF NoNullAccess
<1>9. ASSUME NEW t, SkipAppblob(t)
      PROVE  Good(parents', source', pos') /\ NoNullAccess'
  <2>1. /\ parents' = Counted(fed) /\ pos' = pos + 1 /\ parents # <<>>
        /\ UNCHANGED <<source, held>>
    BY <1>9 DEF SkipAppblob, Reading, Stepping, ThenCheck, fed
  <2> QED
    BY <1>1, <1>2, <1>3, <2>1, GoodCounted DEF NoNullAccess
<1>10. ASSUME NEW t, NEW reply \in BOOLEAN, PushNode(t, reply)
       PROVE  Good(parents', source', pos') /\ NoNullAccess'
  <2>1. pos' = pos + 1 /\ parents # <<>>
    BY <1>10 DEF PushNode, Reading, Stepping
  <2>2. CASE reply
    <3>1. parents' = Counted(fed) /\ UNCHANGED <<source, held>>
      BY <1>10, <2>2 DEF PushNode, ThenCheck, fed
    <3> QED
      BY <1>1, <1>2, <1>3, <2>1, <3>1, GoodCounted DEF NoNullAccess
  <2>3. CASE ~reply
    <3>1. Abort(fed, source)
      BY <1>10, <2>3 DEF PushNode, fed
    <3> QED
      BY <1>2, <1>4, <2>1, <3>1, GoodAbort
  <2> QED
    BY <2>2, <2>3
<1>11. ASSUME NEW t \in Tokens, NEW reply \in BOOLEAN, StartContainer(t, reply)
       PROVE  Good(parents', source', pos') /\ NoNullAccess'
  <2> DEFINE f == Frame(t)
             stack == Append(fed, f)
             src == IF f.pipe # <<>> THEN f.pipe ELSE source
  <2>1. pos' = pos + 1 /\ parents # <<>> /\ t \in Headers
    BY <1>11 DEF StartContainer, Reading, Stepping, Tokens
  <2>2. f \in FrameType
    BY <1>1, <2>1, NewFrameType DEF Frame
  <2>3. /\ f.id = pos + 1 /\ f.fed = 0
        /\ f.pipe = <<>> \/ f.pipe = Append(source, f.id)
    BY DEF Frame, NewFrame
  <2>4. IF reply
        THEN /\ parents' = stack /\ source' = src
             /\ ThenCheck("container")
        ELSE Abort(stack, src)
    BY <1>11 DEF StartContainer, fed
  <2> HIDE DEF f
  <2>5. Good(stack, src, pos + 1)
    BY <1>2, <1>3, <2>1, <2>2, <2>3, GoodPush DEF HasPipe
  <2> HIDE DEF stack, src
  <2>6. CASE reply
    BY <1>1, <2>1, <2>4, <2>5, <2>6 DEF ThenCheck, NoNullAccess
  <2>7. CASE ~reply
    BY <1>4, <2>1, <2>4, <2>5, <2>7, GoodAbort
  <2> QED
    BY <2>6, <2>7
<1>12. CASE FooterEof
  <2>1. /\ Len(parents) > 1 /\ pos' = pos
        /\ Abort(Front(parents), SourceBelow(CurrParent))
    BY <1>12 DEF FooterEof, Ending
  <2>2. parents # <<>>
    BY <1>1, <2>1, EmptySeq
  <2> QED
    BY <1>1, <1>4, <2>1, <2>2, GoodBelow, GoodAbort
<1>13. ASSUME NEW foot, RejectFooter(foot)
       PROVE  Good(parents', source', pos') /\ NoNullAccess'
  <2>1. /\ Len(parents) > 1 /\ pos' = pos + 1
        /\ Abort(StackBelow(CurrParent), SourceBelow(CurrParent))
    BY <1>13 DEF RejectFooter, Ending
  <2>2. IsHashed(CurrParent)
    BY <1>13 DEF RejectFooter, Footers, FooterAccepted
  <2>3. parents # <<>>
    BY <1>1, <2>1, EmptySeq
  <2> QED
    BY <1>1, <1>4, <2>1, <2>2, <2>3, GoodBelow, GoodAbort
<1>14. ASSUME NEW foot, NEW reply \in BOOLEAN, EndContainer(foot, reply)
       PROVE  Good(parents', source', pos') /\ NoNullAccess'
  <2> DEFINE stack == StackBelow(CurrParent)
             src == SourceBelow(CurrParent)
  <2>1. Len(parents) > 1 /\ parents # <<>>
    BY <1>1, <1>14, EmptySeq DEF EndContainer, Ending
  <2>2. foot \in Footers(CurrParent)
    BY <1>14 DEF EndContainer
  <2>3. CASE IsHashed(CurrParent)
    <3>1. foot # "none"
      BY <2>2, <2>3 DEF Footers
    <3>2. pos' = pos + 1
      BY <1>14, <3>1 DEF EndContainer
    <3> QED
      <4>1. Good(stack, src, pos')
        BY <1>1, <2>1, <2>3, <3>2, GoodBelow
      <4>2. CASE reply
        <5>1. parents' = Counted(stack) /\ source' = src /\ held' = held
          BY <1>14, <4>2 DEF EndContainer, ThenCheck
        <5> QED
          BY <1>1, <2>1, <4>1, <5>1, GoodCounted, StackBelowFacts DEF NoNullAccess
      <4>3. CASE ~reply
        <5>1. Abort(stack, src)
          BY <1>14, <4>3 DEF EndContainer
        <5> QED
          BY <1>4, <2>1, <4>1, <5>1, GoodAbort
      <4> QED
        BY <4>2, <4>3
  <2>4. CASE ~IsHashed(CurrParent)
    <3>1. pos' = pos
      BY <1>14, <2>2, <2>4 DEF EndContainer, Footers
    <3>2. Good(stack, src, pos')
      BY <1>1, <2>1, <2>4, <3>1, GoodBelow
    <3>3. CASE reply
      <4>1. parents' = Counted(stack) /\ source' = src /\ held' = held
        BY <1>14, <3>3 DEF EndContainer, ThenCheck
      <4> QED
        BY <1>1, <2>1, <3>2, <4>1, GoodCounted, StackBelowFacts DEF NoNullAccess
    <3>4. CASE ~reply
      <4>1. Abort(stack, src)
        BY <1>14, <3>4 DEF EndContainer
      <4> QED
        BY <1>4, <2>1, <3>2, <4>1, GoodAbort
    <3> QED
      BY <3>3, <3>4
  <2> QED
    BY <2>3, <2>4
<1>15. ASSUME NEW reply \in BOOLEAN, EndOfStream(reply)
       PROVE  Good(parents', source', pos') /\ NoNullAccess'
  <2>1. parents' = <<>> /\ pos' = pos /\ source' \in {source, <<>>}
    BY <1>15 DEF EndOfStream, CallOver
  <2>2. source = <<>>
    <3>1. Len(parents) = 1 /\ parents # <<>>
      <4>1. Len(parents) = 1
        BY <1>15 DEF EndOfStream
      <4>2. Len(<<>>) = 0
        OBVIOUS
      <4> QED
        BY <4>1, <4>2
    <3>2. \A i \in 1..Len(parents) : ~HasPipe(parents[i])
      BY <1>1, <3>1 DEF Good
    <3> QED
      BY <1>1, <3>2 DEF Good, Chains, Chained, InnermostPipe
  <2> QED
    BY <1>1, <2>1, <2>2, GoodEmpty DEF NoNullAccess
<1> QED
  BY <1>5, <1>6, <1>7, <1>8, <1>9, <1>10, <1>11, <1>12, <1>13, <1>14, <1>15
  DEF Read

(* The inductive invariant holds in every reachable state: the chain of    *)
(* pipes, the digests and the pointers of the reader are always consistent.*)
LEMMA ReaderInvInvariant == Spec => []ReaderInv
<1>1. ReaderInv /\ UNCHANGED vars => ReaderInv'
  <2> SUFFICES ASSUME ReaderInv, UNCHANGED vars PROVE ReaderInv'
    OBVIOUS
  <2>1. TypeOK' /\ UNCHANGED <<parents, source, pos, held>>
    BY DEF ReaderInv, TypeOK, vars, readerVars, historyVars
  <2> QED
    BY <2>1 DEF ReaderInv, SourceMatchesStack, HashCoversBody, NoNullAccess
<1>2. ReaderInv /\ Next => ReaderInv'
  <2> SUFFICES ASSUME ReaderInv, Next PROVE ReaderInv'
    OBVIOUS
  <2>1. TypeOK'
    BY CallType, ReadType DEF Next, ReaderInv
  <2>2. Good(parents', source', pos') /\ NoNullAccess'
    BY CallReaderInv, ReadReaderInv DEF Next
  <2> QED
    BY <2>1, <2>2 DEF ReaderInv, Good, Chains, SourceMatchesStack, HashCoversBody
<1>3. ReaderInv /\ [Next]_vars => ReaderInv'
  BY <1>1, <1>2
<1> QED
  BY InitReaderInv, <1>3, PTL DEF Spec

(* The source always is the chain of the pipes of the open, checked        *)
(* containers, after any sequence of calls, inputs, refusals and errors.   *)
THEOREM SourceAlwaysMatchesStack == Spec => []SourceMatchesStack
<1>1. ReaderInv => SourceMatchesStack
  BY DEF ReaderInv
<1> QED
  BY <1>1, ReaderInvInvariant, PTL

(* Every digest in progress covers exactly the body of its container.      *)
THEOREM HashAlwaysCoversBody == Spec => []HashCoversBody
<1>1. ReaderInv => HashCoversBody
  BY DEF ReaderInv
<1> QED
  BY <1>1, ReaderInvInvariant, PTL

(* No read_step runs without a source and a sink.                          *)
THEOREM NeverNullAccess == Spec => []NoNullAccess
<1>1. ReaderInv => NoNullAccess
  BY DEF ReaderInv
<1> QED
  BY <1>1, ReaderInvInvariant, PTL
=============================================================================
