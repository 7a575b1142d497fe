---------------------------- MODULE ReadBackProofs ----------------------------
(***************************************************************************)
(* What is written is read back: theorems about Roundtrip.                 *)
(*                                                                         *)
(* The proofs remember how far the output was, and which containers were   *)
(* open, after each event that has been sent; the reader goes through      *)
(* these marks one by one.                                                 *)
(***************************************************************************)
EXTENDS RoundtripProofs

-----------------------------------------------------------------------------
(* The marks of a stream.                                                  *)

EventType ==
    [event: {"start_container"}, count: Counts]
      \cup [event: {"push_node", "end_container", "end_of_stream"}]

OpenedType == [id: Nat, count: Counts, children: Nat]

(* A container that is open; without a count it is armored.                *)
EntryType ==
    {f \in [id: Nat, count: Counts, armored: BOOLEAN, hash: Hashes, children: Nat] :
        f.count = -1 => f.armored}

MarkType == [len: Nat, stack: Seq(EntryType)]

(* The innermost container of s has one more child.                        *)
Added(s) == IF s = <<>> THEN s ELSE [s EXCEPT ![Len(s)].children = @ + 1]

Roomy(s) == s # <<>> => Last(s).count = -1 \/ Last(s).children < Last(s).count

(* What the output has at p, if it gets as far.                            *)
UnitAt(o, p, u) == p <= Len(o) => o[p] = u

(* From the mark m to the mark n, by each of the events.                   *)
Started(m, e, n, o) ==
    /\ Roomy(m.stack)
    /\ n.len = m.len + 1
    /\ \E f \in EntryType :
          /\ f.id = n.len /\ f.count = e.count /\ f.children = 0
          /\ n.stack = Append(m.stack, f)
          /\ UnitAt(o, n.len, [kind |-> "container", size |-> f.count,
                               armored |-> f.armored, hash |-> f.hash])

Pushed(m, n, o) ==
    /\ Roomy(m.stack)
    /\ n.len = m.len + 1 /\ n.stack = Added(m.stack)
    /\ UnitAt(o, n.len, [kind |-> "leaf"])

MarkerLen(f) == IF f.armored THEN 1 ELSE 0
FooterLen(f) == IF f.hash = HT_NONE THEN 0 ELSE 1

Ended(m, n, o) ==
    /\ m.stack # <<>> /\ n.stack = Added(Front(m.stack))
    /\ LET f == Last(m.stack) IN
       /\ f.count \in {-1, f.children}
       /\ n.len = m.len + MarkerLen(f) + FooterLen(f)
       /\ f.armored => UnitAt(o, m.len + 1, [kind |-> "eoc"])
       /\ f.hash # HT_NONE =>
             UnitAt(o, n.len, [kind |-> "digest", of |-> (f.id + 1)..(n.len - 1)])

Finished(m, n, o) ==
    /\ m.stack = <<>> /\ n.stack = <<>>
    /\ n.len = m.len + 1
    /\ UnitAt(o, n.len, [kind |-> "eoc"])

Marked(m, e, n, o) ==
    \/ e.event = "start_container" /\ Started(m, e, n, o)
    \/ e = Node /\ Pushed(m, n, o)
    \/ e = End /\ Ended(m, n, o)
    \/ e = Eos /\ Finished(m, n, o)

(* h has a mark for the beginning and one for each of the events ev.       *)
Script(h, ev, o) ==
    /\ h \in Seq(MarkType) /\ Len(h) = Len(ev) + 1
    /\ h[1].len = 0 /\ h[1].stack = <<>>
    /\ \A k \in 1..Len(ev) : Marked(h[k], ev[k], h[k + 1], o)

(* The containers s are those of the source and those of the writer.       *)
Agree(s, os, ws) ==
    /\ Len(os) = Len(s) /\ Len(ws) = Len(s)
    /\ \A i \in 1..Len(s) :
          /\ os[i].id = s[i].id /\ os[i].count = s[i].count
          /\ os[i].children = s[i].children
          /\ ws[i].id = s[i].id /\ ws[i].count = s[i].count
          /\ ws[i].armored = s[i].armored /\ ws[i].hash = s[i].hash

(* The marks of what has been sent.  Only of the last event there may be   *)
(* less in the output than its mark says.                                  *)
Marks(h) ==
    LET n == Len(sent)
        last == h[n + 1]
    IN  /\ Script(h, sent, out)
        /\ \A k \in 1..n : h[k].len <= Len(out)
        /\ Len(out) <= last.len
        /\ Len(last.stack) = Len(srcOpen)
        /\ srcPhase = "live" /\ state = "open" =>
              last.len = Len(out) /\ Agree(last.stack, srcOpen, stack)
        /\ srcPhase = "ended" =>
              /\ last.len = Len(out) /\ srcOpen = <<>>
              /\ n > 0 /\ sent[n] = Eos
              /\ \A k \in 1..n : h[k].len < Len(out)
        /\ \A k \in 1..n : sent[k] = Eos => k = n /\ srcPhase = "ended"

SentType ==
    /\ sent \in Seq(EventType) /\ out \in Seq(UnitType) /\ srcOpen \in Seq(OpenedType)

History == SentType /\ \E h : Marks(h)

-----------------------------------------------------------------------------
(* Counting children.                                                      *)

More(f) == [f EXCEPT !.children = f.children + 1]

Countable(T) == \A f \in T : f.children \in Nat /\ More(f) \in T

OneMore(T, s, t) ==
    /\ t \in Seq(T) /\ Len(t) = Len(s)
    /\ \A i \in 1..Len(s) : t[i] = IF i = Len(s) THEN More(s[i]) ELSE s[i]

LEMMA AddedFacts ==
    ASSUME NEW T, NEW s \in Seq(T), Countable(T)
    PROVE  OneMore(T, s, Added(s))
<1> DEFINE t == Added(s)
<1>1. CASE s = <<>>
  <2>1. t = s /\ Len(s) = 0
    BY <1>1 DEF Added
  <2> QED
    BY <2>1 DEF OneMore
<1>2. CASE s # <<>>
  <2> DEFINE n == Len(s)
             g == More(s[n])
  <2>1. n \in 1..n /\ n \in Nat /\ s[n] \in T
    BY <1>2, EmptySeq, LenProperties
  <2>2. g \in T
    BY <2>1 DEF Countable
  <2>3. t = [s EXCEPT ![n] = g]
    BY <1>2 DEF Added, More
  <2> HIDE DEF g, t
  <2>4. t \in Seq(T) /\ Len(t) = n /\ \A i \in 1..n : t[i] = IF i = n THEN g ELSE s[i]
    BY <2>1, <2>2, <2>3
  <2>5. OneMore(T, s, t)
    BY <2>4 DEF OneMore, g
  <2> QED
    BY <2>5 DEF t
<1> QED
  BY <1>1, <1>2

LEMMA EntryAdded ==
    ASSUME NEW s \in Seq(EntryType), NEW t, t = Added(s)
    PROVE  /\ t \in Seq(EntryType) /\ Len(t) = Len(s)
           /\ \A i \in 1..Len(s) :
                 /\ t[i].id = s[i].id /\ t[i].count = s[i].count
                 /\ t[i].armored = s[i].armored /\ t[i].hash = s[i].hash
                 /\ t[i].children = IF i = Len(s) THEN s[i].children + 1 ELSE s[i].children
<1>1. ASSUME NEW f \in EntryType
      PROVE  /\ f.children \in Nat /\ More(f) \in EntryType
             /\ More(f).id = f.id /\ More(f).count = f.count
             /\ More(f).armored = f.armored /\ More(f).hash = f.hash
             /\ More(f).children = f.children + 1
  BY DEF EntryType, More
<1>2. Countable(EntryType)
  BY <1>1 DEF Countable
<1>3. OneMore(EntryType, s, t)
  BY <1>2, AddedFacts
<1>4. /\ t \in Seq(EntryType) /\ Len(t) = Len(s)
      /\ \A i \in 1..Len(s) : t[i] = IF i = Len(s) THEN More(s[i]) ELSE s[i]
  BY <1>3 DEF OneMore
<1>5. \A i \in 1..Len(s) : s[i] \in EntryType
  OBVIOUS
<1> QED
  BY <1>1, <1>4, <1>5

LEMMA OpenedAdded ==
    ASSUME NEW s \in Seq(OpenedType), NEW t, t = S!AddChild(s)
    PROVE  /\ t \in Seq(OpenedType) /\ Len(t) = Len(s)
           /\ \A i \in 1..Len(s) :
                 /\ t[i].id = s[i].id /\ t[i].count = s[i].count
                 /\ t[i].children = IF i = Len(s) THEN s[i].children + 1 ELSE s[i].children
<1>1. ASSUME NEW f \in OpenedType
      PROVE  /\ f.children \in Nat /\ More(f) \in OpenedType
             /\ More(f).id = f.id /\ More(f).count = f.count
             /\ More(f).children = f.children + 1
  BY DEF OpenedType, More
<1>2. t = Added(s)
  BY DEF S!AddChild, Added
<1>3. Countable(OpenedType)
  BY <1>1 DEF Countable
<1>4. OneMore(OpenedType, s, t)
  BY <1>2, <1>3, AddedFacts
<1>5. /\ t \in Seq(OpenedType) /\ Len(t) = Len(s)
      /\ \A i \in 1..Len(s) : t[i] = IF i = Len(s) THEN More(s[i]) ELSE s[i]
  BY <1>4 DEF OneMore
<1>6. \A i \in 1..Len(s) : s[i] \in OpenedType
  OBVIOUS
<1> QED
  BY <1>1, <1>5, <1>6

(* Source, writer and marks, as containers begin, get children and end.    *)
LEMMA AgreeStarted ==
    ASSUME NEW s \in Seq(EntryType), NEW os \in Seq(OpenedType), NEW ws \in Seq(InfoType),
           Agree(s, os, ws), NEW f, NEW o, NEW w,
           o.id = f.id, o.count = f.count, o.children = f.children,
           w.id = f.id, w.count = f.count, w.armored = f.armored, w.hash = f.hash
    PROVE  Agree(Append(s, f), Append(os, o), Append(ws, w))
<1> DEFINE n == Len(s)
           t == Append(s, f)
           ot == Append(os, o)
           wt == Append(ws, w)
<1>1. n \in Nat /\ Len(os) = n /\ Len(ws) = n
  BY LenProperties DEF Agree
<1>2. /\ Len(t) = n + 1 /\ Len(ot) = n + 1 /\ Len(wt) = n + 1
      /\ t[n + 1] = f /\ ot[n + 1] = o /\ wt[n + 1] = w
      /\ \A i \in 1..n : t[i] = s[i] /\ ot[i] = os[i] /\ wt[i] = ws[i]
  BY <1>1, AppendProperties
<1>3. \A i \in 1..n :
          /\ os[i].id = s[i].id /\ os[i].count = s[i].count
          /\ os[i].children = s[i].children
          /\ ws[i].id = s[i].id /\ ws[i].count = s[i].count
          /\ ws[i].armored = s[i].armored /\ ws[i].hash = s[i].hash
  BY DEF Agree
<1> HIDE DEF n, t, ot, wt
<1>4. ASSUME NEW i \in 1..(n + 1)
      PROVE  /\ ot[i].id = t[i].id /\ ot[i].count = t[i].count
             /\ ot[i].children = t[i].children
             /\ wt[i].id = t[i].id /\ wt[i].count = t[i].count
             /\ wt[i].armored = t[i].armored /\ wt[i].hash = t[i].hash
  <2>1. CASE i = n + 1
    BY <1>2, <2>1
  <2>2. CASE i \in 1..n
    BY <1>2, <1>3, <2>2
  <2> QED
    BY <1>1, <2>1, <2>2
<1>5. Agree(t, ot, wt)
  BY <1>2, <1>4 DEF Agree
<1> QED
  BY <1>5 DEF t, ot, wt

LEMMA AgreeAdded ==
    ASSUME NEW s \in Seq(EntryType), NEW os \in Seq(OpenedType), NEW ws,
           Agree(s, os, ws)
    PROVE  Agree(Added(s), S!AddChild(os), ws)
<1> DEFINE n == Len(s)
           t == Added(s)
           ot == S!AddChild(os)
<1>1. n \in Nat /\ Len(os) = n /\ Len(ws) = n
  BY LenProperties DEF Agree
<1>2. \A i \in 1..n :
          /\ os[i].id = s[i].id /\ os[i].count = s[i].count
          /\ os[i].children = s[i].children
          /\ ws[i].id = s[i].id /\ ws[i].count = s[i].count
          /\ ws[i].armored = s[i].armored /\ ws[i].hash = s[i].hash
  BY DEF Agree
<1>3. /\ Len(t) = n
      /\ \A i \in 1..n :
            /\ t[i].id = s[i].id /\ t[i].count = s[i].count
            /\ t[i].armored = s[i].armored /\ t[i].hash = s[i].hash
            /\ t[i].children = IF i = n THEN s[i].children + 1 ELSE s[i].children
  BY EntryAdded
<1>4. /\ Len(ot) = n
      /\ \A i \in 1..n :
            /\ ot[i].id = os[i].id /\ ot[i].count = os[i].count
            /\ ot[i].children = IF i = n THEN os[i].children + 1 ELSE os[i].children
  BY <1>1, OpenedAdded
<1> HIDE DEF n, t, ot
<1>5. ASSUME NEW i \in 1..n
      PROVE  /\ ot[i].id = t[i].id /\ ot[i].count = t[i].count
             /\ ot[i].children = t[i].children
             /\ ws[i].id = t[i].id /\ ws[i].count = t[i].count
             /\ ws[i].armored = t[i].armored /\ ws[i].hash = t[i].hash
  BY <1>2, <1>3, <1>4
<1>6. Agree(t, ot, ws)
  BY <1>1, <1>3, <1>4, <1>5 DEF Agree
<1> QED
  BY <1>6 DEF t, ot

LEMMA AgreeFront ==
    ASSUME NEW s \in Seq(EntryType), NEW os \in Seq(OpenedType), NEW ws \in Seq(InfoType),
           Agree(s, os, ws), os # <<>>
    PROVE  /\ s # <<>> /\ ws # <<>>
           /\ Last(os).count = Last(s).count /\ Last(os).children = Last(s).children
           /\ Last(ws).id = Last(s).id /\ Last(ws).armored = Last(s).armored
           /\ Last(ws).hash = Last(s).hash
           /\ Agree(Front(s), Front(os), Front(ws))
<1> DEFINE n == Len(s)
           t == Front(s)
           ot == Front(os)
           wt == Front(ws)
<1>1. n \in Nat \ {0} /\ Len(os) = n /\ Len(ws) = n
  BY EmptySeq, LenProperties DEF Agree
<1>2. s # <<>> /\ ws # <<>>
  BY <1>1
<1>3. /\ Len(t) = n - 1 /\ Len(ot) = n - 1 /\ Len(wt) = n - 1
      /\ \A i \in 1..(n - 1) : t[i] = s[i] /\ ot[i] = os[i] /\ wt[i] = ws[i]
      /\ Last(s) = s[n] /\ Last(os) = os[n] /\ Last(ws) = ws[n]
  BY <1>1, <1>2, FrontFacts
<1>4. \A i \in 1..n :
          /\ os[i].id = s[i].id /\ os[i].count = s[i].count
          /\ os[i].children = s[i].children
          /\ ws[i].id = s[i].id /\ ws[i].count = s[i].count
          /\ ws[i].armored = s[i].armored /\ ws[i].hash = s[i].hash
  BY DEF Agree
<1> HIDE DEF n, t, ot, wt
<1>5. n \in 1..n /\ \A i \in 1..(n - 1) : i \in 1..n
  BY <1>1
<1>6. Agree(t, ot, wt)
  <2>1. ASSUME NEW i \in 1..(n - 1)
        PROVE  /\ ot[i].id = t[i].id /\ ot[i].count = t[i].count
               /\ ot[i].children = t[i].children
               /\ wt[i].id = t[i].id /\ wt[i].count = t[i].count
               /\ wt[i].armored = t[i].armored /\ wt[i].hash = t[i].hash
    <3>1. i \in 1..n
      BY <1>5
    <3>2. t[i] = s[i] /\ ot[i] = os[i] /\ wt[i] = ws[i]
      BY <1>3
    <3> QED
      BY <1>4, <3>1, <3>2
  <2> QED
    BY <1>3, <2>1 DEF Agree
<1>7. /\ Last(os).count = Last(s).count /\ Last(os).children = Last(s).children
      /\ Last(ws).id = Last(s).id /\ Last(ws).armored = Last(s).armored
      /\ Last(ws).hash = Last(s).hash
  BY <1>3, <1>4, <1>5
<1> QED
  BY <1>2, <1>6, <1>7 DEF t, ot, wt

-----------------------------------------------------------------------------
(* Marks stay true as the output gets longer.                              *)

Extends(o, p) == Len(o) <= Len(p) /\ \A i \in 1..Len(o) : p[i] = o[i]

LEMMA UnitMore ==
    ASSUME NEW o, NEW p, Len(o) \in Nat, Extends(o, p),
           NEW i \in Nat \ {0}, i <= Len(o), NEW u, UnitAt(o, i, u)
    PROVE  UnitAt(p, i, u)
<1>1. i \in 1..Len(o) /\ o[i] = u
  BY DEF UnitAt
<1> QED
  BY <1>1 DEF Extends, UnitAt

LEMMA FooterLengths ==
    ASSUME NEW f
    PROVE  /\ MarkerLen(f) \in 0..1 /\ FooterLen(f) \in 0..1
           /\ f.armored => MarkerLen(f) = 1
           /\ ~f.armored => MarkerLen(f) = 0
           /\ f.hash = HT_NONE <=> FooterLen(f) = 0
BY DEF MarkerLen, FooterLen

LEMMA MarkedMore ==
    ASSUME NEW o, NEW p, Len(o) \in Nat, Extends(o, p),
           NEW m \in MarkType, NEW n \in MarkType, n.len <= Len(o),
           NEW e, Marked(m, e, n, o)
    PROVE  Marked(m, e, n, p)
<1>1. m.len \in Nat /\ n.len \in Nat
  BY DEF MarkType
<1>2. CASE e.event = "start_container" /\ Started(m, e, n, o)
  <2>1. PICK f \in EntryType :
           /\ f.id = n.len /\ f.count = e.count /\ f.children = 0
           /\ n.stack = Append(m.stack, f)
           /\ UnitAt(o, n.len, [kind |-> "container", size |-> f.count,
                                armored |-> f.armored, hash |-> f.hash])
    BY <1>2 DEF Started
  <2>2. Roomy(m.stack) /\ n.len = m.len + 1
    BY <1>2 DEF Started
  <2>3. UnitAt(p, n.len, [kind |-> "container", size |-> f.count,
                          armored |-> f.armored, hash |-> f.hash])
    BY <1>1, <2>1, <2>2, UnitMore
  <2>4. Started(m, e, n, p)
    BY <2>1, <2>2, <2>3 DEF Started
  <2> QED
    BY <1>2, <2>4 DEF Marked
<1>3. CASE e = Node /\ Pushed(m, n, o)
  <2>1. Pushed(m, n, p)
    BY <1>1, <1>3, UnitMore DEF Pushed
  <2> QED
    BY <1>3, <2>1 DEF Marked
<1>4. CASE e = End /\ Ended(m, n, o)
  <2> DEFINE f == Last(m.stack)
             d == [kind |-> "digest", of |-> (f.id + 1)..(n.len - 1)]
  <2>1. /\ m.stack # <<>> /\ n.stack = Added(Front(m.stack))
        /\ f.count \in {-1, f.children}
        /\ n.len = m.len + MarkerLen(f) + FooterLen(f)
        /\ f.armored => UnitAt(o, m.len + 1, [kind |-> "eoc"])
        /\ f.hash # HT_NONE => UnitAt(o, n.len, d)
    BY <1>4 DEF Ended
  <2> HIDE DEF f, d
  <2>2. f.armored => UnitAt(p, m.len + 1, [kind |-> "eoc"])
    <3>1. f.armored => m.len + 1 \in Nat \ {0} /\ m.len + 1 <= Len(o)
      BY <1>1, <2>1, FooterLengths
    <3> QED
      BY <2>1, <3>1, UnitMore
  <2>3. f.hash # HT_NONE => UnitAt(p, n.len, d)
    <3>1. f.hash # HT_NONE => n.len \in Nat \ {0}
      BY <1>1, <2>1, FooterLengths
    <3> QED
      BY <2>1, <3>1, UnitMore
  <2>4. Ended(m, n, p)
    BY <2>1, <2>2, <2>3 DEF Ended, f, d
  <2> QED
    BY <1>4, <2>4 DEF Marked
<1>5. CASE e = Eos /\ Finished(m, n, o)
  <2>1. Finished(m, n, p)
    BY <1>1, <1>5, UnitMore DEF Finished
  <2> QED
    BY <1>5, <2>1 DEF Marked
<1> QED
  BY <1>2, <1>3, <1>4, <1>5 DEF Marked

LEMMA ScriptMore ==
    ASSUME NEW h, NEW ev \in Seq(EventType), NEW o, NEW p, Len(o) \in Nat, Extends(o, p),
           Script(h, ev, o), \A k \in 1..(Len(ev) + 1) : h[k].len <= Len(o),
           NEW e, NEW m \in MarkType, Marked(h[Len(ev) + 1], e, m, p)
    PROVE  Script(Append(h, m), Append(ev, e), p)
<1> DEFINE n == Len(ev)
           g == Append(h, m)
           ew == Append(ev, e)
<1>1. n \in Nat /\ h \in Seq(MarkType) /\ Len(h) = n + 1
  BY LenProperties DEF Script
<1>2. /\ g \in Seq(MarkType) /\ Len(g) = n + 1 + 1 /\ g[n + 1 + 1] = m
      /\ \A k \in 1..(n + 1) : g[k] = h[k]
  BY <1>1, AppendProperties
<1>3. /\ Len(ew) = n + 1 /\ ew[n + 1] = e /\ \A k \in 1..n : ew[k] = ev[k]
  BY <1>1, AppendProperties
<1>4. /\ h[1].len = 0 /\ h[1].stack = <<>>
      /\ \A k \in 1..n : Marked(h[k], ev[k], h[k + 1], o)
      /\ \A k \in 1..(n + 1) : h[k] \in MarkType /\ h[k].len <= Len(o)
  BY <1>1 DEF Script
<1>5. Marked(h[n + 1], e, m, p)
  OBVIOUS
<1> HIDE DEF n, g, ew
<1>6. 1 \in 1..(n + 1) /\ n + 1 \in 1..(n + 1) /\ \A k \in 1..n : k \in 1..(n + 1) /\ k + 1 \in 1..(n + 1)
  BY <1>1
<1>7. ASSUME NEW k \in 1..(n + 1)
      PROVE  Marked(g[k], ew[k], g[k + 1], p)
  <2>1. CASE k = n + 1
    BY <1>2, <1>3, <1>5, <1>6, <2>1
  <2>2. CASE k \in 1..n
    <3>1. Marked(h[k], ev[k], h[k + 1], p)
      BY <1>4, <1>6, <2>2, MarkedMore
    <3> QED
      BY <1>2, <1>3, <1>6, <2>2, <3>1
  <2> QED
    BY <1>1, <2>1, <2>2
<1>8. g[1].len = 0 /\ g[1].stack = <<>>
  BY <1>2, <1>4, <1>6
<1>9. Script(g, ew, p)
  BY <1>2, <1>3, <1>7, <1>8 DEF Script
<1> QED
  BY <1>9 DEF g, ew

(* An event has been sent: what the marks of the stream and its state need *)
(* for there to be marks again.                                            *)
LEMMA Sent ==
    ASSUME SentType, NEW h, Marks(h), srcPhase = "live", state = "open",
           NEW e \in EventType, sent' = Append(sent, e),
           out' \in Seq(UnitType), Extends(out, out'), srcOpen' \in Seq(OpenedType),
           NEW m \in MarkType, Marked(h[Len(sent) + 1], e, m, out'),
           Len(out') <= m.len, Len(m.stack) = Len(srcOpen'),
           srcPhase' = "live" /\ state' = "open" =>
              m.len = Len(out') /\ Agree(m.stack, srcOpen', stack'),
           e = Eos <=> srcPhase' = "ended",
           srcPhase' = "ended" =>
              m.len = Len(out') /\ srcOpen' = <<>> /\ Len(out) < Len(out')
    PROVE  History'
<1> DEFINE n == Len(sent)
           l == Len(out)
           q == Len(out')
           g == Append(h, m)
<1>1. /\ sent \in Seq(EventType) /\ out \in Seq(UnitType)
      /\ n \in Nat /\ l \in Nat /\ q \in Nat /\ l <= q
  BY LenProperties DEF SentType, Extends
<1>2. /\ Script(h, sent, out) /\ \A k \in 1..n : h[k].len <= l
      /\ h[n + 1].len = l
      /\ \A k \in 1..n : sent[k] # Eos
  BY DEF Marks
<1>3. h \in Seq(MarkType) /\ Len(h) = n + 1
  BY <1>2 DEF Script
<1>4. \A k \in 1..(n + 1) : h[k].len \in Nat /\ h[k].len <= l
  <2>1. \A k \in 1..(n + 1) : h[k] \in MarkType
    BY <1>3
  <2>2. \A k \in 1..(n + 1) : k = n + 1 \/ k \in 1..n
    BY <1>1
  <2>3. \A k \in 1..(n + 1) : h[k].len \in Nat
    BY <2>1 DEF MarkType
  <2> HIDE DEF l
  <2> QED
    BY <1>1, <1>2, <2>2, <2>3
<1>5. sent' \in Seq(EventType) /\ Len(sent') = n + 1 /\ sent'[n + 1] = e
      /\ \A k \in 1..n : sent'[k] = sent[k]
  BY <1>1, AppendProperties
<1>6. Script(g, sent', out')
  BY <1>1, <1>2, <1>4, ScriptMore
<1>7. g[n + 1 + 1] = m /\ \A k \in 1..(n + 1) : g[k] = h[k]
  BY <1>1, <1>3, AppendProperties
<1> HIDE DEF g, l, q, n
<1>8. n + 1 > 0 /\ n + 1 \in 1..(n + 1)
  BY <1>1
<1>9. \A k \in 1..(n + 1) : g[k].len <= q
  <2> TAKE k \in 1..(n + 1)
  <2>1. g[k].len = h[k].len /\ h[k].len \in Nat /\ h[k].len <= l
    BY <1>4, <1>7
  <2> QED
    BY <1>1, <2>1
<1>10. l < q => \A k \in 1..(n + 1) : g[k].len < q
  <2> SUFFICES ASSUME l < q, NEW k \in 1..(n + 1) PROVE g[k].len < q
    OBVIOUS
  <2>1. g[k].len = h[k].len /\ h[k].len \in Nat /\ h[k].len <= l
    BY <1>4, <1>7
  <2> QED
    BY <1>1, <2>1
<1>11. \A k \in 1..(n + 1) : sent'[k] = Eos => k = n + 1 /\ srcPhase' = "ended"
  <2> TAKE k \in 1..(n + 1)
  <2>1. k = n + 1 \/ k \in 1..n
    BY <1>1
  <2> QED
    BY <1>2, <1>5, <2>1
<1>12. srcPhase' = "ended" =>
          /\ m.len = q /\ srcOpen' = <<>> /\ n + 1 > 0 /\ sent'[n + 1] = Eos
          /\ \A k \in 1..(n + 1) : g[k].len < q
  BY <1>5, <1>8, <1>10 DEF l, q
<1>13. Marks(g)'
  BY <1>5, <1>6, <1>7, <1>9, <1>11, <1>12 DEF Marks, q
<1>14. SentType'
  BY <1>5 DEF SentType
<1> QED
  BY <1>13, <1>14 DEF History

-----------------------------------------------------------------------------
(* The events of the source.                                               *)

LEMMA SourceSequences == \A s : S!Last(s) = Last(s) /\ S!Front(s) = Front(s)
BY DEF S!Last, S!Front, Last, Front

LEMMA AppendExtends ==
    ASSUME NEW T, NEW s \in Seq(T), NEW u
    PROVE  /\ Len(s) \in Nat /\ Len(Append(s, u)) = Len(s) + 1
           /\ Append(s, u)[Len(s) + 1] = u
           /\ \A i \in 1..Len(s) : Append(s, u)[i] = s[i]
           /\ Extends(s, Append(s, u))
<1>1. /\ Len(s) \in Nat /\ Len(Append(s, u)) = Len(s) + 1
      /\ Append(s, u)[Len(s) + 1] = u
      /\ \A i \in 1..Len(s) : Append(s, u)[i] = s[i]
  BY AppendProperties, LenProperties
<1> QED
  BY <1>1 DEF Extends

(* What the marks say of a stream that goes on.                            *)
LEMMA MarksLive ==
    ASSUME WriterInv, SentType, NEW h, Marks(h), srcPhase = "live", state = "open"
    PROVE  LET m == h[Len(sent) + 1] IN
           /\ m \in MarkType /\ m.len = Len(out) /\ m.len \in Nat /\ m.stack \in Seq(EntryType)
           /\ Agree(m.stack, srcOpen, stack)
           /\ stack \in Seq(InfoType) /\ srcOpen \in Seq(OpenedType)
           /\ S!Room => Roomy(m.stack)
<1> DEFINE m == h[Len(sent) + 1]
<1>1. m \in MarkType
  <2>1. h \in Seq(MarkType) /\ Len(h) = Len(sent) + 1 /\ Len(sent) \in Nat
    BY LenProperties DEF Marks, Script, SentType
  <2> QED
    BY <2>1
<1>2. m.len = Len(out) /\ Agree(m.stack, srcOpen, stack)
  BY DEF Marks
<1>3. stack \in Seq(InfoType) /\ srcOpen \in Seq(OpenedType)
  BY DEF WriterInv, OpenInv, SentType
<1> HIDE DEF m
<1>4. m.len \in Nat /\ m.stack \in Seq(EntryType)
  BY <1>1 DEF MarkType
<1>5. ASSUME S!Room, m.stack # <<>>
      PROVE  Last(m.stack).count = -1 \/ Last(m.stack).children < Last(m.stack).count
  <2>1. srcOpen # <<>>
    BY <1>2, <1>3, <1>4, <1>5, EmptySeq DEF Agree
  <2>2. Last(srcOpen).count = -1 \/ Last(srcOpen).children < Last(srcOpen).count
    BY <1>5, <2>1, SourceSequences DEF S!Room
  <2> QED
    BY <1>2, <1>3, <1>4, <2>1, <2>2, AgreeFront
<1> QED
  BY <1>1, <1>2, <1>3, <1>4, <1>5 DEF m, Roomy

(* A container begins; its header is in the output in any case.            *)
LEMMA SentStart ==
    ASSUME WriterInv, SentType, NEW h, Marks(h), state = "open",
           NEW k \in Keys, NEW c \in Counts,
           S!StartContainer(Len(out) + 1, c), srcPhase' # "ended",
           out' = Append(out, W!Header(W!ParentInfo(k, c))),
           sent' = Append(sent, Start(c)),
           srcPhase' = "live" /\ state' = "open" => stack' = Append(stack, W!ParentInfo(k, c))
    PROVE  History'
<1> DEFINE l == Len(out)
           m == h[Len(sent) + 1]
           w == W!ParentInfo(k, c)
           o == S!Opened(l + 1, c)
           f == [id |-> l + 1, count |-> c, armored |-> W!Armored(c),
                 hash |-> functions[k], children |-> 0]
           n == [len |-> l + 1, stack |-> Append(m.stack, f)]
           u == [kind |-> "container", size |-> f.count,
                 armored |-> f.armored, hash |-> f.hash]
<1>1. srcPhase = "live" /\ S!Room /\ srcOpen' = Append(srcOpen, o)
  BY DEF S!StartContainer
<1>2. /\ m \in MarkType /\ m.len = l /\ m.stack \in Seq(EntryType)
      /\ Agree(m.stack, srcOpen, stack)
      /\ stack \in Seq(InfoType) /\ srcOpen \in Seq(OpenedType)
      /\ Roomy(m.stack)
  BY <1>1, MarksLive
<1>3. out \in Seq(UnitType) /\ l \in Nat /\ l + 1 \in Nat
  BY LenProperties DEF SentType
<1>4. f \in EntryType
  <2>1. c < 0 => W!Armored(c)
    BY DEF W!Armored
  <2>2. W!Armored(c) \in BOOLEAN /\ functions[k] \in Hashes
    BY DEF WriterInv, W!Armored
  <2>3. c = -1 => W!Armored(c)
    BY <2>1
  <2> QED
    BY <1>3, <2>2, <2>3 DEF EntryType
<1>5. /\ f.id = l + 1 /\ f.count = c /\ f.children = 0
      /\ o.id = f.id /\ o.count = f.count /\ o.children = f.children
      /\ w.id = f.id /\ w.count = f.count /\ w.armored = f.armored /\ w.hash = f.hash
      /\ W!Header(w) = u
  BY DEF S!Opened, W!ParentInfo, W!Header
<1>6. o \in OpenedType
  BY <1>3 DEF S!Opened, OpenedType
<1>7. u \in UnitType
  BY <1>4 DEF EntryType, UnitType
<1> HIDE DEF m, w, o, f, l, u
<1>8. n \in MarkType /\ n.len = l + 1 /\ n.stack = Append(m.stack, f)
  <2>1. Append(m.stack, f) \in Seq(EntryType)
    BY <1>2, <1>4, AppendProperties
  <2> QED
    BY <1>3, <2>1 DEF MarkType
<1> HIDE DEF n
<1>9. /\ out' \in Seq(UnitType) /\ Len(out') = l + 1 /\ out'[l + 1] = u
      /\ Extends(out, out')
  <2>1. out' = Append(out, u)
    BY <1>5 DEF w
  <2> QED
    BY <1>3, <1>7, <2>1, AppendExtends, AppendProperties DEF l
<1>10. srcOpen' \in Seq(OpenedType) /\ Len(srcOpen') = Len(srcOpen) + 1
  BY <1>1, <1>2, <1>6, AppendProperties
<1>11. Len(n.stack) = Len(srcOpen')
  BY <1>2, <1>4, <1>8, <1>10, AppendProperties DEF Agree
<1>12. Agree(n.stack, srcOpen', Append(stack, w))
  BY <1>1, <1>2, <1>5, <1>8, AgreeStarted
<1>13. Start(c) \in EventType /\ Start(c).event = "start_container" /\ Start(c).count = c
  BY DEF Start, EventType
<1>14. Start(c) # Eos
  BY <1>13 DEF Eos
<1>15. Marked(m, Start(c), n, out')
  <2>1. UnitAt(out', n.len, u)
    BY <1>8, <1>9 DEF UnitAt
  <2>2. Started(m, Start(c), n, out')
    BY <1>2, <1>4, <1>5, <1>8, <1>13, <2>1 DEF Started, u
  <2> QED
    BY <1>13, <2>2 DEF Marked
<1>16. l + 1 <= l + 1
  BY <1>3
<1>17. /\ Len(out') <= n.len
       /\ srcPhase' = "live" /\ state' = "open" =>
             n.len = Len(out') /\ Agree(n.stack, srcOpen', stack')
  BY <1>8, <1>9, <1>12, <1>16 DEF w
<1> QED
  BY <1>1, <1>8, <1>9, <1>10, <1>11, <1>13, <1>14, <1>15, <1>17, Sent DEF m

LEMMA SentNode ==
    ASSUME WriterInv, SentType, NEW h, Marks(h), SendNode
    PROVE  History'
<1> DEFINE l == Len(out)
           m == h[Len(sent) + 1]
           n == [len |-> l + 1, stack |-> Added(m.stack)]
           u == [kind |-> "leaf"]
<1>1. /\ srcPhase = "live" /\ S!Room /\ srcOpen' = S!AddChild(srcOpen)
      /\ srcPhase' = "live" /\ state = "open"
      /\ out' = Append(out, u) /\ stack' = stack
      /\ sent' = Append(sent, Node)
  BY DEF SendNode, S!PushNode, Live, W!PushNode, W!Open, Send
<1>2. /\ m \in MarkType /\ m.len = l /\ m.stack \in Seq(EntryType)
      /\ Agree(m.stack, srcOpen, stack)
      /\ srcOpen \in Seq(OpenedType)
      /\ Roomy(m.stack)
  BY <1>1, MarksLive
<1>3. out \in Seq(UnitType) /\ l \in Nat /\ l + 1 \in Nat
  BY LenProperties DEF SentType
<1>4. u \in UnitType
  BY DEF UnitType
<1> HIDE DEF m, l
<1>5. /\ Added(m.stack) \in Seq(EntryType)
      /\ srcOpen' \in Seq(OpenedType)
      /\ Agree(Added(m.stack), srcOpen', stack')
  BY <1>1, <1>2, EntryAdded, OpenedAdded, AgreeAdded
<1>6. n \in MarkType /\ n.len = l + 1 /\ n.stack = Added(m.stack)
  BY <1>3, <1>5 DEF MarkType
<1> HIDE DEF n
<1>7. /\ out' \in Seq(UnitType) /\ Len(out') = l + 1 /\ out'[l + 1] = u
      /\ Extends(out, out')
  BY <1>1, <1>3, <1>4, AppendExtends, AppendProperties DEF l
<1>8. Node \in EventType /\ Node # Eos
  BY DEF Node, Eos, EventType
<1>9. Marked(m, Node, n, out')
  BY <1>2, <1>6, <1>7 DEF Marked, Pushed, UnitAt
<1>10. Len(n.stack) = Len(srcOpen') /\ Len(out') <= n.len /\ n.len = Len(out')
  BY <1>3, <1>5, <1>6, <1>7 DEF Agree
<1> QED
  BY <1>1, <1>5, <1>6, <1>7, <1>8, <1>9, <1>10, Sent DEF m

LEMMA SentEos ==
    ASSUME WriterInv, SentType, NEW h, Marks(h), SendEos
    PROVE  History'
<1> DEFINE l == Len(out)
           m == h[Len(sent) + 1]
           n == [len |-> l + 1, stack |-> <<>>]
           u == [kind |-> "eoc"]
<1>1. /\ srcPhase = "live" /\ srcOpen = <<>> /\ srcOpen' = <<>>
      /\ srcPhase' = "ended" /\ state = "open"
      /\ out' = Append(out, u)
      /\ sent' = Append(sent, Eos)
  BY DEF SendEos, S!EndOfStream, W!Close, W!Open, Send
<1>2. /\ m \in MarkType /\ m.len = l /\ m.stack \in Seq(EntryType)
      /\ Agree(m.stack, srcOpen, stack)
  BY <1>1, MarksLive
<1>3. out \in Seq(UnitType) /\ l \in Nat /\ l + 1 \in Nat /\ l < l + 1 /\ l + 1 <= l + 1
  BY LenProperties DEF SentType
<1>4. u \in UnitType
  BY DEF UnitType
<1> HIDE DEF m, l
<1>5. m.stack = <<>>
  BY <1>1, <1>2, EmptySeq DEF Agree
<1>6. /\ n \in MarkType /\ n.len = l + 1 /\ n.stack = <<>>
      /\ srcOpen' \in Seq(OpenedType) /\ Len(n.stack) = Len(srcOpen')
  BY <1>1, <1>3, EmptySeq DEF MarkType
<1> HIDE DEF n
<1>7. /\ out' \in Seq(UnitType) /\ Len(out') = l + 1 /\ out'[l + 1] = u
      /\ Extends(out, out')
  BY <1>1, <1>3, <1>4, AppendExtends, AppendProperties DEF l
<1>8. Eos \in EventType
  BY DEF Eos, EventType
<1>9. Marked(m, Eos, n, out')
  BY <1>2, <1>5, <1>6, <1>7 DEF Marked, Finished, UnitAt
<1>10. Len(out') <= n.len /\ n.len = Len(out') /\ Len(out) < Len(out')
  BY <1>3, <1>6, <1>7 DEF l
<1> QED
  BY <1>1, <1>6, <1>7, <1>8, <1>9, <1>10, Sent DEF m

(* The footer of the innermost container, as far as it is written.         *)
LEMMA SentEnd ==
    ASSUME WriterInv, SentType, NEW h, Marks(h), state = "open",
           S!EndContainer, srcPhase' # "ended", sent' = Append(sent, End),
           NEW w, w = Last(stack),
           \/ out' = W!OutMarked(w) /\ (w.hash = HT_NONE \/ srcPhase' # "live")
           \/ /\ out' = Append(W!OutMarked(w), [kind |-> "digest", of |-> W!Digest(w)])
              /\ w.hash # HT_NONE,
           stack' = Front(stack)
    PROVE  History'
<1> DEFINE l == Len(out)
           m == h[Len(sent) + 1]
           f == Last(m.stack)
           o == W!OutMarked(w)
           q == Len(o)
           n == [len |-> m.len + MarkerLen(f) + FooterLen(f), stack |-> Added(Front(m.stack))]
           u == [kind |-> "eoc"]
           d == [kind |-> "digest", of |-> (f.id + 1)..q]
<1>1. /\ srcPhase = "live" /\ srcOpen # <<>> /\ srcOpen' = S!AddChild(Front(srcOpen))
      /\ Last(srcOpen).count \in {-1, Last(srcOpen).children}
  BY SourceSequences DEF S!EndContainer, S!Kept
<1>2. /\ m \in MarkType /\ m.len = l /\ m.stack \in Seq(EntryType)
      /\ Agree(m.stack, srcOpen, stack)
      /\ stack \in Seq(InfoType) /\ srcOpen \in Seq(OpenedType)
  BY <1>1, MarksLive
<1>3. out \in Seq(UnitType) /\ l \in Nat
  BY LenProperties DEF SentType
<1>4. u \in UnitType
  BY DEF UnitType
<1> HIDE DEF m
<1>5. /\ m.stack # <<>> /\ stack # <<>>
      /\ f.count \in {-1, f.children}
      /\ w.id = f.id /\ w.armored = f.armored /\ w.hash = f.hash
      /\ Agree(Front(m.stack), Front(srcOpen), Front(stack))
  BY <1>1, <1>2, AgreeFront
<1>6. /\ Front(m.stack) \in Seq(EntryType) /\ Front(srcOpen) \in Seq(OpenedType)
      /\ f \in EntryType
  BY <1>1, <1>2, <1>5, FrontFacts
<1>7. f.id \in Nat
  BY <1>6 DEF EntryType
<1> HIDE DEF f, l
<1>8. /\ Added(Front(m.stack)) \in Seq(EntryType) /\ srcOpen' \in Seq(OpenedType)
      /\ Agree(Added(Front(m.stack)), srcOpen', stack')
  BY <1>1, <1>5, <1>6, EntryAdded, OpenedAdded, AgreeAdded
<1>9. /\ n \in MarkType /\ n.len = l + MarkerLen(f) + FooterLen(f)
      /\ n.stack = Added(Front(m.stack))
  <2> DEFINE a == MarkerLen(f)
             b == FooterLen(f)
             r == Added(Front(m.stack))
  <2>1. a \in 0..1 /\ b \in 0..1
    BY FooterLengths
  <2>2. n = [len |-> l + a + b, stack |-> r] /\ r \in Seq(EntryType)
    BY <1>2, <1>8
  <2> HIDE DEF n, a, b, r
  <2>3. l + a + b \in Nat
    BY <1>3, <2>1
  <2>4. n \in MarkType /\ n.len = l + a + b /\ n.stack = r
    BY <2>2, <2>3 DEF MarkType
  <2> QED
    BY <2>4 DEF a, b, r
<1> HIDE DEF n
<1>10. /\ o \in Seq(UnitType) /\ q = l + MarkerLen(f) /\ Extends(out, o)
       /\ f.armored => o[l + 1] = u
  <2>1. CASE f.armored
    <3>1. o = Append(out, u) /\ MarkerLen(f) = 1
      BY <1>5, <2>1, FooterLengths DEF W!OutMarked, W!Marked
    <3> QED
      BY <1>3, <1>4, <3>1, AppendExtends, AppendProperties DEF l
  <2>2. CASE ~f.armored
    <3>1. o = out /\ MarkerLen(f) = 0
      BY <1>5, <2>2, FooterLengths DEF W!OutMarked, W!Marked
    <3> QED
      BY <1>3, <2>2, <3>1 DEF l, Extends
  <2> QED
    BY <2>1, <2>2
<1>11. q \in Nat /\ MarkerLen(f) \in 0..1 /\ FooterLen(f) \in 0..1 /\ (f.hash = HT_NONE <=> FooterLen(f) = 0)
  BY <1>10, FooterLengths, LenProperties
<1>12. f.hash # HT_NONE => W!Digest(w) = (f.id + 1)..q
  <2> DEFINE t == W!DestMarked(w)
  <2>1. t \in Seq(PipeType) /\ Piped(t, stack, q)
    BY WriterMarks
  <2>2. ASSUME f.hash # HT_NONE
        PROVE  t # <<>> /\ Last(t).id = f.id
    BY <1>2, <1>5, <1>11, <2>1, <2>2, PipedPopped
  <2>3. W!Digest(w) = Last(t).fed
    BY WriterSequences DEF W!Digest
  <2> HIDE DEF t, q
  <2>4. ASSUME t # <<>>
        PROVE  Last(t) = t[Len(t)] /\ Len(t) \in 1..Len(t)
    <3>1. Last(t) = t[Len(t)] /\ Len(t) \in Nat \ {0}
      BY <2>1, <2>4, FrontFacts
    <3>2. \A i \in Nat \ {0} : i \in 1..i
      OBVIOUS
    <3> QED
      BY <3>1, <3>2
  <2>5. t # <<>> => Last(t).fed = (Last(t).id + 1)..q
    BY <2>1, <2>4 DEF Piped
  <2> QED
    BY <2>2, <2>3, <2>5
<1>13. f.hash # HT_NONE => d \in UnitType
  BY <1>7, <1>11 DEF UnitType
<1>14. End \in EventType /\ End # Eos
  BY DEF End, Eos, EventType
<1>15. Len(n.stack) = Len(srcOpen')
  BY <1>8, <1>9 DEF Agree
<1> HIDE DEF q
<1>16. CASE out' = o /\ (w.hash = HT_NONE \/ srcPhase' # "live")
  <2>1. out' \in Seq(UnitType) /\ Extends(out, out') /\ Len(out') = q
    BY <1>10, <1>16 DEF q
  <2>2. Len(out') <= n.len /\ (FooterLen(f) = 0 => n.len = Len(out'))
    BY <1>9, <1>10, <1>11, <2>1
  <2>3. f.armored => UnitAt(out', l + 1, u)
    BY <1>10, <1>16 DEF UnitAt
  <2>4. f.hash # HT_NONE => ~(n.len <= Len(out'))
    BY <1>9, <1>10, <1>11, <2>1
  <2>5. Marked(m, End, n, out')
    BY <1>2, <1>5, <1>9, <2>3, <2>4 DEF Marked, Ended, UnitAt, f, l
  <2>6. srcPhase' = "live" /\ state' = "open" =>
             n.len = Len(out') /\ Agree(n.stack, srcOpen', stack')
    BY <1>5, <1>8, <1>9, <1>11, <1>16, <2>2
  <2> QED
    BY <1>1, <1>8, <1>9, <1>14, <1>15, <2>1, <2>2, <2>5, <2>6, Sent DEF m
<1>17. CASE /\ out' = Append(o, [kind |-> "digest", of |-> W!Digest(w)])
            /\ w.hash # HT_NONE
  <2>1. f.hash # HT_NONE /\ FooterLen(f) = 1 /\ out' = Append(o, d)
    BY <1>5, <1>11, <1>12, <1>17
  <2> HIDE DEF d, o
  <2>2. /\ out' \in Seq(UnitType) /\ Len(out') = q + 1 /\ out'[q + 1] = d
        /\ \A i \in 1..q : out'[i] = o[i]
    BY <1>10, <1>13, <2>1, AppendExtends, AppendProperties DEF q
  <2>3. n.len = Len(out') /\ n.len = q + 1 /\ n.len - 1 = q /\ Len(out') <= n.len
    BY <1>9, <1>10, <1>11, <2>1, <2>2
  <2>4. Extends(out, out')
    <3>1. l <= q /\ l <= q + 1 /\ (\A i \in 1..l : i \in 1..q)
      BY <1>3, <1>10, <1>11
    <3>2. \A i \in 1..l : o[i] = out[i]
      BY <1>10 DEF Extends, l
    <3> QED
      BY <2>2, <3>1, <3>2 DEF Extends, l
  <2>5. f.armored => UnitAt(out', l + 1, u)
    <3>1. f.armored => l + 1 \in 1..q
      BY <1>3, <1>10, FooterLengths
    <3> QED
      BY <1>10, <2>2, <3>1 DEF UnitAt
  <2>6. UnitAt(out', n.len, [kind |-> "digest", of |-> (f.id + 1)..(n.len - 1)])
    BY <2>2, <2>3 DEF UnitAt, d
  <2>7. Marked(m, End, n, out')
    BY <1>2, <1>5, <1>9, <2>5, <2>6 DEF Marked, Ended, f, l
  <2>8. srcPhase' = "live" /\ state' = "open" =>
             n.len = Len(out') /\ Agree(n.stack, srcOpen', stack')
    BY <1>8, <1>9, <2>3
  <2> QED
    BY <1>1, <1>8, <1>9, <1>14, <1>15, <2>2, <2>3, <2>4, <2>7, <2>8, Sent DEF m
<1> QED
  BY <1>16, <1>17

(* A stream from which nothing has been sent yet.                          *)
LEMMA InitHistory ==
    ASSUME Init
    PROVE  History
<1> DEFINE h == <<[len |-> 0, stack |-> <<>>]>>
<1>1. /\ sent = <<>> /\ out = <<>> /\ srcOpen = <<>> /\ srcPhase = "live"
      /\ stack = <<>> /\ state = "open"
  BY DEF Init, S!Init, W!Init
<1>2. /\ Len(sent) = 0 /\ Len(out) = 0 /\ Len(srcOpen) = 0 /\ Len(stack) = 0
      /\ 1..0 = {}
  BY <1>1
<1>3. /\ h \in Seq(MarkType) /\ Len(h) = 1 /\ h[1].len = 0 /\ h[1].stack = <<>>
  <2>1. [len |-> 0, stack |-> <<>>] \in MarkType
    BY EmptySeq DEF MarkType
  <2> QED
    BY <2>1
<1> HIDE DEF h
<1>4. Script(h, sent, out)
  BY <1>2, <1>3 DEF Script
<1>5. Agree(<<>>, srcOpen, stack)
  BY <1>1, <1>2 DEF Agree
<1>6. Marks(h)
  BY <1>1, <1>2, <1>3, <1>4, <1>5 DEF Marks
<1>7. SentType
  BY <1>1, EmptySeq DEF SentType
<1> QED
  BY <1>6, <1>7 DEF History

(* Nothing more is sent, written or begun; a writer that has stopped does  *)
(* not go on.                                                              *)
LEMMA MarksKept ==
    ASSUME SentType, NEW h, Marks(h),
           UNCHANGED <<sent, out, srcOpen>>,
           srcPhase' = "ended" <=> srcPhase = "ended",
           srcPhase' = "live" /\ state' = "open" =>
              srcPhase = "live" /\ state = "open" /\ stack' = stack
    PROVE  SentType' /\ Marks(h)'
<1>1. SentType'
  BY DEF SentType
<1>2. Marks(h)'
  BY DEF Marks
<1> QED
  BY <1>1, <1>2

(* Every call of the source.                                               *)
LEMMA WriteHistory ==
    ASSUME WriterInv, History, Write \/ Settings
    PROVE  History'
<1>1. PICK h : Marks(h)
  BY DEF History
<1>2. SentType
  BY DEF History
<1>3. CASE SendStart
  <2>1. PICK k \in Keys, c \in Counts :
           /\ S!StartContainer(Len(out) + 1, c) /\ Live
           /\ W!StartContainer(k, c)
           /\ Send(Start(c))
    BY <1>3 DEF SendStart
  <2>2. /\ state = "open" /\ srcPhase' # "ended"
        /\ out' = Append(out, W!Header(W!ParentInfo(k, c)))
        /\ stack' = Append(stack, W!ParentInfo(k, c))
        /\ sent' = Append(sent, Start(c))
    BY <2>1 DEF Live, W!StartContainer, W!Open, Send
  <2> QED
    BY <1>1, <1>2, <2>1, <2>2, SentStart
<1>4. CASE SendStartUnsupported
  <2>1. PICK k \in Keys, c \in Counts :
           /\ S!StartContainer(Len(out) + 1, c) /\ srcPhase' = "cut"
           /\ W!StartUnsupported(k, c)
           /\ Send(Start(c))
    BY <1>4 DEF SendStartUnsupported
  <2>2. /\ state = "open" /\ srcPhase' # "ended" /\ srcPhase' # "live"
        /\ out' = Append(out, W!Header(W!ParentInfo(k, c)))
        /\ sent' = Append(sent, Start(c))
    BY <2>1 DEF W!StartUnsupported, W!Open, Send
  <2> QED
    BY <1>1, <1>2, <2>1, <2>2, SentStart
<1>5. CASE SendNode
  BY <1>1, <1>2, <1>5, SentNode
<1>6. CASE SendEnd
  <2> DEFINE w == Last(stack)
  <2>1. /\ S!EndContainer /\ srcPhase' # "ended" /\ sent' = Append(sent, End)
        /\ W!EndContainer
    BY <1>6 DEF SendEnd, Live, Send
  <2>2. /\ state = "open" /\ stack' = Front(stack)
        /\ out' = IF w.hash # HT_NONE
                  THEN Append(W!OutMarked(w), [kind |-> "digest", of |-> W!Digest(w)])
                  ELSE W!OutMarked(w)
    BY <2>1, WriterSequences DEF W!EndContainer, W!Open, W!Hashed
  <2> HIDE DEF w
  <2>3. \/ out' = W!OutMarked(w) /\ (w.hash = HT_NONE \/ srcPhase' # "live")
        \/ /\ out' = Append(W!OutMarked(w), [kind |-> "digest", of |-> W!Digest(w)])
           /\ w.hash # HT_NONE
    BY <2>2
  <2>4. w = Last(stack)
    BY DEF w
  <2> QED
    BY <1>1, <1>2, <2>1, <2>2, <2>3, <2>4, SentEnd
<1>7. CASE SendEndWithoutDigest
  <2> DEFINE w == Last(stack)
  <2>1. /\ S!EndContainer /\ srcPhase' = "cut" /\ sent' = Append(sent, End)
        /\ W!EndWithoutDigest
    BY <1>7 DEF SendEndWithoutDigest, Send
  <2>2. state = "open" /\ stack' = Front(stack) /\ out' = W!OutMarked(w)
    BY <2>1, WriterSequences DEF W!EndWithoutDigest, W!Open
  <2> HIDE DEF w
  <2>3. out' = W!OutMarked(w) /\ (w.hash = HT_NONE \/ srcPhase' # "live")
    BY <2>1, <2>2
  <2>4. w = Last(stack) /\ srcPhase' # "ended"
    BY <2>1 DEF w
  <2> QED
    BY <1>1, <1>2, <2>1, <2>2, <2>3, <2>4, SentEnd
<1>8. CASE SendEos
  BY <1>1, <1>2, <1>8, SentEos
<1>9. CASE SendFails
  <2>1. /\ UNCHANGED <<sent, out, srcOpen>> /\ srcPhase = "live" /\ srcPhase' = "cut"
    BY <1>9 DEF SendFails, S!Cut, W!WriteFails
  <2> QED
    BY <1>1, <1>2, <2>1, MarksKept DEF History
<1>10. CASE Settings
  <2>1. UNCHANGED <<sent, out, srcOpen, srcPhase, stack>>
    BY <1>10 DEF Settings, W!SetArmorDefault, W!SetHashFunction, source_vars
  <2>2. state' = "open" => state = "open"
    BY <1>10 DEF Settings, W!SetArmorDefault, W!SetHashFunction
  <2> QED
    BY <1>1, <1>2, <2>1, <2>2, MarksKept DEF History
<1> QED
  BY <1>3, <1>4, <1>5, <1>6, <1>7, <1>8, <1>9, <1>10 DEF Write

(* What is known of every reader is known of this one.                     *)
P == INSTANCE ReaderSinkProofs WITH
        Sizes <- {n \in Counts : n >= 0}, Int32Half <- MaxUnits + 1,
        Supported <- ReaderSupported, Masks <- {{"UnknownHashFunction"}},
        Resume <- FALSE, MaxPos <- MaxUnits

(* The constants of this one satisfy what is assumed of a reader.         *)
LEMMA Known == P!ConstantsAssumption!: /\ P!MasksAssumption!:
<1>1. {n \in Counts : n >= 0} \subseteq Nat
  <2>1. \A n \in Counts : n >= 0 => n \in Nat
    BY RoundtripAssumption, ReaderAssumption
  <2> QED
    BY <2>1
<1>2. MaxUnits \in Nat /\ MaxUnits + 1 \in Nat \ {0}
  BY ReaderAssumption
<1>3. P!NotHashed \notin HashTypes
  BY ReaderAssumption DEF R!NotHashed, P!NotHashed
<1>4. ReaderSupported \subseteq HashTypes \ {HT_NONE}
  BY RoundtripAssumption
<1>5. P!MasksAssumption!:
  BY DEF P!Flags
<1> QED
  BY <1>1, <1>2, <1>3, <1>4, <1>5

(* Both are the same reader.                                               *)
LEMMA SameOperators ==
    /\ P!NotHashed = R!NotHashed /\ P!NoSize = R!NoSize
    /\ P!RootFrame = R!RootFrame /\ P!CurrParent = Last(parents) /\ R!CurrParent = Last(parents)
    /\ \A f : /\ P!ChildCount(f) = R!ChildCount(f)
              /\ P!IsHashed(f) <=> R!IsHashed(f)
              /\ P!Full(f) <=> R!Full(f)
              /\ P!StackBelow(f) = R!StackBelow(f)
              /\ P!SourceBelow(f) = R!SourceBelow(f)
    /\ \A s : P!Counted(s) = R!Counted(s)
    /\ \A s, h : P!Fed(s, h) = R!Fed(s, h)
<1>1. P!NotHashed = R!NotHashed /\ P!NoSize = R!NoSize
  BY DEF P!NotHashed, R!NotHashed, P!NoSize, R!NoSize
<1>2. P!RootFrame = R!RootFrame
  BY <1>1 DEF P!RootFrame, R!RootFrame
<1>3. P!CurrParent = Last(parents) /\ R!CurrParent = Last(parents)
  BY DEF P!CurrParent, R!CurrParent, P!Last, R!Last, Last
<1>4. \A f : P!ChildCount(f) = R!ChildCount(f)
  BY <1>1 DEF P!ChildCount, R!ChildCount, P!ToInt32, R!ToInt32
<1>5. \A f : P!IsHashed(f) <=> R!IsHashed(f)
  BY <1>1 DEF P!IsHashed, R!IsHashed
<1>6. \A f : P!Full(f) <=> R!Full(f)
  BY <1>4 DEF P!Full, R!Full
<1>7. \A s : P!Counted(s) = R!Counted(s)
  BY DEF P!Counted, R!Counted
<1>8. \A s, h : P!Fed(s, h) = R!Fed(s, h)
  BY DEF P!Fed, R!Fed
<1>9. \A f : P!SourceBelow(f) = R!SourceBelow(f)
  BY DEF P!SourceBelow, R!SourceBelow, P!Front, R!Front
<1>10. \A f : P!StackBelow(f) = R!StackBelow(f)
  BY <1>5, <1>8, <1>9 DEF P!StackBelow, R!StackBelow, P!Front, R!Front
<1> QED
  BY <1>1, <1>2, <1>3, <1>4, <1>5, <1>6, <1>7, <1>8, <1>9, <1>10

LEMMA SameTests ==
    /\ \A t : P!Rejected(t) <=> R!Rejected(t)
    /\ \A f : P!Footers(f) = R!Footers(f)
    /\ \A f : P!FooterAccepted(f) <=> R!FooterAccepted(f)
    /\ P!ParentFull <=> R!ParentFull
    /\ P!LoopOver <=> R!LoopOver
    /\ P!Taken = R!Taken
    /\ \A s : P!SinkCounted(s) = R!SinkCounted(s)
    /\ \A s : P!SinkOpen(s) = R!SinkOpen(s)
    /\ \A f : P!Frame(f) = R!Frame(f)
    /\ P!CallOver <=> R!CallOver
    /\ P!Cleanup <=> R!Cleanup
    /\ P!Stepping <=> R!Stepping
    /\ P!Reading <=> R!Reading
    /\ P!Ending <=> R!Ending
<1>1. \A t : P!Rejected(t) <=> R!Rejected(t)
  <2>1. \A f : P!EocAccepted(f) <=> R!EocAccepted(f)
    BY SameOperators DEF P!EocAccepted, R!EocAccepted
  <2>2. \A f : P!Overfull(f) <=> R!Overfull(f)
    BY SameOperators DEF P!Overfull, R!Overfull
  <2>3. \A f : P!HeaderAccepted(f) <=> R!HeaderAccepted(f)
    BY SameOperators DEF P!HeaderAccepted, R!HeaderAccepted
  <2> QED
    BY <2>1, <2>2, <2>3, SameOperators DEF P!Rejected, R!Rejected
<1>2. \A f : P!Footers(f) = R!Footers(f)
  BY SameOperators DEF P!Footers, R!Footers
<1>3. \A f : P!FooterAccepted(f) <=> R!FooterAccepted(f)
  BY DEF P!FooterAccepted, R!FooterAccepted
<1>4. P!ParentFull <=> R!ParentFull
  BY SameOperators DEF P!ParentFull, R!ParentFull
<1>5. P!LoopOver <=> R!LoopOver
  BY DEF P!LoopOver, R!LoopOver
<1>6. P!Taken = R!Taken
  BY DEF P!Taken, R!Taken
<1>7. \A s : P!SinkCounted(s) = R!SinkCounted(s)
  BY DEF P!SinkCounted, R!SinkCounted
<1>8. \A s : P!SinkOpen(s) = R!SinkOpen(s)
  BY SameOperators DEF P!SinkOpen, R!SinkOpen
<1>9. \A f : P!Frame(f) = R!Frame(f)
  BY DEF P!Frame, R!Frame, P!NewFrame, R!NewFrame
<1>10. (P!CallOver <=> R!CallOver) /\ (P!Cleanup <=> R!Cleanup)
  BY DEF P!CallOver, R!CallOver, P!Cleanup, R!Cleanup, P!NoLocal, R!NoLocal
<1>11. (P!Stepping <=> R!Stepping) /\ (P!Reading <=> R!Reading) /\ (P!Ending <=> R!Ending)
  BY DEF P!Stepping, R!Stepping, P!Reading, R!Reading, P!Ending, R!Ending
<1> QED
  BY <1>1, <1>2, <1>3, <1>4, <1>5, <1>6, <1>7, <1>8, <1>9, <1>10, <1>11

LEMMA SameSteps ==
    /\ \A s, h : R!Abort(s, h) => P!Abort(s, h)
    /\ \A r : R!ThenCheck(r) => P!ThenCheck(r)
    /\ \A t : R!RejectToken(t) => P!RejectToken(t)
    /\ \A t : R!ReadEoc(t) => P!ReadEoc(t)
    /\ \A t : R!PushNode(t, TRUE) => P!PushNode(t, TRUE)
    /\ \A t : R!StartContainer(t, TRUE) => P!StartContainer(t, TRUE)
    /\ \A f : R!RejectFooter(f) => P!RejectFooter(f)
    /\ \A f : R!EndContainer(f, TRUE) => P!EndContainer(f, TRUE)
    /\ R!ReadEof => P!ReadEof
    /\ R!FooterEof => P!FooterEof
    /\ R!EndOfStream(TRUE) => P!EndOfStream(TRUE)
    /\ R!CheckFull => P!CheckFull
    /\ R!CheckDone => P!CheckDone
    /\ R!Return => P!Return
<1>1. \A s, h : R!Abort(s, h) => P!Abort(s, h)
  BY SameTests DEF P!Abort, R!Abort
<1>2. \A r : R!ThenCheck(r) => P!ThenCheck(r)
  BY DEF P!ThenCheck, R!ThenCheck
<1>3. \A t : R!RejectToken(t) => P!RejectToken(t)
  BY <1>1, SameOperators, SameTests DEF P!RejectToken, R!RejectToken
<1>4. \A t : R!ReadEoc(t) => P!ReadEoc(t)
  BY SameOperators, SameTests DEF P!ReadEoc, R!ReadEoc, P!historyVars, R!historyVars
<1>5. \A t : R!PushNode(t, TRUE) => P!PushNode(t, TRUE)
  BY <1>2, SameOperators, SameTests DEF P!PushNode, R!PushNode
<1>6. \A t : R!StartContainer(t, TRUE) => P!StartContainer(t, TRUE)
  BY <1>2, SameOperators, SameTests DEF P!StartContainer, R!StartContainer
<1>7. \A f : R!RejectFooter(f) => P!RejectFooter(f)
  BY <1>1, SameOperators, SameTests DEF P!RejectFooter, R!RejectFooter
<1>8. \A f : R!EndContainer(f, TRUE) => P!EndContainer(f, TRUE)
  BY <1>2, SameOperators, SameTests DEF P!EndContainer, R!EndContainer, P!Front, R!Front
<1>9. R!ReadEof => P!ReadEof
  BY <1>1, SameTests DEF P!ReadEof, R!ReadEof
<1>10. R!FooterEof => P!FooterEof
  BY <1>1, SameOperators, SameTests DEF P!FooterEof, R!FooterEof, P!Front, R!Front
<1>11. R!EndOfStream(TRUE) => P!EndOfStream(TRUE)
  BY SameTests DEF P!EndOfStream, R!EndOfStream
<1>12. R!CheckFull => P!CheckFull
  BY SameTests DEF P!CheckFull, R!CheckFull, P!historyVars, R!historyVars
<1>13. R!CheckDone => P!CheckDone
  BY SameTests DEF P!CheckDone, R!CheckDone, P!historyVars, R!historyVars
<1>14. R!Return => P!Return
  BY SameTests DEF P!Return, R!Return
<1> QED
  BY <1>1, <1>2, <1>3, <1>4, <1>5, <1>6, <1>7, <1>8, <1>9, <1>10, <1>11, <1>12, <1>13, <1>14

-----------------------------------------------------------------------------
(* The stack of the reader against the stack of a mark.                    *)

ReadAs(f, e) ==
    /\ f.id = e.id /\ f.size = e.count /\ f.armored = e.armored /\ f.read = e.children
    /\ f.hash = IF e.hash = HT_NONE THEN R!NotHashed ELSE e.hash

RootOf(ps) == ps[1].size = -1 /\ ps[1].armored /\ ps[1].hash = R!NotHashed

Follows(ps, es) ==
    /\ Len(ps) = Len(es) + 1
    /\ RootOf(ps)
    /\ \A i \in 1..Len(es) : ReadAs(ps[i + 1], es[i])

LEMMA FollowsAlike ==
    ASSUME NEW s, NEW t, P!Alike(s, t), NEW es, Len(es) \in Nat, Follows(s, es)
    PROVE  Follows(t, es)
<1>1. /\ Len(t) = Len(s) /\ Len(s) = Len(es) + 1
      /\ \A i \in 1..Len(s) :
          /\ t[i].id = s[i].id /\ t[i].size = s[i].size
          /\ t[i].armored = s[i].armored /\ t[i].hash = s[i].hash
          /\ t[i].read = s[i].read
  BY DEF P!Alike, Follows
<1>2. 1 \in 1..Len(s) /\ \A i \in 1..Len(es) : i + 1 \in 1..Len(s)
  BY <1>1
<1>3. RootOf(t)
  BY <1>1, <1>2 DEF Follows, RootOf
<1>4. \A i \in 1..Len(es) : ReadAs(t[i + 1], es[i])
  BY <1>1, <1>2 DEF Follows, ReadAs
<1> QED
  BY <1>1, <1>3, <1>4 DEF Follows

LEMMA FollowsCounted ==
    ASSUME NEW s \in Seq(P!FrameType), NEW es \in Seq(EntryType), Follows(s, es)
    PROVE  Follows(R!Counted(s), Added(es))
<1> DEFINE t == P!Counted(s)
           u == Added(es)
           n == Len(es)
<1>1. n \in Nat /\ Len(s) = n + 1 /\ s # <<>>
  BY EmptySeq, LenProperties DEF Follows
<1>2. /\ Len(t) = n + 1
      /\ \A i \in 1..(n + 1) :
          /\ t[i].id = s[i].id /\ t[i].size = s[i].size
          /\ t[i].armored = s[i].armored /\ t[i].hash = s[i].hash
          /\ t[i].read = IF i = n + 1 THEN s[i].read + 1 ELSE s[i].read
  BY <1>1, Known, P!CountedRead
<1>3. /\ Len(u) = n
      /\ \A i \in 1..n :
            /\ u[i].id = es[i].id /\ u[i].count = es[i].count
            /\ u[i].armored = es[i].armored /\ u[i].hash = es[i].hash
            /\ u[i].children = IF i = n THEN es[i].children + 1 ELSE es[i].children
  BY EntryAdded
<1>4. RootOf(s) /\ \A i \in 1..n : ReadAs(s[i + 1], es[i])
  BY DEF Follows
<1>5. R!Counted(s) = t
  BY SameOperators
<1> HIDE DEF t, u, n
<1>6. 1 \in 1..(n + 1) /\ \A i \in 1..n : i + 1 \in 1..(n + 1) /\ (i = n <=> i + 1 = n + 1)
  BY <1>1
<1>7. RootOf(t)
  BY <1>2, <1>4, <1>6 DEF RootOf
<1>8. \A i \in 1..n : ReadAs(t[i + 1], u[i])
  <2> TAKE i \in 1..n
  <2>1. ReadAs(s[i + 1], es[i])
    BY <1>4
  <2>2. t[i + 1].read = u[i].children
    BY <1>2, <1>3, <1>6, <2>1 DEF ReadAs
  <2> QED
    BY <1>2, <1>3, <1>6, <2>1, <2>2 DEF ReadAs
<1>9. Follows(t, u)
  BY <1>2, <1>3, <1>7, <1>8 DEF Follows
<1> QED
  BY <1>5, <1>9 DEF u

LEMMA FollowsBegun ==
    ASSUME NEW s \in Seq(P!FrameType), NEW es \in Seq(EntryType), Follows(s, es),
           NEW f, NEW e, ReadAs(f, e)
    PROVE  Follows(Append(s, f), Append(es, e))
<1> DEFINE t == Append(s, f)
           u == Append(es, e)
           n == Len(es)
<1>1. n \in Nat /\ Len(s) = n + 1 /\ RootOf(s) /\ \A i \in 1..n : ReadAs(s[i + 1], es[i])
  BY LenProperties DEF Follows
<1>2. /\ Len(t) = n + 1 + 1 /\ t[n + 1 + 1] = f
      /\ \A i \in 1..(n + 1) : t[i] = s[i]
      /\ Len(u) = n + 1 /\ u[n + 1] = e
      /\ \A i \in 1..n : u[i] = es[i]
  BY <1>1, AppendProperties
<1> HIDE DEF t, u, n
<1>3. 1 \in 1..(n + 1) /\ \A i \in 1..n : i + 1 \in 1..(n + 1)
  BY <1>1
<1>4. RootOf(t)
  BY <1>1, <1>2, <1>3 DEF RootOf
<1>5. ASSUME NEW i \in 1..(n + 1)
      PROVE  ReadAs(t[i + 1], u[i])
  <2>1. i = n + 1 \/ i \in 1..n
    BY <1>1
  <2> QED
    BY <1>1, <1>2, <1>3, <2>1
<1>6. Follows(t, u)
  BY <1>2, <1>4, <1>5 DEF Follows
<1> QED
  BY <1>6 DEF t, u

LEMMA FollowsFront ==
    ASSUME NEW s \in Seq(P!FrameType), NEW es \in Seq(EntryType), Follows(s, es), es # <<>>
    PROVE  /\ s # <<>> /\ Front(s) # <<>> /\ Front(s) \in Seq(P!FrameType)
           /\ Front(es) \in Seq(EntryType) /\ Len(Front(es)) \in Nat
           /\ Last(s) \in P!FrameType /\ Last(es) \in EntryType
           /\ ReadAs(Last(s), Last(es))
           /\ Follows(Front(s), Front(es))
<1> DEFINE t == Front(s)
           u == Front(es)
           n == Len(es)
<1>1. n \in Nat \ {0} /\ Len(s) = n + 1 /\ RootOf(s) /\ \A i \in 1..n : ReadAs(s[i + 1], es[i])
  BY EmptySeq, LenProperties DEF Follows
<1>2. s # <<>>
  BY <1>1, EmptySeq
<1>3. /\ t \in Seq(P!FrameType) /\ Len(t) = Len(s) - 1
      /\ \A i \in 1..(Len(s) - 1) : t[i] = s[i]
      /\ Last(s) = s[Len(s)] /\ Last(s) \in P!FrameType
  BY <1>2, FrontFacts
<1>4. /\ u \in Seq(EntryType) /\ Len(u) = n - 1
      /\ \A i \in 1..(n - 1) : u[i] = es[i]
      /\ Last(es) = es[n] /\ Last(es) \in EntryType
  BY FrontFacts
<1> HIDE DEF t, u, n
<1>5. Len(t) = n /\ (\A i \in 1..n : t[i] = s[i]) /\ Last(s) = s[n + 1]
  BY <1>1, <1>3
<1>6. n \in 1..n /\ 1 \in 1..n /\ n - 1 \in Nat /\ n = n - 1 + 1
      /\ \A i \in 1..(n - 1) : i \in 1..n /\ i + 1 \in 1..n
  BY <1>1
<1>7. RootOf(t)
  BY <1>1, <1>5, <1>6 DEF RootOf
<1>8. \A i \in 1..(n - 1) : ReadAs(t[i + 1], u[i])
  BY <1>1, <1>4, <1>5, <1>6
<1>9. Follows(t, u)
  BY <1>4, <1>5, <1>6, <1>7, <1>8 DEF Follows
<1>10. ReadAs(Last(s), Last(es))
  BY <1>1, <1>4, <1>5, <1>6
<1>11. t # <<>>
  BY <1>1, <1>5, EmptySeq
<1> QED
  BY <1>2, <1>3, <1>4, <1>6, <1>9, <1>10, <1>11 DEF t, u

(* Sizes are small enough for an int32_t.                                  *)
LEMMA SizeRead ==
    ASSUME NEW n \in 0..MaxUnits
    PROVE  R!ToInt32(n) = n
<1> DEFINE m == MaxUnits + 1
           d == 2 * m
           a == n + m
<1>1. m \in Nat /\ d \in Nat \ {0} /\ a \in Nat /\ a < d /\ n \in Nat
  BY ReaderAssumption
<1> HIDE DEF m, d, a
<1>2. a % d = a
  BY <1>1
<1>3. R!ToInt32(n) = (a % d) - m
  BY DEF R!ToInt32, a, d, m
<1>4. a - m = n
  BY <1>1 DEF a
<1> QED
  BY <1>2, <1>3, <1>4

LEMMA CountRead ==
    ASSUME NEW f, f.size \in Counts
    PROVE  R!ChildCount(f) = f.size
<1>1. f.size = -1 \/ f.size \in 0..MaxUnits
  BY RoundtripAssumption
<1>2. CASE f.size = -1
  BY <1>2 DEF R!ChildCount, R!NoSize
<1>3. CASE f.size \in 0..MaxUnits
  <2>1. f.size # -1
    BY <1>3
  <2> QED
    BY <1>3, <2>1, SizeRead DEF R!ChildCount, R!NoSize
<1> QED
  BY <1>1, <1>2, <1>3

(* What the reader decides of a container.                                 *)
LEMMA ReadDecides ==
    ASSUME NEW f, NEW e \in EntryType, ReadAs(f, e)
    PROVE  /\ R!ChildCount(f) = e.count
           /\ R!IsHashed(f) <=> e.hash # HT_NONE
           /\ R!Full(f) <=> ~e.armored /\ e.count = e.children
           /\ R!Overfull(f) <=> e.armored /\ e.count # -1 /\ e.count <= e.children
<1>1. e.count \in Counts /\ e.hash \in Hashes
  BY DEF EntryType
<1>2. R!ChildCount(f) = e.count
  BY <1>1, CountRead DEF ReadAs
<1>3. R!IsHashed(f) <=> e.hash # HT_NONE
  BY <1>1, ReaderAssumption, RoundtripAssumption DEF ReadAs, R!IsHashed, Hashes
<1> QED
  BY <1>2, <1>3 DEF ReadAs, R!Full, R!Overfull

LEMMA RootDecides ==
    ASSUME NEW s, RootOf(s)
    PROVE  /\ R!ChildCount(s[1]) = -1 /\ ~R!IsHashed(s[1])
           /\ ~R!Full(s[1]) /\ ~R!Overfull(s[1])
BY DEF RootOf, R!ChildCount, R!NoSize, R!IsHashed, R!Full, R!Overfull

-----------------------------------------------------------------------------
(* Where the reader is while it reads back.                                *)

(* All events that it has delivered have been sent, and it has read up to  *)
(* the mark of the last; or, when it has begun to end a container, as far  *)
(* as the marker goes.                                                     *)
AtMark(h) ==
    LET k == Len(got)
        m == h[k + 1]
    IN  /\ k <= Len(sent)
        /\ Follows(parents, m.stack)
        /\ pc # "end" => pos = m.len
        /\ pc = "end" /\ Last(parents).armored =>
              /\ pos = m.len + 1 /\ k < Len(sent)
              /\ sent[k + 1] = IF Len(parents) > 1 THEN End ELSE Eos
        /\ pc = "end" /\ ~Last(parents).armored =>
              pos = m.len /\ R!Full(Last(parents))

(* It ends containers that the source has left open but full.              *)
PastMarks ==
    /\ Len(got) > Len(sent)
    /\ Len(parents) = Len(srcOpen) + 1 - (Len(got) - Len(sent))
    /\ parents[1].armored
    /\ pos = Len(out)
    /\ pc = "end" => Len(parents) > 1

Delivered ==
    /\ got \in Seq(EventType)
    /\ Len(got) <= Len(sent) + Len(srcOpen)
    /\ \A i \in 1..Len(got) : got[i] = IF i <= Len(sent) THEN sent[i] ELSE End

Underway(h) ==
    /\ parents # <<>>
    /\ AtMark(h) \/ PastMarks
    /\ pc \in {"step", "check", "end", "return"}
    /\ pc \in {"step", "return"} => ~R!Full(Last(parents))
    /\ srcPhase = "ended" => Len(got) < Len(sent)

Over ==
    /\ parents = <<>>
    /\ phase = "ended" => srcPhase = "ended" /\ Len(got) = Len(sent)
    /\ phase = "cut" => srcPhase # "ended"

ReadInv(h) ==
    /\ forgiving = {"UnknownHashFunction"}
    /\ pc = "idle" \/ api = "read_all"
    /\ ret # "again"
    /\ pos <= Len(out)
    /\ Delivered
    /\ phase = "live" => Underway(h)
    /\ phase # "live" => Over

(* Nothing has been read yet.                                              *)
Unread ==
    /\ parents = <<R!RootFrame>> /\ pos = 0 /\ phase = "live" /\ got = <<>>
    /\ ret # "again"

LEMMA BeginReads ==
    ASSUME SentType, NEW h, Marks(h), Unread, Begin
    PROVE  ReadInv(h)'
<1>1. /\ parents' = <<R!RootFrame>> /\ pos' = 0 /\ phase' = "live" /\ got' = <<>>
      /\ ret' # "again" /\ pc' = "step" /\ api' = "read_all"
      /\ forgiving' = {"UnknownHashFunction"}
      /\ UNCHANGED <<sent, out, srcOpen, srcPhase>>
  BY DEF Begin, Unread, source_vars, writer_vars
<1>2. /\ Len(got') = 0 /\ got' \in Seq(EventType) /\ 1..0 = {}
      /\ Len(sent) \in Nat /\ Len(out) \in Nat /\ Len(srcOpen) \in Nat
  BY <1>1, EmptySeq, LenProperties DEF SentType
<1>3. Delivered'
  BY <1>1, <1>2 DEF Delivered
<1>4. /\ Len(parents') = 1 /\ parents'[1] = R!RootFrame /\ parents' # <<>>
      /\ Last(parents') = parents'[1]
  BY <1>1 DEF Last
<1>5. RootOf(parents')
  BY <1>4 DEF RootOf, R!RootFrame, R!NoSize
<1>6. h[1].len = 0 /\ h[1].stack = <<>>
  BY DEF Marks, Script
<1>7. Follows(parents', h[1].stack)
  BY <1>2, <1>4, <1>5, <1>6 DEF Follows
<1>8. ~R!Full(Last(parents'))
  BY <1>4, <1>5, RootDecides
<1>9. AtMark(h)'
  BY <1>1, <1>2, <1>6, <1>7 DEF AtMark
<1>10. srcPhase = "ended" => 0 < Len(sent)
  BY <1>2 DEF Marks
<1>11. Underway(h)'
  BY <1>1, <1>2, <1>4, <1>8, <1>9, <1>10 DEF Underway
<1> QED
  BY <1>1, <1>2, <1>3, <1>11 DEF ReadInv

-----------------------------------------------------------------------------
(* The next event.                                                         *)

LEMMA DeliveredMore ==
    ASSUME SentType, Delivered, NEW e \in EventType, got' = Append(got, e),
           UNCHANGED <<sent, srcOpen>>,
           \/ Len(got) < Len(sent) /\ e = sent[Len(got) + 1]
           \/ /\ Len(got) >= Len(sent) /\ Len(got) < Len(sent) + Len(srcOpen)
              /\ e = End
    PROVE  Delivered' /\ Len(got') = Len(got) + 1
<1> DEFINE k == Len(got)
           n == Len(sent)
           l == Len(srcOpen)
<1>1. k \in Nat /\ n \in Nat /\ l \in Nat /\ k <= n + l
  BY LenProperties DEF SentType, Delivered
<1>2. /\ got' \in Seq(EventType) /\ Len(got') = k + 1 /\ got'[k + 1] = e
      /\ \A i \in 1..k : got'[i] = got[i]
  BY AppendProperties DEF Delivered
<1>3. \A i \in 1..k : got[i] = IF i <= n THEN sent[i] ELSE End
  BY DEF Delivered
<1>4. \/ k < n /\ e = sent[k + 1]
      \/ k >= n /\ k < n + l /\ e = End
  OBVIOUS
<1> HIDE DEF k, n, l
<1>5. k + 1 <= n + l /\ e = IF k + 1 <= n THEN sent[k + 1] ELSE End
  BY <1>1, <1>4
<1>6. ASSUME NEW i \in 1..(k + 1)
      PROVE  got'[i] = IF i <= n THEN sent[i] ELSE End
  <2>1. i = k + 1 \/ i \in 1..k
    BY <1>1
  <2> QED
    BY <1>2, <1>3, <1>5, <2>1
<1>7. Delivered'
  BY <1>2, <1>5, <1>6 DEF Delivered, n, l
<1> QED
  BY <1>2, <1>7 DEF k

(* Only the last event ends the stream.                                    *)
LEMMA GoesOn ==
    ASSUME SentType, NEW h, Marks(h), NEW k \in Nat, k < Len(sent), sent[k + 1] # Eos,
           srcPhase = "ended"
    PROVE  k + 1 < Len(sent)
<1>1. Len(sent) \in Nat /\ sent[Len(sent)] = Eos
  BY LenProperties DEF SentType, Marks
<1>2. k + 1 # Len(sent)
  BY <1>1
<1> QED
  BY <1>1, <1>2

(* The innermost container of the reader and that of the mark.             *)
LEMMA Innermost ==
    ASSUME NEW s \in Seq(P!FrameType), NEW es \in Seq(EntryType), Follows(s, es)
    PROVE  /\ s # <<>> /\ Len(s) = Len(es) + 1 /\ Len(es) \in Nat
           /\ es = <<>> => Len(s) = 1 /\ Last(s) = s[1] /\ RootOf(s)
           /\ es # <<>> =>
                 Len(s) > 1 /\ ReadAs(Last(s), Last(es)) /\ Last(es) \in EntryType
<1>1. /\ Len(s) = Len(es) + 1 /\ Len(es) \in Nat /\ RootOf(s)
  BY LenProperties DEF Follows
<1>2. s # <<>>
  BY <1>1, EmptySeq
<1>3. CASE es = <<>>
  <2>1. Len(s) = 1
    BY <1>1, <1>3
  <2> QED
    BY <1>1, <1>2, <1>3, <2>1 DEF Last
<1>4. CASE es # <<>>
  <2>1. Len(es) # 0
    BY <1>4, EmptySeq
  <2>2. Len(s) > 1
    BY <1>1, <2>1
  <2> QED
    BY <1>1, <1>2, <1>4, <2>2, FollowsFront
<1> QED
  BY <1>3, <1>4

(* There is more in the output where a record is due: the next event that  *)
(* has been sent.                                                          *)
LEMMA NextMark ==
    ASSUME SentType, NEW h, Marks(h), P!TypeOK, ReadInv(h), phase = "live",
           pc = "step", ~AtEnd
    PROVE  LET k == Len(got)
               m == h[k + 1]
               n == h[k + 1 + 1]
           IN  /\ k \in Nat /\ k < Len(sent) /\ sent[k + 1] \in EventType
               /\ pos \in Nat /\ pos + 1 <= Len(out) /\ Len(out) \in Nat
               /\ m \in MarkType /\ m.len = pos
               /\ m.stack \in Seq(EntryType) /\ Follows(parents, m.stack)
               /\ parents \in Seq(P!FrameType)
               /\ n \in MarkType /\ n.stack \in Seq(EntryType)
               /\ Marked(m, sent[k + 1], n, out)
               /\ ~R!Full(Last(parents))
<1> DEFINE k == Len(got)
           n == Len(sent)
           l == Len(out)
<1>1. /\ k \in Nat /\ n \in Nat /\ l \in Nat /\ pos \in Nat /\ parents \in Seq(P!FrameType)
      /\ pos # l /\ pos <= l
  BY LenProperties DEF SentType, ReadInv, Delivered, P!TypeOK, AtEnd
<1>2. /\ Underway(h) /\ ~R!Full(Last(parents))
  BY DEF ReadInv, Underway
<1>3. AtMark(h)
  BY <1>1, <1>2 DEF Underway, PastMarks
<1>4. k <= n /\ Follows(parents, h[k + 1].stack) /\ pos = h[k + 1].len
  BY <1>3 DEF AtMark
<1>5. /\ h \in Seq(MarkType) /\ Len(h) = n + 1 /\ l <= h[n + 1].len
      /\ \A i \in 1..n : Marked(h[i], sent[i], h[i + 1], out)
  BY DEF Marks, Script
<1>6. sent \in Seq(EventType)
  BY DEF SentType
<1> HIDE DEF k, n, l
<1>7. k # n
  <2> SUFFICES ASSUME k = n PROVE FALSE
    OBVIOUS
  <2>1. l <= pos
    BY <1>4, <1>5
  <2> QED
    BY <1>1, <2>1
<1>8. k < n /\ k + 1 \in 1..n /\ k + 1 \in 1..(n + 1) /\ k + 1 + 1 \in 1..(n + 1) /\ pos + 1 <= l
  BY <1>1, <1>4, <1>7
<1>9. h[k + 1] \in MarkType /\ h[k + 1 + 1] \in MarkType /\ sent[k + 1] \in EventType
  BY <1>5, <1>6, <1>8 DEF n
<1>10. h[k + 1].stack \in Seq(EntryType) /\ h[k + 1 + 1].stack \in Seq(EntryType)
  BY <1>9 DEF MarkType
<1>11. Marked(h[k + 1], sent[k + 1], h[k + 1 + 1], out)
  BY <1>5, <1>8
<1> QED
  BY <1>1, <1>2, <1>4, <1>8, <1>9, <1>10, <1>11 DEF k, n, l

(* Reading on feeds pipes and changes nothing else of the stack.           *)
LEMMA FedFollows ==
    ASSUME NEW s \in Seq(P!FrameType), NEW g, NEW es \in Seq(EntryType), Follows(s, es)
    PROVE  /\ R!Fed(s, g) \in Seq(P!FrameType)
           /\ Follows(R!Fed(s, g), es)
<1>1. P!Alike(s, P!Fed(s, g))
  BY Known, P!FedAlike
<1>2. P!Fed(s, g) = R!Fed(s, g)
  BY SameOperators
<1>3. Len(es) \in Nat
  BY LenProperties
<1> QED
  BY <1>1, <1>2, <1>3, FollowsAlike DEF P!Alike

(* In a container that has room a record is welcome.                       *)
LEMMA RoomToRead ==
    ASSUME NEW s \in Seq(P!FrameType), NEW es \in Seq(EntryType), Follows(s, es), Roomy(es)
    PROVE  ~R!Overfull(Last(s))
<1>1. CASE es = <<>>
  BY <1>1, Innermost, RootDecides
<1>2. CASE es # <<>>
  <2> DEFINE e == Last(es)
  <2>1. ReadAs(Last(s), e) /\ e \in EntryType
    BY <1>2, Innermost
  <2>2. e.count = -1 \/ e.children < e.count
    BY <1>2 DEF Roomy
  <2> HIDE DEF e
  <2>3. e.count \in Counts /\ e.children \in Nat
    BY <2>1 DEF EntryType
  <2>4. e.count \in Int
    <3>1. \A c \in Counts : c \in Int
      BY RoundtripAssumption
    <3> QED
      BY <2>3, <3>1
  <2>5. ~(e.count # -1 /\ e.count <= e.children)
    BY <2>2, <2>3, <2>4
  <2> QED
    BY <2>1, <2>5, ReadDecides
<1> QED
  BY <1>1, <1>2

(* The reader has read up to the mark of one more event.                   *)
LEMMA NextReached ==
    ASSUME SentType, NEW h, Marks(h), ReadInv(h), phase = "live",
           UNCHANGED <<sent, out, srcOpen, srcPhase, forgiving, api, phase>>,
           Len(got) < Len(sent), NEW e \in EventType, e = sent[Len(got) + 1], e # Eos,
           got' = Append(got, e),
           pc' = "check", api = "read_all", ret' # "again",
           pos' <= Len(out), pos' = h[Len(got) + 1 + 1].len, parents' # <<>>,
           Follows(parents', h[Len(got) + 1 + 1].stack)
    PROVE  ReadInv(h)'
<1>1. Delivered
  BY DEF ReadInv
<1>2. Delivered' /\ Len(got') = Len(got) + 1
  BY <1>1, DeliveredMore
<1>3. Len(got) \in Nat /\ Len(sent) \in Nat
  BY <1>1, LenProperties DEF Delivered, SentType
<1>4. Len(got') <= Len(sent)
  BY <1>2, <1>3
<1>5. AtMark(h)'
  BY <1>2, <1>4 DEF AtMark
<1>6. srcPhase = "ended" => Len(got') < Len(sent)
  BY <1>2, <1>3, GoesOn
<1>7. Underway(h)'
  BY <1>5, <1>6 DEF Underway
<1> QED
  BY <1>2, <1>7 DEF ReadInv

LEMMA ReadsStart ==
    ASSUME SentType, NEW h, Marks(h), P!TypeOK, ReadInv(h), phase = "live",
           UNCHANGED <<sent, out, srcOpen, srcPhase>>, ReadToken,
           sent[Len(got) + 1].event = "start_container",
           Started(h[Len(got) + 1], sent[Len(got) + 1], h[Len(got) + 1 + 1], out)
    PROVE  ReadInv(h)'
<1> DEFINE k == Len(got)
           m == h[k + 1]
           n == h[k + 1 + 1]
           e == sent[k + 1]
           t == Token
<1>1. pc = "step" /\ ~AtEnd
  BY DEF ReadToken, R!RejectToken, R!ReadEoc, R!PushNode, R!StartContainer,
         R!Reading, R!Stepping
<1>2. /\ k \in Nat /\ k < Len(sent) /\ e \in EventType
      /\ pos \in Nat /\ pos + 1 <= Len(out)
      /\ m.len = pos /\ m.stack \in Seq(EntryType) /\ Follows(parents, m.stack)
      /\ parents \in Seq(P!FrameType)
  BY <1>1, NextMark
<1>3. PICK f \in EntryType :
         /\ f.id = n.len /\ f.count = e.count /\ f.children = 0
         /\ n.stack = Append(m.stack, f)
         /\ UnitAt(out, n.len, [kind |-> "container", size |-> f.count,
                                armored |-> f.armored, hash |-> f.hash])
  BY DEF Started
<1>4. Roomy(m.stack) /\ n.len = pos + 1
  BY <1>2 DEF Started
<1>5. out[pos + 1] = [kind |-> "container", size |-> f.count,
                      armored |-> f.armored, hash |-> f.hash]
  BY <1>2, <1>3, <1>4 DEF UnitAt
<1>6. t = [kind |-> "container", size |-> f.count, armored |-> f.armored,
           hash |-> IF f.hash = HT_NONE THEN R!NotHashed ELSE f.hash, extra |-> FALSE]
  BY <1>5 DEF Token
<1> HIDE DEF t
<1>7. e = Start(f.count) /\ e # Eos
  <2>1. e.count = f.count /\ e.event = "start_container"
    BY <1>3
  <2> HIDE DEF e
  <2> QED
    BY <1>2, <2>1 DEF EventType, Start, Eos
<1>8. f.count \in Counts /\ (f.count = -1 => f.armored)
  BY DEF EntryType
<1>9. R!ChildCount(t) = f.count
  BY <1>6, <1>8, CountRead
<1>10. R!HeaderAccepted(t)
  BY <1>6, <1>8, <1>9 DEF R!HeaderAccepted, ReadInv
<1>11. ~R!Rejected(t)
  <2>1. ~R!Overfull(R!CurrParent)
    BY <1>2, <1>4, RoomToRead, SameOperators
  <2> QED
    BY <1>6, <1>10, <2>1 DEF R!Rejected
<1>12. R!StartContainer(t, TRUE) /\ got' = Append(got, e)
  BY <1>6, <1>7, <1>9, <1>11 DEF ReadToken, R!RejectToken, R!ReadEoc, R!PushNode, Got, t
<1>13. /\ parents' = Append(R!Fed(parents, source), R!Frame(t))
       /\ pos' = pos + 1 /\ pc' = "check" /\ ret' = "container"
       /\ UNCHANGED <<forgiving, api, phase>>
  BY <1>12 DEF R!StartContainer, R!ThenCheck, R!Reading
<1>14. ReadAs(R!Frame(t), f)
  BY <1>3, <1>4, <1>6 DEF R!Frame, R!NewFrame, ReadAs
<1>15. R!Fed(parents, source) \in Seq(P!FrameType) /\ Follows(R!Fed(parents, source), m.stack)
  BY <1>2, FedFollows
<1> HIDE DEF m, n, e, k
<1>16. Follows(parents', n.stack)
  BY <1>2, <1>3, <1>13, <1>14, <1>15, FollowsBegun
<1>17. parents' # <<>>
  BY <1>13, <1>15, AppendProperties
<1>18. api = "read_all"
  BY <1>1 DEF ReadInv
<1> QED
  BY <1>2, <1>4, <1>7, <1>12, <1>13, <1>16, <1>17, <1>18, NextReached DEF k, n, e

LEMMA ReadsNode ==
    ASSUME SentType, NEW h, Marks(h), P!TypeOK, ReadInv(h), phase = "live",
           UNCHANGED <<sent, out, srcOpen, srcPhase>>, ReadToken,
           sent[Len(got) + 1] = Node,
           Pushed(h[Len(got) + 1], h[Len(got) + 1 + 1], out)
    PROVE  ReadInv(h)'
<1> DEFINE k == Len(got)
           m == h[k + 1]
           n == h[k + 1 + 1]
           t == Token
           fed == R!Fed(parents, source)
<1>1. pc = "step" /\ ~AtEnd
  BY DEF ReadToken, R!RejectToken, R!ReadEoc, R!PushNode, R!StartContainer,
         R!Reading, R!Stepping
<1>2. /\ k \in Nat /\ k < Len(sent)
      /\ pos \in Nat /\ pos + 1 <= Len(out)
      /\ m.len = pos /\ m.stack \in Seq(EntryType) /\ Follows(parents, m.stack)
      /\ parents \in Seq(P!FrameType)
  BY <1>1, NextMark
<1>3. /\ Roomy(m.stack) /\ n.len = pos + 1 /\ n.stack = Added(m.stack)
      /\ out[pos + 1] = [kind |-> "leaf"]
  BY <1>2 DEF Pushed, UnitAt
<1>4. t = [kind |-> "leaf"]
  BY <1>3 DEF Token
<1> HIDE DEF t
<1>5. Node \in EventType /\ Node # Eos
  BY DEF Node, Eos, EventType
<1>6. ~R!Rejected(t)
  <2>1. ~R!Overfull(R!CurrParent)
    BY <1>2, <1>3, RoomToRead, SameOperators
  <2> QED
    BY <1>4, <2>1 DEF R!Rejected
<1>7. R!PushNode(t, TRUE) /\ got' = Append(got, Node)
  BY <1>4, <1>6 DEF ReadToken, R!RejectToken, R!ReadEoc, R!StartContainer, Got, t
<1>8. /\ parents' = R!Counted(fed)
      /\ pos' = pos + 1 /\ pc' = "check" /\ ret' = "leaf"
      /\ UNCHANGED <<forgiving, api, phase>>
  BY <1>7 DEF R!PushNode, R!ThenCheck, R!Reading
<1>9. fed \in Seq(P!FrameType) /\ Follows(fed, m.stack)
  BY <1>2, FedFollows
<1> HIDE DEF m, n, k, fed
<1>10. Follows(parents', n.stack)
  BY <1>2, <1>3, <1>8, <1>9, FollowsCounted
<1>11. parents' # <<>>
  <2>1. Added(m.stack) \in Seq(EntryType)
    BY <1>2, EntryAdded
  <2>2. Len(n.stack) \in Nat
    BY <1>3, <2>1, LenProperties
  <2> QED
    BY <1>10, <2>2 DEF Follows
<1>12. api = "read_all"
  BY <1>1 DEF ReadInv
<1> QED
  BY <1>2, <1>3, <1>5, <1>7, <1>8, <1>10, <1>11, <1>12, NextReached DEF k, n

(* The marker of a container or of the stream has been read.               *)
LEMMA MarkerRead ==
    ASSUME SentType, NEW h, Marks(h), P!TypeOK, ReadInv(h), phase = "live",
           UNCHANGED <<sent, out, srcOpen, srcPhase>>, ReadToken,
           out[pos + 1] = [kind |-> "eoc"], pc = "step", pos + 1 <= Len(out),
           Last(parents).armored, R!ChildCount(Last(parents)) \in {-1, Last(parents).read},
           Len(got) < Len(sent), pos = h[Len(got) + 1].len,
           h[Len(got) + 1].stack \in Seq(EntryType), Follows(parents, h[Len(got) + 1].stack),
           parents \in Seq(P!FrameType),
           sent[Len(got) + 1] = IF Len(parents) > 1 THEN End ELSE Eos
    PROVE  ReadInv(h)'
<1> DEFINE m == h[Len(got) + 1]
           t == Token
           fed == R!Fed(parents, source)
<1>1. t = [kind |-> "eoc"]
  BY DEF Token
<1> HIDE DEF t
<1>2. ~R!Rejected(t)
  <2>1. R!EocAccepted(R!CurrParent)
    BY SameOperators DEF R!EocAccepted
  <2> QED
    BY <1>1, <2>1 DEF R!Rejected
<1>3. R!ReadEoc(t) /\ UNCHANGED got
  BY <1>1, <1>2 DEF ReadToken, R!RejectToken, R!PushNode, R!StartContainer, GotNone, t
<1>4. /\ parents' = fed /\ pos' = pos + 1 /\ pc' = "end" /\ ret' = "null"
      /\ UNCHANGED <<forgiving, api, phase>>
  BY <1>3 DEF R!ReadEoc, R!Reading, R!historyVars
<1>5. fed \in Seq(P!FrameType) /\ Follows(fed, m.stack)
  BY FedFollows
<1> HIDE DEF m, fed
<1>6. Delivered'
  BY <1>3 DEF ReadInv, Delivered
<1>7. /\ parents # <<>> /\ parents' # <<>> /\ Len(parents') = Len(parents)
      /\ Last(parents') \in P!FrameType
  <2>1. Len(parents') = Len(parents) /\ parents # <<>>
    BY <1>4, <1>5, Innermost DEF m, Follows
  <2>2. parents' \in Seq(P!FrameType) /\ parents' # <<>>
    BY <1>4, <1>5, Innermost DEF m
  <2> QED
    BY <2>1, <2>2, FrontFacts
<1>8. Last(parents').armored
  <2>1. P!Alike(parents, P!Fed(parents, source))
    BY Known, P!FedAlike
  <2>2. P!Fed(parents, source) = parents'
    BY <1>4, SameOperators DEF fed
  <2>3. /\ \A i \in 1..Len(parents) : parents'[i].armored = parents[i].armored
        /\ Last(parents) = parents[Len(parents)] /\ Last(parents') = parents'[Len(parents)]
    BY <1>7, <2>1, <2>2 DEF P!Alike, Last
  <2>4. Len(parents) \in 1..Len(parents)
    BY <1>7, EmptySeq, LenProperties
  <2> QED
    BY <2>3, <2>4
<1>9. Len(got) <= Len(sent)
  BY LenProperties DEF ReadInv, Delivered, SentType
<1>10. AtMark(h)'
  BY <1>3, <1>4, <1>5, <1>7, <1>8, <1>9 DEF AtMark, m
<1>11. Underway(h)'
  BY <1>3, <1>4, <1>7, <1>10 DEF Underway, ReadInv
<1> QED
  BY <1>4, <1>6, <1>11 DEF ReadInv

LEMMA ReadsMarker ==
    ASSUME SentType, NEW h, Marks(h), P!TypeOK, ReadInv(h), phase = "live",
           UNCHANGED <<sent, out, srcOpen, srcPhase>>, ReadToken,
           \/ /\ sent[Len(got) + 1] = End
              /\ Ended(h[Len(got) + 1], h[Len(got) + 1 + 1], out)
           \/ /\ sent[Len(got) + 1] = Eos
              /\ Finished(h[Len(got) + 1], h[Len(got) + 1 + 1], out)
    PROVE  ReadInv(h)'
<1> DEFINE k == Len(got)
           m == h[k + 1]
           n == h[k + 1 + 1]
           f == Last(parents)
<1>1. pc = "step" /\ ~AtEnd
  BY DEF ReadToken, R!RejectToken, R!ReadEoc, R!PushNode, R!StartContainer,
         R!Reading, R!Stepping
<1>2. /\ k \in Nat /\ k < Len(sent)
      /\ pos \in Nat /\ pos + 1 <= Len(out)
      /\ m.len = pos /\ m.stack \in Seq(EntryType) /\ Follows(parents, m.stack)
      /\ parents \in Seq(P!FrameType)
      /\ ~R!Full(f)
  BY <1>1, NextMark
<1> HIDE DEF m, n, f, k
<1>3. CASE sent[k + 1] = End /\ Ended(m, n, out)
  <2> DEFINE e == Last(m.stack)
  <2>1. /\ m.stack # <<>> /\ e.count \in {-1, e.children}
        /\ e.armored => UnitAt(out, pos + 1, [kind |-> "eoc"])
    BY <1>2, <1>3 DEF Ended
  <2>2. Len(parents) > 1 /\ ReadAs(f, e) /\ e \in EntryType
    BY <1>2, <2>1, Innermost DEF f
  <2> HIDE DEF e
  <2>3. e.count = -1 => e.armored
    BY <2>2 DEF EntryType
  <2>4. e.armored /\ R!ChildCount(f) = e.count
    BY <1>2, <2>1, <2>2, <2>3, ReadDecides
  <2>5. f.armored /\ R!ChildCount(f) \in {-1, f.read}
    BY <2>1, <2>2, <2>4 DEF ReadAs
  <2>6. out[pos + 1] = [kind |-> "eoc"]
    BY <1>2, <2>1, <2>4 DEF UnitAt
  <2> QED
    BY <1>1, <1>2, <1>3, <2>2, <2>5, <2>6, MarkerRead DEF k, m, f
<1>4. CASE sent[k + 1] = Eos /\ Finished(m, n, out)
  <2>1. m.stack = <<>> /\ UnitAt(out, pos + 1, [kind |-> "eoc"])
    BY <1>2, <1>4 DEF Finished
  <2>2. Len(parents) = 1 /\ f = parents[1] /\ RootOf(parents)
    BY <1>2, <2>1, Innermost DEF f
  <2>3. f.armored /\ R!ChildCount(f) = -1
    BY <2>2, RootDecides DEF RootOf
  <2>4. out[pos + 1] = [kind |-> "eoc"]
    BY <1>2, <2>1 DEF UnitAt
  <2> QED
    BY <1>1, <1>2, <1>4, <2>2, <2>3, <2>4, MarkerRead DEF k, m, f
<1> QED
  BY <1>3, <1>4 DEF k, m, n

LEMMA TokenRead ==
    ASSUME SentType, NEW h, Marks(h), P!TypeOK, ReadInv(h), phase = "live",
           UNCHANGED <<sent, out, srcOpen, srcPhase>>, ReadToken
    PROVE  ReadInv(h)'
<1>1. pc = "step" /\ ~AtEnd
  BY DEF ReadToken, R!RejectToken, R!ReadEoc, R!PushNode, R!StartContainer,
         R!Reading, R!Stepping
<1>2. Marked(h[Len(got) + 1], sent[Len(got) + 1], h[Len(got) + 1 + 1], out)
  BY <1>1, NextMark
<1> QED
  BY <1>2, ReadsStart, ReadsNode, ReadsMarker DEF Marked

-----------------------------------------------------------------------------
(* The end of a container.                                                 *)

(* The container ends, in the reader and in the marks.                     *)
LEMMA EndFollows ==
    ASSUME P!TypeOK, NEW es \in Seq(EntryType), Follows(parents, es), es # <<>>
    PROVE  LET t == R!Counted(R!StackBelow(Last(parents))) IN
           /\ t # <<>> /\ Len(t) = Len(parents) - 1
           /\ Follows(t, Added(Front(es)))
<1> DEFINE f == Last(parents)
           u == R!StackBelow(f)
           t == R!Counted(u)
<1>1. parents \in Seq(P!FrameType)
  BY DEF P!TypeOK
<1>2. /\ parents # <<>> /\ Front(parents) # <<>> /\ Front(parents) \in Seq(P!FrameType)
      /\ Front(es) \in Seq(EntryType) /\ Follows(Front(parents), Front(es))
  BY <1>1, FollowsFront
<1>3. u \in Seq(P!FrameType) /\ Follows(u, Front(es))
  <2>1. u = IF R!IsHashed(f) THEN R!Fed(Front(parents), R!SourceBelow(f)) ELSE Front(parents)
    BY DEF R!StackBelow, R!Front, Front
  <2> QED
    BY <1>2, <2>1, FedFollows
<1> HIDE DEF u, f
<1>4. Follows(t, Added(Front(es)))
  BY <1>2, <1>3, FollowsCounted
<1>5. Len(Added(Front(es))) = Len(Front(es)) /\ Len(Front(es)) = Len(es) - 1
  BY <1>2, EntryAdded, FrontFacts
<1>6. Len(parents) = Len(es) + 1 /\ Len(es) \in Nat \ {0}
  BY FrontFacts DEF Follows
<1>7. Len(t) = Len(parents) - 1 /\ Len(t) # 0
  BY <1>4, <1>5, <1>6 DEF Follows
<1> QED
  BY <1>4, <1>7 DEF t, u, f

LEMMA FooterNone ==
    ASSUME ~R!IsHashed(Last(parents)), ReadFooter
    PROVE  /\ got' = Append(got, End)
           /\ parents' = R!Counted(R!StackBelow(Last(parents)))
           /\ pos' = pos /\ pc' = "check" /\ ret' = ret
           /\ UNCHANGED <<forgiving, api, phase>>
<1>1. Footer = "none"
  BY SameOperators DEF Footer
<1>2. R!EndContainer("none", TRUE) /\ got' = Append(got, End)
  BY <1>1 DEF ReadFooter, R!RejectFooter, R!FooterAccepted, Got
<1> QED
  BY <1>2, SameOperators DEF R!EndContainer, R!ThenCheck

LEMMA FooterMatches ==
    ASSUME R!IsHashed(Last(parents)), ReadFooter, P!ReaderInv, out \in Seq(UnitType),
           parents # <<>>,
           out[pos + 1] = [kind |-> "digest", of |-> (Last(parents).id + 1)..pos]
    PROVE  /\ got' = Append(got, End)
           /\ parents' = R!Counted(R!StackBelow(Last(parents)))
           /\ pos' = pos + 1 /\ pc' = "check" /\ ret' = ret
           /\ UNCHANGED <<forgiving, api, phase>>
<1> DEFINE f == Last(parents)
           foot == Footer
<1>1. R!CurrParent = f
  BY SameOperators
<1>2. f.pipe # <<>> => f.fed = pos - f.id
  <2>1. P!Covers(parents, pos) /\ parents \in Seq(P!FrameType)
    BY DEF P!ReaderInv, P!HashCoversBody, P!TypeOK
  <2>2. Len(parents) \in 1..Len(parents) /\ f = parents[Len(parents)]
    BY <2>1, EmptySeq, LenProperties DEF Last
  <2> QED
    BY <2>1, <2>2 DEF P!Covers, P!HasPipe
<1>3. foot = IF f.pipe = <<>> THEN "skipped" ELSE "match"
  BY <1>1, <1>2 DEF Footer, Matches
<1> HIDE DEF foot
<1>4. foot # "none" /\ R!FooterAccepted(foot)
  BY <1>3 DEF R!FooterAccepted
<1>5. R!EndContainer(foot, TRUE) /\ got' = Append(got, End)
  BY <1>4 DEF ReadFooter, R!RejectFooter, Got, foot
<1> QED
  BY <1>4, <1>5, SameOperators DEF R!EndContainer, R!ThenCheck

(* The container that ends has been ended by the source.                   *)
LEMMA EndReached ==
    ASSUME SentType, NEW h, Marks(h), P!ReaderInv, ReadInv(h), phase = "live",
           UNCHANGED <<sent, out, srcOpen, srcPhase>>, ReadFooter,
           Len(got) < Len(sent), sent[Len(got) + 1] = End,
           h[Len(got) + 1].stack \in Seq(EntryType), Follows(parents, h[Len(got) + 1].stack),
           Ended(h[Len(got) + 1], h[Len(got) + 1 + 1], out),
           pos = h[Len(got) + 1].len + MarkerLen(Last(h[Len(got) + 1].stack))
    PROVE  ReadInv(h)'
<1> DEFINE m == h[Len(got) + 1]
           n == h[Len(got) + 1 + 1]
           e == Last(m.stack)
           f == Last(parents)
<1>1. P!TypeOK /\ parents \in Seq(P!FrameType) /\ out \in Seq(UnitType)
  BY DEF P!ReaderInv, P!TypeOK, SentType
<1>2. /\ m.stack # <<>> /\ n.stack = Added(Front(m.stack))
      /\ n.len = pos + FooterLen(e)
      /\ e.hash # HT_NONE =>
             UnitAt(out, n.len, [kind |-> "digest", of |-> (e.id + 1)..(n.len - 1)])
  BY DEF Ended
<1>3. parents # <<>> /\ ReadAs(f, e) /\ e \in EntryType
  BY <1>1, <1>2, Innermost
<1>4. R!IsHashed(f) <=> e.hash # HT_NONE
  BY <1>3, ReadDecides
<1>5. f.id = e.id
  BY <1>3 DEF ReadAs
<1>6. pos \in Nat /\ Len(out) \in Nat /\ pos <= Len(out)
  BY <1>1, LenProperties DEF P!TypeOK, ReadInv
<1>7. pc = "end" /\ api = "read_all" /\ ret # "again"
  BY DEF ReadFooter, ReadInv
<1> HIDE DEF e, f
<1>8. /\ got' = Append(got, End)
      /\ parents' = R!Counted(R!StackBelow(f))
      /\ pos' = n.len /\ n.len <= Len(out) /\ pc' = "check" /\ ret' = ret
      /\ UNCHANGED <<forgiving, api, phase>>
  <2>1. CASE ~R!IsHashed(f)
    <3>1. FooterLen(e) = 0 /\ n.len = pos
      BY <1>2, <1>4, <1>6, <2>1, FooterLengths
    <3> QED
      BY <1>6, <2>1, <3>1, FooterNone DEF f
  <2>2. CASE R!IsHashed(f)
    <3>1. FooterLen(e) = 1 /\ n.len = pos + 1 /\ n.len - 1 = pos
      BY <1>2, <1>4, <1>6, <2>2 DEF FooterLen
    <3>2. ~AtEnd
      BY <2>2, SameOperators DEF ReadFooter, f
    <3>3. pos + 1 <= Len(out)
      BY <1>6, <3>2 DEF AtEnd
    <3>4. out[pos + 1] = [kind |-> "digest", of |-> (f.id + 1)..pos]
      BY <1>2, <1>4, <1>5, <2>2, <3>1, <3>3 DEF UnitAt
    <3> QED
      BY <1>1, <1>3, <2>2, <3>1, <3>3, <3>4, FooterMatches DEF f
  <2> QED
    BY <2>1, <2>2
<1>9. parents' # <<>> /\ Follows(parents', n.stack)
  BY <1>1, <1>2, <1>8, EndFollows DEF f
<1>10. End \in EventType /\ End # Eos
  BY DEF End, Eos, EventType
<1> HIDE DEF m, n
<1> QED
  BY <1>7, <1>8, <1>9, <1>10, NextReached DEF n

LEMMA MarkTypes ==
    ASSUME SentType, NEW h, Marks(h), NEW k \in Nat, k <= Len(sent)
    PROVE  /\ h[k + 1] \in MarkType /\ h[k + 1].len \in Nat
           /\ h[k + 1].stack \in Seq(EntryType)
           /\ k < Len(sent) =>
                /\ Marked(h[k + 1], sent[k + 1], h[k + 1 + 1], out)
                /\ h[k + 1].len <= Len(out)
           /\ k < Len(sent) /\ srcPhase = "ended" =>
                h[k + 1].len < Len(out) /\ h[k + 1 + 1].len <= Len(out)
           /\ k = Len(sent) =>
                Len(out) <= h[k + 1].len /\ Len(h[k + 1].stack) = Len(srcOpen)
<1> DEFINE n == Len(sent)
           l == Len(out)
<1>1. n \in Nat /\ l \in Nat
  BY LenProperties DEF SentType
<1>2. /\ h \in Seq(MarkType) /\ Len(h) = n + 1
      /\ \A i \in 1..n : Marked(h[i], sent[i], h[i + 1], out) /\ h[i].len <= l
      /\ l <= h[n + 1].len /\ Len(h[n + 1].stack) = Len(srcOpen)
  BY DEF Marks, Script
<1>3. srcPhase = "ended" => h[n + 1].len = l /\ \A i \in 1..n : h[i].len < l
  BY DEF Marks
<1> HIDE DEF n, l
<1>4. k + 1 \in 1..(n + 1) /\ (k < n => k + 1 \in 1..n)
      /\ (k < n => k + 1 + 1 = n + 1 \/ k + 1 + 1 \in 1..n)
  BY <1>1 DEF n
<1>5. h[k + 1] \in MarkType
  BY <1>2, <1>4
<1>6. h[k + 1].len \in Nat /\ h[k + 1].stack \in Seq(EntryType)
  BY <1>5 DEF MarkType
<1>7. k < n /\ srcPhase = "ended" => h[k + 1].len < l /\ h[k + 1 + 1].len <= l
  <2> SUFFICES ASSUME k < n, srcPhase = "ended"
               PROVE  h[k + 1].len < l /\ h[k + 1 + 1].len <= l
    OBVIOUS
  <2>1. h[k + 1].len < l
    BY <1>3, <1>4
  <2>2. CASE k + 1 + 1 = n + 1
    <3>1. h[k + 1 + 1].len = l
      BY <1>3, <2>2
    <3>2. l <= l
      BY <1>1
    <3> QED
      BY <2>1, <3>1, <3>2
  <2>3. CASE k + 1 + 1 \in 1..n
    BY <1>2, <2>1, <2>3
  <2> QED
    BY <1>4, <2>1, <2>2, <2>3
<1> QED
  BY <1>2, <1>4, <1>5, <1>6, <1>7 DEF n, l

(* A container ends that the source had filled but not ended.              *)
LEMMA EndUnsent ==
    ASSUME SentType, NEW h, P!TypeOK, ReadInv(h), phase = "live",
           UNCHANGED <<sent, out, srcOpen, srcPhase>>, ReadFooter,
           ~R!IsHashed(Last(parents)), Len(got) >= Len(sent), pos = Len(out),
           Len(parents) = Len(srcOpen) + 1 - (Len(got) - Len(sent)),
           parents[1].armored
    PROVE  ReadInv(h)'
<1>1. /\ got' = Append(got, End)
      /\ parents' = R!Counted(R!StackBelow(Last(parents)))
      /\ pos' = pos /\ pc' = "check" /\ ret' = ret
      /\ UNCHANGED <<forgiving, api, phase>>
  BY FooterNone
<1>2. /\ Len(parents) > 1 /\ parents \in Seq(P!FrameType) /\ pc = "end"
      /\ api = "read_all" /\ ret # "again" /\ Delivered /\ Underway(h)
  BY DEF ReadFooter, P!TypeOK, ReadInv
<1>3. /\ Len(parents) \in Nat /\ Len(got) \in Nat /\ Len(sent) \in Nat
      /\ Len(srcOpen) \in Nat /\ parents # <<>>
  BY <1>2, EmptySeq, LenProperties DEF SentType, Delivered
<1>4. /\ Front(parents) \in Seq(P!FrameType) /\ Len(Front(parents)) = Len(parents) - 1
      /\ \A i \in 1..(Len(parents) - 1) : Front(parents)[i] = parents[i]
  BY <1>2, <1>3, FrontFacts
<1>5. 1 \in 1..(Len(parents) - 1) /\ Len(parents) - 1 # 0
  BY <1>2, <1>3
<1>6. parents' = P!Counted(Front(parents))
  BY <1>1, SameOperators DEF R!StackBelow, R!Front, Front
<1>7. Front(parents) # <<>>
  BY <1>4, <1>5, EmptySeq
<1>8. Len(parents') = Len(parents) - 1 /\ parents'[1].armored
  <2> DEFINE s == Front(parents)
  <2>1. /\ Len(parents') = Len(s)
        /\ \A i \in 1..Len(s) : parents'[i].armored = s[i].armored
    BY <1>4, <1>6, <1>7, Known, P!CountedRead
  <2> QED
    BY <1>4, <1>5, <2>1
<1>9. parents' # <<>>
  BY <1>5, <1>8, EmptySeq
<1>10. End \in EventType
  BY DEF End, EventType
<1>11. Len(got) < Len(sent) + Len(srcOpen)
  BY <1>2, <1>3
<1>12. Delivered' /\ Len(got') = Len(got) + 1
  BY <1>1, <1>2, <1>10, <1>11, DeliveredMore
<1>13. PastMarks'
  <2>1. Len(got') > Len(sent)
    BY <1>3, <1>12
  <2>2. Len(parents') = Len(srcOpen) + 1 - (Len(got') - Len(sent))
    BY <1>3, <1>8, <1>12
  <2> QED
    BY <1>1, <1>8, <2>1, <2>2 DEF PastMarks
<1>14. srcPhase # "ended"
  BY <1>2, <1>3 DEF Underway
<1>15. Underway(h)'
  BY <1>1, <1>9, <1>13, <1>14 DEF Underway
<1>16. pos' <= Len(out')
  BY <1>1 DEF ReadInv
<1> QED
  BY <1>1, <1>2, <1>12, <1>15, <1>16 DEF ReadInv

LEMMA FooterRead ==
    ASSUME SentType, NEW h, Marks(h), P!ReaderInv, ReadInv(h), phase = "live",
           UNCHANGED <<sent, out, srcOpen, srcPhase>>, ReadFooter
    PROVE  ReadInv(h)'
<1> DEFINE k == Len(got)
           m == h[k + 1]
           n == h[k + 1 + 1]
           e == Last(m.stack)
           f == Last(parents)
<1>1. /\ P!TypeOK /\ parents \in Seq(P!FrameType) /\ pos \in Nat
      /\ pc = "end" /\ Len(parents) > 1 /\ Underway(h) /\ pos <= Len(out)
      /\ R!IsHashed(f) => ~AtEnd
  BY SameOperators DEF P!ReaderInv, P!TypeOK, ReadFooter, ReadInv
<1>2. k \in Nat /\ Len(sent) \in Nat /\ Len(out) \in Nat /\ Len(parents) \in Nat
  BY <1>1, LenProperties DEF SentType, ReadInv, Delivered
<1>3. CASE PastMarks
  <2>1. ~R!IsHashed(f)
    BY <1>1, <1>3 DEF PastMarks, AtEnd
  <2>2. Len(got) >= Len(sent)
    BY <1>2, <1>3 DEF PastMarks
  <2> QED
    BY <1>1, <1>3, <2>1, <2>2, EndUnsent DEF PastMarks
<1>4. CASE AtMark(h)
  <2>1. k <= Len(sent) /\ Follows(parents, m.stack)
    BY <1>4 DEF AtMark
  <2>2. /\ m.stack \in Seq(EntryType) /\ m.len \in Nat
        /\ k < Len(sent) => Marked(m, sent[k + 1], n, out)
        /\ k = Len(sent) => Len(out) <= m.len /\ Len(m.stack) = Len(srcOpen)
    BY <1>2, <2>1, MarkTypes
  <2>3. m.stack # <<>> /\ ReadAs(f, e) /\ e \in EntryType
    BY <1>1, <2>1, <2>2, Innermost
  <2>4. /\ f.armored => /\ pos = m.len + 1 /\ k < Len(sent) /\ sent[k + 1] = End
        /\ ~f.armored => pos = m.len /\ R!Full(f)
    BY <1>1, <1>4 DEF AtMark
  <2>5. f.armored = e.armored
    BY <2>3 DEF ReadAs
  <2>6. pos = m.len + MarkerLen(e)
    BY <2>2, <2>3, <2>4, <2>5, FooterLengths DEF EntryType
  <2> HIDE DEF k, n, f
  <2>7. CASE k < Len(sent)
    <3>1. sent[k + 1] = End
      <4>1. CASE f.armored
        BY <2>4, <4>1
      <4>2. CASE ~f.armored
        <5>1. e.count = e.children /\ ~e.armored
          BY <2>3, <2>4, <4>2, ReadDecides
        <5>2. e.count # -1 /\ e.children \in Nat
          BY <2>3, <5>1 DEF EntryType
        <5>3. ~Roomy(m.stack)
          BY <2>3, <5>1, <5>2 DEF Roomy
        <5>4. Marked(m, sent[k + 1], n, out)
          BY <2>2, <2>7
        <5> HIDE DEF m, e
        <5> QED
          BY <2>3, <5>3, <5>4 DEF Marked, Started, Pushed, Finished
      <4> QED
        BY <4>1, <4>2
    <3>2. Ended(m, n, out)
      <4>1. Marked(m, End, n, out)
        BY <2>2, <2>7, <3>1
      <4> HIDE DEF m, e
      <4>2. End.event # "start_container" /\ End # Node /\ End # Eos
        BY DEF End, Node, Eos
      <4> QED
        BY <4>1, <4>2 DEF Marked
    <3> QED
      BY <2>1, <2>2, <2>6, <2>7, <3>1, <3>2, EndReached DEF k, n
  <2>8. CASE k = Len(sent)
    <3>1. ~f.armored /\ pos = m.len
      BY <1>2, <2>4, <2>8
    <3>2. pos = Len(out)
      <4>1. Len(out) <= pos
        BY <2>2, <2>8, <3>1
      <4> QED
        BY <1>1, <1>2, <4>1
    <3>3. ~R!IsHashed(f)
      BY <1>1, <3>2 DEF AtEnd
    <3>4. Len(parents) = Len(srcOpen) + 1 /\ parents[1].armored
      BY <2>1, <2>2, <2>8 DEF Follows, RootOf
    <3>5. Len(got) >= Len(sent) /\ Len(got) - Len(sent) = 0
      BY <1>2, <2>8 DEF k
    <3>6. Len(srcOpen) \in Nat
      BY LenProperties DEF SentType
    <3>7. Len(parents) = Len(srcOpen) + 1 - (Len(got) - Len(sent))
      BY <3>4, <3>5, <3>6
    <3> QED
      BY <1>1, <3>2, <3>3, <3>4, <3>5, <3>7, EndUnsent DEF f
  <2> QED
    BY <1>2, <2>1, <2>7, <2>8
<1> QED
  BY <1>1, <1>3, <1>4 DEF Underway

-----------------------------------------------------------------------------
(* The other steps of the reader.                                          *)

(* The output ends where the reader has to read on: it was interrupted.    *)
LEMMA EofCuts ==
    ASSUME SentType, NEW h, Marks(h), P!TypeOK, ReadInv(h), phase = "live",
           UNCHANGED <<sent, out, srcOpen, srcPhase>>, AtEnd,
           NEW s, NEW g, R!Abort(s, g), UNCHANGED <<got, pos>>,
           \/ pc = "step"
           \/ pc = "end" /\ Len(parents) > 1 /\ R!IsHashed(Last(parents))
    PROVE  ReadInv(h)'
<1> DEFINE k == Len(got)
           m == h[k + 1]
           n == h[k + 1 + 1]
           e == Last(m.stack)
           f == Last(parents)
<1>1. /\ parents \in Seq(P!FrameType) /\ pos \in Nat /\ Underway(h) /\ pos = Len(out)
      /\ k \in Nat /\ Len(sent) \in Nat /\ api = "read_all"
  BY LenProperties DEF SentType, P!TypeOK, ReadInv, Delivered, AtEnd
<1>2. srcPhase # "ended"
  <2> SUFFICES ASSUME srcPhase = "ended" PROVE FALSE
    OBVIOUS
  <2>1. k < Len(sent)
    BY <1>1 DEF Underway
  <2>2. AtMark(h)
    BY <1>1, <2>1 DEF Underway, PastMarks
  <2>3. /\ m.stack \in Seq(EntryType) /\ m.len \in Nat
        /\ Marked(m, sent[k + 1], n, out)
        /\ m.len < Len(out) /\ n.len <= Len(out)
    BY <1>1, <2>1, MarkTypes
  <2>4. Follows(parents, m.stack)
    BY <2>2 DEF AtMark
  <2>5. pc # "end" => pos = m.len
    BY <2>2 DEF AtMark
  <2>6. pc = "end"
    BY <1>1, <2>3, <2>5
  <2>7. Len(parents) > 1 /\ R!IsHashed(f)
    BY <2>6
  <2>8. m.stack # <<>> /\ ReadAs(f, e) /\ e \in EntryType
    BY <1>1, <2>3, <2>4, <2>7, Innermost
  <2>9. ~f.armored => pos = m.len
    BY <2>2, <2>6 DEF AtMark
  <2>10. f.armored /\ sent[k + 1] = End /\ pos = m.len + 1
    BY <1>1, <2>2, <2>3, <2>6, <2>7, <2>9 DEF AtMark
  <2>11. e.armored /\ e.hash # HT_NONE
    BY <2>7, <2>8, <2>10, ReadDecides DEF ReadAs
  <2>12. Ended(m, n, out)
    <3>1. Marked(m, End, n, out)
      BY <2>3, <2>10
    <3> HIDE DEF m, n
    <3>2. End.event # "start_container" /\ End # Node /\ End # Eos
      BY DEF End, Node, Eos
    <3> QED
      BY <3>1, <3>2 DEF Marked
  <2>13. n.len = m.len + MarkerLen(e) + FooterLen(e)
    BY <2>12 DEF Ended
  <2>14. MarkerLen(e) = 1 /\ FooterLen(e) = 1
    BY <2>11 DEF MarkerLen, FooterLen
  <2> HIDE DEF m, n, e
  <2>15. n.len = pos + 1
    BY <2>3, <2>10, <2>13, <2>14
  <2> QED
    BY <1>1, <2>3, <2>15
<1>3. /\ parents' = <<>> /\ phase' = "cut" /\ pc' = "idle" /\ ret' = "null"
      /\ forgiving' = forgiving
  BY <1>1 DEF R!Abort, R!Cleanup, R!CallOver
<1>4. Delivered' /\ pos' <= Len(out')
  BY DEF ReadInv, Delivered
<1>5. Over'
  BY <1>2, <1>3 DEF Over
<1> QED
  BY <1>3, <1>4, <1>5 DEF ReadInv

LEMMA StreamEnds ==
    ASSUME SentType, NEW h, Marks(h), P!TypeOK, ReadInv(h), phase = "live",
           UNCHANGED <<sent, out, srcOpen, srcPhase>>,
           R!EndOfStream(TRUE), got' = Append(got, Eos)
    PROVE  ReadInv(h)'
<1>1. /\ pc = "end" /\ Len(parents) = 1 /\ parents' = <<>> /\ phase' = "ended"
      /\ pc' = "check" /\ UNCHANGED <<api, ret, forgiving, pos>>
  BY DEF R!EndOfStream
<1>2. /\ Underway(h) /\ api = "read_all" /\ ret # "again" /\ Delivered
      /\ Len(got) \in Nat /\ Len(sent) \in Nat
  BY <1>1, LenProperties DEF ReadInv, Delivered, SentType
<1>3. AtMark(h)
  BY <1>1, <1>2 DEF Underway, PastMarks
<1>4. Last(parents).armored
  BY <1>1, <1>3 DEF AtMark, Follows, RootOf, Last
<1>5. Len(got) < Len(sent) /\ sent[Len(got) + 1] = Eos
  BY <1>1, <1>3, <1>4 DEF AtMark
<1>6. Len(got) + 1 \in 1..Len(sent)
  BY <1>2, <1>5
<1>7. Len(got) + 1 = Len(sent) /\ srcPhase = "ended"
  BY <1>5, <1>6 DEF Marks
<1>8. Eos \in EventType
  BY DEF Eos, EventType
<1>9. Delivered' /\ Len(got') = Len(got) + 1
  BY <1>2, <1>5, <1>8, DeliveredMore
<1>10. Over'
  BY <1>1, <1>7, <1>9 DEF Over
<1>11. pos' <= Len(out')
  BY <1>1 DEF ReadInv
<1> QED
  BY <1>1, <1>2, <1>9, <1>10, <1>11 DEF ReadInv

(* Between two events nothing but the place in the code changes.           *)
LEMMA ReaderLoops ==
    ASSUME SentType, NEW h, Marks(h), P!TypeOK, ReadInv(h),
           UNCHANGED <<sent, out, srcOpen, srcPhase, got>>,
           R!CheckFull \/ R!CheckDone \/ R!Return
    PROVE  ReadInv(h)'
<1>1. UNCHANGED <<parents, forgiving, pos, phase>>
  BY DEF R!CheckFull, R!CheckDone, R!Return, R!historyVars
<1>2. Delivered' /\ pos' <= Len(out') /\ ret # "again" /\ pc # "idle" /\ api = "read_all"
  BY <1>1 DEF ReadInv, Delivered, R!CheckFull, R!CheckDone, R!Return
<1>3. ret' # "again" /\ (pc' = "idle" \/ api' = "read_all") /\ (pc' = "idle" => parents = <<>>)
  BY <1>2 DEF R!CheckFull, R!CheckDone, R!Return, R!CallOver, R!LoopOver
<1>4. CASE phase # "live"
  BY <1>1, <1>2, <1>3, <1>4 DEF ReadInv, Over
<1>5. CASE phase = "live"
  <2>1. Underway(h) /\ parents \in Seq(P!FrameType)
    BY <1>5 DEF ReadInv, P!TypeOK
  <2>2. Len(got) \in Nat /\ Len(sent) \in Nat
    BY LenProperties DEF ReadInv, Delivered, SentType
  <2>3. parents # <<>>
    BY <2>1 DEF Underway
  <2>4. CASE R!CheckFull
    <3>1. pc = "check" /\ pc' = "end" /\ R!Full(Last(parents))
      BY <2>4, SameOperators DEF R!CheckFull, R!ParentFull
    <3>2. ~Last(parents).armored
      BY <3>1 DEF R!Full
    <3>3. AtMark(h) => AtMark(h)'
      BY <1>1, <3>1, <3>2 DEF AtMark
    <3>4. PastMarks => PastMarks'
      <4> SUFFICES ASSUME PastMarks PROVE PastMarks'
        OBVIOUS
      <4>1. parents[1].armored
        BY DEF PastMarks
      <4>2. Len(parents) \in Nat \ {0} /\ Last(parents) = parents[Len(parents)]
        BY <2>1, <2>3, FrontFacts
      <4>3. Len(parents) # 1
        <5> SUFFICES ASSUME Len(parents) = 1 PROVE FALSE
          OBVIOUS
        <5>1. Last(parents) = parents[1]
          BY <4>2
        <5>2. Last(parents).armored
          BY <4>1, <5>1
        <5> QED
          BY <3>2, <5>2
      <4>4. Len(parents) > 1
        <5>1. \A n \in Nat \ {0} : n # 1 => n > 1
          OBVIOUS
        <5> QED
          BY <4>2, <4>3, <5>1
      <4> QED
        BY <1>1, <4>4 DEF PastMarks
    <3> QED
      BY <1>1, <1>2, <1>3, <1>5, <2>1, <3>1, <3>3, <3>4 DEF Underway, ReadInv
  <2>5. CASE R!CheckDone \/ R!Return
    <3>1. /\ pc # "end" /\ pc' \in {"step", "return"} /\ ~R!Full(Last(parents))
      <4>1. CASE R!CheckDone
        BY <1>2, <2>3, <4>1, SameOperators DEF R!CheckDone, R!ParentFull
      <4>2. CASE R!Return
        BY <1>2, <2>1, <2>3, <4>2 DEF R!Return, R!LoopOver, Underway
      <4> QED
        BY <2>5, <4>1, <4>2
    <3>2. AtMark(h) => AtMark(h)'
      BY <1>1, <3>1 DEF AtMark
    <3>3. PastMarks => PastMarks'
      BY <1>1, <3>1 DEF PastMarks
    <3> QED
      BY <1>1, <1>2, <1>3, <1>5, <2>1, <3>1, <3>2, <3>3 DEF Underway, ReadInv
  <2> QED
    BY <2>4, <2>5
<1> QED
  BY <1>4, <1>5

LEMMA ReadBackReads ==
    ASSUME SentType, NEW h, Marks(h), P!ReaderInv, ReadInv(h), ReadBack
    PROVE  ReadInv(h)'
<1>1. UNCHANGED <<sent, out, srcOpen, srcPhase>>
  BY DEF ReadBack, source_vars, writer_vars
<1>2. P!TypeOK
  BY DEF P!ReaderInv
<1>3. ReadToken \/ ReadFooter \/ R!ReadEof \/ R!FooterEof \/ R!EndOfStream(TRUE)
        => parents # <<>>
  <2>1. ReadToken \/ R!ReadEof => parents # <<>>
    BY DEF ReadToken, R!RejectToken, R!ReadEoc, R!PushNode, R!StartContainer,
           R!ReadEof, R!Reading, R!Stepping
  <2>2. ReadFooter \/ R!FooterEof \/ R!EndOfStream(TRUE) =>
           Len(parents) > 1 \/ Len(parents) = 1
    BY DEF ReadFooter, R!FooterEof, R!EndOfStream, R!Ending
  <2>3. Len(parents) > 1 \/ Len(parents) = 1 => parents # <<>>
    OBVIOUS
  <2> QED
    BY <2>1, <2>2, <2>3
<1>4. CASE (R!CheckFull \/ R!CheckDone \/ R!Return) /\ GotNone
  BY <1>1, <1>2, <1>4, ReaderLoops DEF GotNone
<1>5. CASE ~((R!CheckFull \/ R!CheckDone \/ R!Return) /\ GotNone)
  <2>1. phase = "live"
    <3>1. ReadToken \/ ReadFooter \/ R!ReadEof \/ R!FooterEof \/ R!EndOfStream(TRUE)
      BY <1>5 DEF ReadBack, ReadOther
    <3>2. parents # <<>>
      BY <1>3, <3>1
    <3> QED
      BY <3>2 DEF ReadInv, Over
  <2>2. CASE ReadToken
    BY <1>1, <1>2, <2>1, <2>2, TokenRead
  <2>3. CASE ReadFooter
    BY <1>1, <2>1, <2>3, FooterRead
  <2>4. CASE AtEnd /\ R!ReadEof /\ GotNone
    <3>1. /\ pc = "step" /\ R!Abort(parents, source) /\ AtEnd
          /\ UNCHANGED <<got, pos>>
      BY <2>4 DEF R!ReadEof, R!Stepping, GotNone
    <3>2. \/ pc = "step"
          \/ pc = "end" /\ Len(parents) > 1 /\ R!IsHashed(Last(parents))
      BY <3>1
    <3> QED
      BY <1>1, <1>2, <2>1, <3>1, <3>2, EofCuts
  <2>5. CASE AtEnd /\ R!FooterEof /\ GotNone
    <3>1. /\ pc = "end" /\ Len(parents) > 1 /\ R!IsHashed(Last(parents)) /\ AtEnd
          /\ R!Abort(R!Front(parents), R!SourceBelow(R!CurrParent))
          /\ UNCHANGED <<got, pos>>
      BY <2>5, SameOperators DEF R!FooterEof, R!Ending, GotNone
    <3> QED
      BY <1>1, <1>2, <2>1, <3>1, EofCuts
  <2>6. CASE R!EndOfStream(TRUE) /\ Got(Eos)
    BY <1>1, <1>2, <2>1, <2>6, StreamEnds DEF Got
  <2> QED
    BY <1>5, <2>2, <2>3, <2>4, <2>5, <2>6 DEF ReadBack, ReadOther
<1> QED
  BY <1>4, <1>5

-----------------------------------------------------------------------------
(* The reader is one of those that FromBitstream describes.                *)

LEMMA TokenType ==
    ASSUME out \in Seq(UnitType), pos \in Nat, pos <= Len(out), ~AtEnd
    PROVE  Token \in P!Tokens
<1> DEFINE u == out[pos + 1]
           t == Token
<1>1. u \in UnitType
  <2>1. pos + 1 \in 1..Len(out)
    BY LenProperties DEF AtEnd
  <2> QED
    BY <2>1
<1>2. CASE u.kind = "container"
  <2>1. /\ u.size \in Counts /\ u.armored \in BOOLEAN /\ u.hash \in Hashes
    BY <1>1, <1>2 DEF UnitType
  <2>2. t = [kind |-> "container", size |-> u.size, armored |-> u.armored,
             hash |-> IF u.hash = HT_NONE THEN R!NotHashed ELSE u.hash,
             extra |-> FALSE]
    BY <1>2 DEF Token
  <2>3. u.size \in {n \in Counts : n >= 0} \cup {P!NoSize}
    <3>1. \A n \in Counts : n = -1 \/ n >= 0
      BY RoundtripAssumption, ReaderAssumption
    <3> QED
      BY <2>1, <3>1 DEF P!NoSize
  <2>4. (IF u.hash = HT_NONE THEN R!NotHashed ELSE u.hash) \in HashTypes \cup {P!NotHashed}
    BY <2>1, SameOperators DEF Hashes
  <2> HIDE DEF u, t
  <2>5. t \in P!Headers
    BY <2>1, <2>2, <2>3, <2>4 DEF P!Headers
  <2> QED
    BY <2>5 DEF P!Tokens, t
<1>3. CASE u.kind = "digest"
  <2>1. t = [kind |-> "broken"]
    BY <1>3 DEF Token
  <2> HIDE DEF t
  <2>2. t \in P!Tokens
    BY <2>1 DEF P!Tokens
  <2> QED
    BY <2>2 DEF t
<1>4. CASE u.kind # "container" /\ u.kind # "digest"
  <2>1. t = u
    BY <1>4 DEF Token
  <2>2. u \in [kind : {"leaf", "eoc"}]
    BY <1>1, <1>4 DEF UnitType
  <2> HIDE DEF u, t
  <2>3. t \in P!Tokens
    BY <2>1, <2>2 DEF P!Tokens
  <2> QED
    BY <2>3 DEF t
<1> QED
  BY <1>2, <1>3, <1>4

LEMMA FooterType == Footer \in {"none", "match", "mismatch", "skipped", "bad"}
BY DEF Footer

LEMMA ReaderReads ==
    ASSUME P!ReaderInv, out \in Seq(UnitType), pos <= Len(out), ReadBack
    PROVE  P!ReaderInv'
<1>1. pos \in Nat /\ P!TypeOK
  BY DEF P!ReaderInv, P!TypeOK
<1>2. P!Read
  <2>1. CASE ReadToken
    <3>1. Token \in P!Tokens
      BY <1>1, <2>1, TokenType DEF ReadToken
    <3>2. \/ R!RejectToken(Token) \/ R!ReadEoc(Token)
          \/ R!PushNode(Token, TRUE) \/ R!StartContainer(Token, TRUE)
      BY <2>1 DEF ReadToken
    <3>3. \/ P!RejectToken(Token) \/ P!ReadEoc(Token)
          \/ P!PushNode(Token, TRUE) \/ P!StartContainer(Token, TRUE)
      BY <3>2, SameSteps
    <3> QED
      BY <3>1, <3>3 DEF P!Read
  <2>2. CASE ReadFooter
    <3>1. R!RejectFooter(Footer) \/ R!EndContainer(Footer, TRUE)
      BY <2>2 DEF ReadFooter
    <3>2. P!RejectFooter(Footer) \/ P!EndContainer(Footer, TRUE)
      BY <3>1, SameSteps
    <3> QED
      BY <3>2, FooterType DEF P!Read
  <2>3. CASE ReadOther
    <3>1. \/ R!ReadEof \/ R!FooterEof \/ R!EndOfStream(TRUE)
          \/ R!CheckFull \/ R!CheckDone \/ R!Return
      BY <2>3 DEF ReadOther
    <3>2. \/ P!ReadEof \/ P!FooterEof \/ P!EndOfStream(TRUE)
          \/ P!CheckFull \/ P!CheckDone \/ P!Return
      BY <3>1, SameSteps
    <3> QED
      BY <3>2 DEF P!Read
  <2> QED
    BY <2>1, <2>2, <2>3 DEF ReadBack
<1>3. P!TypeOK'
  BY <1>1, <1>2, Known, P!ReadType
<1>4. P!Good(parents', source', pos') /\ P!NoNullAccess'
  BY <1>2, Known, P!ReadReaderInv
<1> QED
  BY <1>3, <1>4 DEF P!ReaderInv, P!Good, P!Chains, P!SourceMatchesStack, P!HashCoversBody

LEMMA ReaderBegins ==
    ASSUME P!ReaderInv, Begin
    PROVE  P!ReaderInv'
<1>1. /\ UNCHANGED <<parents, source, held, wait, ret, pos, open, phase, footer, local>>
      /\ forgiving' = {"UnknownHashFunction"} /\ forgiven' = forgiving'
      /\ api' = "read_all" /\ pc' = "step"
  BY DEF Begin
<1>2. P!TypeOK'
  BY <1>1 DEF P!ReaderInv, P!TypeOK, P!Flags
<1> QED
  BY <1>1, <1>2 DEF P!ReaderInv, P!SourceMatchesStack, P!HashCoversBody, P!NoNullAccess

LEMMA ReaderRests ==
    ASSUME P!ReaderInv, UNCHANGED reader_vars
    PROVE  P!ReaderInv'
<1>1. UNCHANGED <<parents, source, held, forgiving, pc, api, wait, ret, pos,
                  open, phase, footer, forgiven, local>>
  BY DEF reader_vars
<1>2. P!TypeOK'
  BY <1>1 DEF P!ReaderInv, P!TypeOK
<1> QED
  BY <1>1, <1>2 DEF P!ReaderInv, P!SourceMatchesStack, P!HashCoversBody, P!NoNullAccess

-----------------------------------------------------------------------------
(* The inductive invariant: the source and the writer leave marks, and the *)
(* reader, once it has begun, goes from one to the next.                   *)
ReadBackInv ==
    /\ WriterInv /\ P!ReaderInv /\ SentType
    /\ reading \in BOOLEAN
    /\ ~reading => Unread
    /\ \E h : Marks(h) /\ (reading => ReadInv(h))

LEMMA ReadBackInit ==
    ASSUME Init
    PROVE  ReadBackInv
<1>1. WriterInv
  BY WriterInit DEF Init
<1>2. History
  BY InitHistory
<1>3. R!Init /\ reading = FALSE /\ got = <<>>
  BY DEF Init
<1>4. P!Init
  BY <1>3, SameOperators DEF R!Init, P!Init, R!NoFooter, P!NoFooter, R!NoLocal, P!NoLocal
<1>5. P!ReaderInv
  BY <1>4, Known, P!InitReaderInv
<1>6. Unread
  BY <1>3 DEF R!Init, Unread
<1> QED
  BY <1>1, <1>2, <1>3, <1>5, <1>6 DEF ReadBackInv, History

LEMMA ReadBackNext ==
    ASSUME ReadBackInv, [Next]_vars
    PROVE  ReadBackInv'
<1>1. /\ WriterInv /\ P!ReaderInv /\ SentType /\ reading \in BOOLEAN
      /\ ~reading => Unread
  BY DEF ReadBackInv
<1>2. PICK h : Marks(h) /\ (reading => ReadInv(h))
  BY DEF ReadBackInv
<1>3. WriterInv'
  BY <1>1, WriterNext
<1>4. CASE ~reading /\ (Write \/ Settings)
  <2>1. UNCHANGED reader_vars /\ UNCHANGED <<reading, got>>
    BY <1>4 DEF Write, Settings, SendStart, SendStartUnsupported, SendNode, SendEnd,
                SendEndWithoutDigest, SendEos, SendFails, Send
  <2>2. P!ReaderInv'
    BY <1>1, <2>1, ReaderRests
  <2>3. Unread'
    BY <1>1, <1>4, <2>1 DEF Unread, reader_vars
  <2>4. History'
    BY <1>1, <1>2, <1>4, WriteHistory DEF History
  <2> QED
    BY <1>3, <1>4, <2>1, <2>2, <2>3, <2>4 DEF ReadBackInv, History
<1>5. CASE Begin
  <2>1. /\ ~reading /\ reading' = TRUE
        /\ UNCHANGED <<sent, out, srcOpen, srcPhase, state, stack>>
    BY <1>5 DEF Begin, source_vars, writer_vars
  <2>2. SentType' /\ Marks(h)'
    BY <1>1, <1>2, <2>1, MarksKept
  <2>3. ReadInv(h)'
    BY <1>1, <1>2, <1>5, <2>1, BeginReads
  <2>4. P!ReaderInv'
    BY <1>1, <1>5, ReaderBegins
  <2> QED
    BY <1>3, <2>1, <2>2, <2>3, <2>4 DEF ReadBackInv
<1>6. CASE ReadBack
  <2>1. /\ reading /\ reading' = reading
        /\ UNCHANGED <<sent, out, srcOpen, srcPhase, state, stack>>
    BY <1>6 DEF ReadBack, source_vars, writer_vars
  <2>2. SentType' /\ Marks(h)'
    BY <1>1, <1>2, <2>1, MarksKept
  <2>3. ReadInv(h)'
    BY <1>1, <1>2, <1>6, <2>1, ReadBackReads
  <2>4. P!ReaderInv'
    <3>1. out \in Seq(UnitType) /\ pos <= Len(out)
      BY <1>1, <1>2, <2>1 DEF SentType, ReadInv
    <3> QED
      BY <1>1, <1>6, <3>1, ReaderReads
  <2> QED
    BY <1>1, <1>3, <2>1, <2>2, <2>3, <2>4 DEF ReadBackInv
<1>7. CASE UNCHANGED vars
  <2>1. /\ UNCHANGED reader_vars /\ UNCHANGED <<reading, got>>
        /\ UNCHANGED <<sent, out, srcOpen, srcPhase, state, stack>>
    BY <1>7 DEF vars, source_vars, writer_vars
  <2>2. SentType' /\ Marks(h)'
    BY <1>1, <1>2, <2>1, MarksKept
  <2>3. P!ReaderInv'
    BY <1>1, <2>1, ReaderRests
  <2>4. reading => ReadInv(h)'
    BY <1>2, <2>1 DEF ReadInv, Delivered, Underway, Over, AtMark, PastMarks, reader_vars
  <2>5. ~reading => Unread'
    BY <1>1, <2>1 DEF Unread, reader_vars
  <2> QED
    BY <1>1, <1>3, <2>1, <2>2, <2>3, <2>4, <2>5 DEF ReadBackInv
<1>8. Write => ~reading
  BY DEF Write
<1>9. Settings => ~reading
  BY DEF Settings
<1> QED
  BY <1>4, <1>5, <1>6, <1>7, <1>8, <1>9 DEF Next

LEMMA ReadBackInvariant == Spec => []ReadBackInv
<1>1. Init => ReadBackInv
  BY ReadBackInit
<1>2. ReadBackInv /\ [Next]_vars => ReadBackInv'
  BY ReadBackNext
<1> QED
  BY <1>1, <1>2, PTL DEF Spec

-----------------------------------------------------------------------------
(* What has been delivered, in a state of the invariant.                   *)

LEMMA InPrefix ==
    ASSUME SentType, Delivered
    PROVE  IsPrefix(got, Completed)
<1> DEFINE Ends == [i \in DOMAIN srcOpen |-> End]
           k == Len(got)
           n == Len(sent)
           l == Len(srcOpen)
<1>1. /\ k \in Nat /\ n \in Nat /\ l \in Nat /\ k <= n + l
      /\ DOMAIN srcOpen = 1..l
      /\ got \in Seq(EventType) /\ sent \in Seq(EventType)
  BY LenProperties DEF SentType, Delivered
<1>2. End \in EventType
  BY DEF End, EventType
<1>3. Ends \in Seq(EventType) /\ Len(Ends) = l /\ \A i \in 1..l : Ends[i] = End
  <2>1. Ends = [i \in 1..l |-> End]
    BY <1>1
  <2> HIDE DEF Ends, l
  <2>2. Ends \in [1..l -> EventType]
    BY <1>2, <2>1
  <2>3. Ends \in Seq(EventType)
    BY <1>1, <2>2
  <2>4. Len(Ends) = l
    BY <1>1, <2>1, <2>3, LenProperties
  <2>5. \A i \in 1..l : Ends[i] = End
    BY <2>1
  <2> QED
    BY <2>3, <2>4, <2>5
<1> HIDE DEF Ends
<1>4. /\ sent \o Ends \in Seq(EventType) /\ Len(sent \o Ends) = n + l
      /\ \A i \in 1..(n + l) :
            (sent \o Ends)[i] = IF i <= n THEN sent[i] ELSE Ends[i - n]
  <2>1. /\ sent \o Ends \in Seq(EventType)
        /\ Len(sent \o Ends) = Len(sent) + Len(Ends)
        /\ \A i \in 1..(Len(sent) + Len(Ends)) :
              (sent \o Ends)[i] =
                 IF i <= Len(sent) THEN sent[i] ELSE Ends[i - Len(sent)]
    BY <1>1, <1>3, ConcatProperties
  <2> QED
    BY <1>3, <2>1
<1>5. \A i \in 1..k : got[i] = IF i <= n THEN sent[i] ELSE End
  BY DEF Delivered
<1> DEFINE t == sent \o Ends
<1>6. Completed = t
  BY DEF Completed, Ends
<1> HIDE DEF t
<1>7. /\ t \in Seq(EventType) /\ Len(t) = n + l
      /\ \A i \in 1..(n + l) : t[i] = IF i <= n THEN sent[i] ELSE Ends[i - n]
  BY <1>4 DEF t
<1> HIDE DEF k, n, l
<1>8. ASSUME NEW i \in 1..k
      PROVE  got[i] = t[i]
  <2>1. i \in 1..(n + l) /\ (i <= n \/ i - n \in 1..l)
    BY <1>1
  <2>2. t[i] = IF i <= n THEN sent[i] ELSE Ends[i - n]
    BY <1>7, <2>1
  <2>3. ~(i <= n) => Ends[i - n] = End
    BY <1>3, <2>1
  <2> QED
    BY <1>5, <2>2, <2>3
<1>9. SubSeq(got, 1, k) = SubSeq(t, 1, k)
  <2>1. /\ \A i \in 1..k : got[i] \in EventType
        /\ \A i \in 1..k : t[i] \in EventType
    <3>1. Len(got) = k /\ k <= Len(t) /\ Len(t) \in Nat
      BY <1>1, <1>7 DEF k
    <3> QED
      BY <1>1, <1>7, <3>1, ElementOfSeq
  <2> DEFINE a == SubSeq(got, 1, k)
             b == SubSeq(t, 1, k)
  <2>2. /\ a \in Seq(EventType) /\ Len(a) = k
        /\ \A i \in 1..k : a[i] = got[i]
    BY <1>1, <2>1, SubSeqProperties
  <2>3. /\ b \in Seq(EventType) /\ Len(b) = k
        /\ \A i \in 1..k : b[i] = t[i]
    BY <1>1, <2>1, SubSeqProperties
  <2> HIDE DEF a, b
  <2>4. \A i \in 1..Len(a) : a[i] = b[i]
    BY <1>8, <2>2, <2>3
  <2>5. a = b
    BY <2>2, <2>3, <2>4, SeqEqual
  <2> QED
    BY <2>5 DEF a, b
<1>10. Len(got) = k /\ k <= Len(t)
  BY <1>1, <1>7 DEF k
<1> QED
  BY <1>6, <1>9, <1>10 DEF IsPrefix

LEMMA DeliveredPrefix ==
    ASSUME ReadBackInv
    PROVE  ReadsWhatWasSent
<1>1. SentType /\ reading \in BOOLEAN
  BY DEF ReadBackInv
<1>2. CASE reading
  <2>1. Delivered
    BY <1>2 DEF ReadBackInv, ReadInv
  <2> QED
    BY <1>1, <2>1, InPrefix DEF ReadsWhatWasSent
<1>3. CASE ~reading
  <2>1. got = <<>>
    BY <1>3 DEF ReadBackInv, Unread
  <2>2. Delivered
    <3>1. got \in Seq(EventType) /\ Len(got) = 0 /\ 1..0 = {}
      BY <2>1, EmptySeq
    <3>2. Len(sent) \in Nat /\ Len(srcOpen) \in Nat
      BY <1>1, LenProperties DEF SentType
    <3> QED
      BY <3>1, <3>2 DEF Delivered
  <2> QED
    BY <1>1, <2>2, InPrefix DEF ReadsWhatWasSent
<1> QED
  BY <1>1, <1>2, <1>3

(* What the end of the reading says of the source.                         *)
LEMMA EndedOnlyIfSent ==
    ASSUME ReadBackInv
    PROVE  InterruptedIsNoticed
<1>1. CASE reading
  <2>1. phase = "ended" => Over
    BY <1>1 DEF ReadBackInv, ReadInv
  <2> QED
    BY <2>1 DEF InterruptedIsNoticed, Over
<1>2. CASE ~reading
  BY <1>2 DEF ReadBackInv, Unread, InterruptedIsNoticed
<1> QED
  BY <1>1, <1>2

LEMMA EndedWithAll ==
    ASSUME ReadBackInv, srcPhase = "ended"
    PROVE  phase # "cut" /\ (phase = "ended" => got = sent)
<1>1. CASE reading
  <2>1. Delivered /\ (phase # "live" => Over)
    BY <1>1 DEF ReadBackInv, ReadInv
  <2>2. phase # "cut"
    BY <2>1 DEF Over
  <2>3. ASSUME phase = "ended"
        PROVE  got = sent
    <3>1. got \in Seq(EventType) /\ sent \in Seq(EventType)
      BY <2>1 DEF Delivered, ReadBackInv, SentType
    <3>2. Len(got) = Len(sent) /\ Len(sent) \in Nat
      BY <2>1, <2>3, <3>1, LenProperties DEF Over
    <3>3. \A i \in 1..Len(got) : got[i] = sent[i]
      BY <2>1, <3>2 DEF Delivered
    <3>4. got = [i \in 1..Len(got) |-> got[i]] /\ sent = [i \in 1..Len(sent) |-> sent[i]]
      BY <3>1, LenProperties
    <3> QED
      BY <3>2, <3>3, <3>4
  <2> QED
    BY <2>2, <2>3
<1>2. CASE ~reading
  BY <1>2 DEF ReadBackInv, Unread
<1> QED
  BY <1>1, <1>2

-----------------------------------------------------------------------------
(* Whatever stops the source or the writer, the reader delivers the events *)
(* that ToBitstream was sent, in their order and with the announced        *)
(* counts, and no other event but the ends of the containers that are open *)
(* (read_next, proc_container_header and end_of_container_body against     *)
(* start_container, push_node, end_container and end_of_stream).           *)
THEOREM ReadsWhatWasSentAlways == Spec => []ReadsWhatWasSent
<1>1. ReadBackInv => ReadsWhatWasSent
  BY DeliveredPrefix
<1> QED
  BY <1>1, ReadBackInvariant, PTL

(* The reader reports the end of the stream only if the source has sent    *)
(* it: what an interrupted writer leaves is never taken for complete.      *)
THEOREM InterruptedAlwaysNoticed == Spec => []InterruptedIsNoticed
<1>1. ReadBackInv => InterruptedIsNoticed
  BY EndedOnlyIfSent
<1> QED
  BY <1>1, ReadBackInvariant, PTL

(* A stream that ToBitstream has written to its end is never refused by    *)
(* FromBitstream, whatever hash functions the reader lacks, and once it    *)
(* has been read to its end, every event has been delivered.               *)
THEOREM CompleteAlwaysReadBack == Spec => []CompleteIsReadBack
<1>1. ReadBackInv => CompleteIsReadBack
  BY EndedWithAll DEF CompleteIsReadBack
<1> QED
  BY <1>1, ReadBackInvariant, PTL
=============================================================================
