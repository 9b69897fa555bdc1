-------------------------- MODULE EventPipelineProofs -------------------------
(***************************************************************************)
(* Proofs about EventPipeline, for every size of the ring buffer, of a     *)
(* batch and of a tick, and any number of marked events and of crashes:    *)
(* the shape of the state with its limits, and the two properties of the   *)
(* way an event takes, InOrderOnce and Accounted.                          *)
(*                                                                         *)
(* Neither is inductive. What is on its way is in order because pending is *)
(* in order, the buffer is in order, and everything pending is older than  *)
(* everything in the buffer (OrderInv); and nothing is left out without    *)
(* account because only events of the agent itself are left out and they   *)
(* carry no mark (OthersInv).                                              *)
(***************************************************************************)
EXTENDS EventPipeline, SequenceTheorems, TLAPS

\* A batch is full only while it is posted, and nothing is pending at the top
\* of the loop.
BatchInv ==
  /\ pc = "drain" => Len(pending) < Batch
  /\ pc \in {"top", "asleep"} => pending = <<>>

TInv == TypeOK /\ BatchInv

Before(older, younger) == \A m \in older, n \in younger : m < n

InOrder(items) ==
  \A i, j \in DOMAIN items :
    j < i /\ items[i].mark > 0 => items[j].mark < items[i].mark

OrderInv ==
  /\ InOrder(pending)
  /\ InOrder(ring)
  /\ Before(MarksOf(pending), MarksOf(ring))
  /\ Before(delivered, MarksOf(pending))
  /\ Before(delivered, MarksOf(ring))

\* Only an event of another process carries a mark.
OthersOnly(items) ==
  \A i \in DOMAIN items : items[i].mark > 0 => items[i].class = "other"

OthersInv == OthersOnly(ring)

AccountInv ==
  /\ delivered \cup MarksOf(pending) \cup MarksOf(ring) \cup lost = 1 .. marked
  /\ (delivered \cup MarksOf(pending) \cup MarksOf(ring)) \cap lost = {}

IInv == TInv /\ OthersInv /\ OrderInv /\ AccountInv

-------------------------------------------------------------------------------

\* The marks of a sequence of items are marks of EventPipeline.
LEMMA MarksAreMarks ==
  ASSUME NEW s \in Seq(Items)
  PROVE  MarksOf(s) \subseteq 1 .. MaxMark
<1>1. \A i \in DOMAIN s : s[i] \in Items
  BY ElementOfSeq, LenProperties
<1>2. \A e \in Items : e.mark \in 0 .. MaxMark
  BY DEF Items
<1> QED
  BY <1>1, <1>2, EventPipelineAssumption DEF MarksOf

\* Appending an item adds its mark.
LEMMA MarksOfAppend ==
  ASSUME NEW s \in Seq(Items), NEW e \in Items
  PROVE  MarksOf(Append(s, e)) = MarksOf(s) \cup ({e.mark} \ {0})
<1>1. /\ DOMAIN Append(s, e) = 1 .. Len(s) + 1
      /\ \A i \in 1 .. Len(s) : Append(s, e)[i] = s[i]
      /\ Append(s, e)[Len(s) + 1] = e
  BY AppendProperties
<1>2. DOMAIN s = 1 .. Len(s) /\ Len(s) \in Nat
  BY LenProperties
<1>3. 1 .. Len(s) + 1 = (1 .. Len(s)) \cup {Len(s) + 1}
  BY <1>2
<1> QED
  BY <1>1, <1>2, <1>3 DEF MarksOf

\* A sequence that is not empty has the marks of its tail and that of its head.
LEMMA MarksOfTail ==
  ASSUME NEW s \in Seq(Items), s # <<>>
  PROVE  MarksOf(s) = MarksOf(Tail(s)) \cup ({Head(s).mark} \ {0})
<1>1. /\ DOMAIN Tail(s) = 1 .. Len(s) - 1
      /\ \A i \in 1 .. Len(s) - 1 : Tail(s)[i] = s[i + 1]
      /\ Head(s) = s[1]
  BY HeadTailProperties
<1>2. DOMAIN s = 1 .. Len(s) /\ Len(s) \in Nat /\ Len(s) >= 1
  BY LenProperties, EmptySeq
<1>3. \A i \in 1 .. Len(s) : i = 1 \/ (i - 1 \in 1 .. Len(s) - 1 /\ s[i] = Tail(s)[i - 1])
  BY <1>1, <1>2
<1>4. \A i \in 1 .. Len(s) - 1 : i + 1 \in 1 .. Len(s)
  BY <1>2
<1>5. s[1].mark = Head(s).mark /\ 1 \in DOMAIN s
  BY <1>1, <1>2
<1>6. ASSUME NEW i \in DOMAIN s, s[i].mark # 0
      PROVE  s[i].mark \in MarksOf(Tail(s)) \cup ({Head(s).mark} \ {0})
  <2>1. CASE i = 1
    BY <1>5, <1>6, <2>1
  <2>2. CASE i - 1 \in 1 .. Len(s) - 1 /\ s[i] = Tail(s)[i - 1]
    BY <1>1, <1>6, <2>2 DEF MarksOf
  <2> QED
    BY <1>2, <1>3, <2>1, <2>2
<1>7. MarksOf(Tail(s)) \cup ({Head(s).mark} \ {0}) \subseteq MarksOf(s)
  BY <1>1, <1>2, <1>4, <1>5 DEF MarksOf
<1> QED
  BY <1>6, <1>7 DEF MarksOf

\* Two sequences one after the other have the marks of both.
LEMMA MarksOfConcat ==
  ASSUME NEW s \in Seq(Items), NEW t \in Seq(Items)
  PROVE  MarksOf(s \o t) = MarksOf(s) \cup MarksOf(t)
<1>1. /\ DOMAIN (s \o t) = 1 .. Len(s) + Len(t)
      /\ \A i \in 1 .. Len(s) + Len(t) :
           (s \o t)[i] = IF i <= Len(s) THEN s[i] ELSE t[i - Len(s)]
  BY ConcatProperties, LenProperties
<1>2. /\ DOMAIN s = 1 .. Len(s) /\ Len(s) \in Nat
      /\ DOMAIN t = 1 .. Len(t) /\ Len(t) \in Nat
  BY LenProperties
<1>3. \A i \in DOMAIN (s \o t) :
        \/ i \in DOMAIN s /\ (s \o t)[i] = s[i]
        \/ i - Len(s) \in DOMAIN t /\ (s \o t)[i] = t[i - Len(s)]
  BY <1>1, <1>2
<1>4. \A i \in DOMAIN s : i \in DOMAIN (s \o t) /\ (s \o t)[i] = s[i]
  BY <1>1, <1>2
<1>5. \A i \in DOMAIN t : i + Len(s) \in DOMAIN (s \o t) /\ (s \o t)[i + Len(s)] = t[i]
  BY <1>1, <1>2
<1>6. MarksOf(s \o t) \subseteq MarksOf(s) \cup MarksOf(t)
  BY <1>3 DEF MarksOf
<1>7. MarksOf(s) \cup MarksOf(t) \subseteq MarksOf(s \o t)
  BY <1>4, <1>5 DEF MarksOf
<1> QED
  BY <1>6, <1>7

\* A mark is that of an item of the sequence.
LEMMA MarkAt ==
  ASSUME NEW s \in Seq(Items), NEW i \in DOMAIN s
  PROVE  /\ s[i] \in Items
         /\ s[i].mark \in 0 .. MaxMark
         /\ s[i].mark > 0 => s[i].mark \in MarksOf(s)
<1>1. s[i] \in Items
  BY ElementOfSeq, LenProperties
<1>2. s[i].mark \in 0 .. MaxMark
  BY <1>1 DEF Items
<1> QED
  BY <1>1, <1>2, EventPipelineAssumption DEF MarksOf

\* An item without a mark, or one with a mark above all others, keeps a
\* sequence in order.
LEMMA InOrderAppend ==
  ASSUME NEW s \in Seq(Items), NEW e \in Items, InOrder(s),
         e.mark > 0 => \A m \in MarksOf(s) : m < e.mark
  PROVE  InOrder(Append(s, e))
<1>1. /\ DOMAIN Append(s, e) = 1 .. Len(s) + 1
      /\ \A i \in 1 .. Len(s) : Append(s, e)[i] = s[i]
      /\ Append(s, e)[Len(s) + 1] = e
  BY AppendProperties
<1>2. DOMAIN s = 1 .. Len(s) /\ Len(s) \in Nat
  BY LenProperties
<1> SUFFICES ASSUME NEW i \in 1 .. Len(s) + 1, NEW j \in 1 .. Len(s) + 1,
                    j < i, Append(s, e)[i].mark > 0
             PROVE  Append(s, e)[j].mark < Append(s, e)[i].mark
  BY <1>1 DEF InOrder
<1>3. j \in 1 .. Len(s) /\ Append(s, e)[j] = s[j]
  BY <1>1, <1>2
<1>4. CASE i \in 1 .. Len(s)
  <2>1. Append(s, e)[i] = s[i]
    BY <1>1, <1>4
  <2>2. s[j].mark < s[i].mark
    BY <1>2, <1>3, <1>4, <2>1 DEF InOrder
  <2> QED
    BY <1>3, <2>1, <2>2
<1>5. CASE i = Len(s) + 1
  <2>1. Append(s, e)[i] = e /\ e.mark > 0
    BY <1>1, <1>5
  <2>2. /\ s[j].mark \in 0 .. MaxMark
        /\ s[j].mark > 0 => s[j].mark \in MarksOf(s)
    BY <1>2, <1>3, MarkAt
  <2>3. CASE s[j].mark > 0
    BY <1>3, <2>1, <2>2, <2>3
  <2>4. CASE s[j].mark = 0
    BY <1>3, <2>1, <2>4
  <2> QED
    BY <1>3, <2>2, <2>3, <2>4, EventPipelineAssumption
<1> QED
  BY <1>2, <1>4, <1>5

\* The tail of a sequence in order is in order, and all its marks are above
\* that of the head.
LEMMA InOrderTail ==
  ASSUME NEW s \in Seq(Items), s # <<>>, InOrder(s)
  PROVE  /\ InOrder(Tail(s))
         /\ \A m \in MarksOf(Tail(s)) : Head(s).mark < m
<1>1. /\ DOMAIN Tail(s) = 1 .. Len(s) - 1
      /\ \A i \in 1 .. Len(s) - 1 : Tail(s)[i] = s[i + 1]
      /\ Head(s) = s[1]
      /\ Tail(s) \in Seq(Items)
  BY HeadTailProperties, LenProperties
<1>2. DOMAIN s = 1 .. Len(s) /\ Len(s) \in Nat /\ Len(s) >= 1
  BY LenProperties, EmptySeq
<1>3. \A i \in 1 .. Len(s) - 1 : i + 1 \in DOMAIN s /\ 1 < i + 1
  BY <1>2
<1>4. InOrder(Tail(s))
  <2> SUFFICES ASSUME NEW i \in 1 .. Len(s) - 1, NEW j \in 1 .. Len(s) - 1,
                      j < i, s[i + 1].mark > 0
               PROVE  s[j + 1].mark < s[i + 1].mark
    BY <1>1 DEF InOrder
  <2>1. j + 1 < i + 1
    BY <1>2
  <2> QED
    BY <1>3, <2>1 DEF InOrder
<1>5. ASSUME NEW m \in MarksOf(Tail(s))
      PROVE  Head(s).mark < m
  <2>1. PICK i \in DOMAIN Tail(s) : m = Tail(s)[i].mark /\ m # 0
    BY DEF MarksOf
  <2>2. m > 0
    BY <1>1, <2>1, MarkAt, EventPipelineAssumption
  <2>3. m = s[i + 1].mark /\ i + 1 \in DOMAIN s /\ 1 \in DOMAIN s /\ 1 < i + 1
    BY <1>1, <1>2, <1>3, <2>1
  <2> QED
    BY <1>1, <2>2, <2>3 DEF InOrder
<1> QED
  BY <1>4, <1>5

\* An event that is another's, or without a mark, adds no marked event of the
\* agent; nor does taking the oldest away.
LEMMA OthersAppend ==
  ASSUME NEW s \in Seq(Items), NEW e \in Items, OthersOnly(s),
         e.mark > 0 => e.class = "other"
  PROVE  OthersOnly(Append(s, e))
<1>1. /\ DOMAIN Append(s, e) = 1 .. Len(s) + 1
      /\ \A i \in 1 .. Len(s) : Append(s, e)[i] = s[i]
      /\ Append(s, e)[Len(s) + 1] = e
  BY AppendProperties
<1>2. DOMAIN s = 1 .. Len(s) /\ Len(s) \in Nat
  BY LenProperties
<1>3. \A i \in 1 .. Len(s) + 1 : i \in 1 .. Len(s) \/ i = Len(s) + 1
  BY <1>2
<1> QED
  BY <1>1, <1>2, <1>3 DEF OthersOnly

LEMMA OthersTail ==
  ASSUME NEW s \in Seq(Items), s # <<>>, OthersOnly(s)
  PROVE  OthersOnly(Tail(s)) /\ (Head(s).mark > 0 => Head(s).class = "other")
<1>1. /\ DOMAIN Tail(s) = 1 .. Len(s) - 1
      /\ \A i \in 1 .. Len(s) - 1 : Tail(s)[i] = s[i + 1]
      /\ Head(s) = s[1]
  BY HeadTailProperties, LenProperties
<1>2. DOMAIN s = 1 .. Len(s) /\ Len(s) \in Nat /\ Len(s) >= 1
  BY LenProperties, EmptySeq
<1>3. 1 \in DOMAIN s /\ \A i \in 1 .. Len(s) - 1 : i + 1 \in DOMAIN s
  BY <1>2
<1> QED
  BY <1>1, <1>3 DEF OthersOnly

-------------------------------------------------------------------------------

\* What the buffer always is.
BufferOK(buffer) ==
  /\ buffer \in Seq(Items)
  /\ Len(buffer) <= RingSize
  /\ OthersOnly(buffer)
  /\ InOrder(buffer)

LEMMA OwnIsItem ==
  ASSUME NEW c \in Classes
  PROVE  Own(c) \in Items /\ Own(c).mark = 0
BY EventPipelineAssumption DEF Own, Items

\* An event of the agent itself leaves the marks in the buffer alone.
LEMMA OutputOwn ==
  ASSUME NEW b, BufferOK(b), NEW c \in Classes
  PROVE  BufferOK(Output(b, Own(c))) /\ MarksOf(Output(b, Own(c))) = MarksOf(b)
<1>1. b \in Seq(Items) /\ Own(c) \in Items /\ Own(c).mark = 0
  BY OwnIsItem DEF BufferOK
<1>2. CASE ~HasRoom(b)
  BY <1>2 DEF Output
<1>3. CASE HasRoom(b)
  <2>1. Output(b, Own(c)) = Append(b, Own(c))
    BY <1>3 DEF Output
  <2>2. Append(b, Own(c)) \in Seq(Items) /\ Len(Append(b, Own(c))) = Len(b) + 1
    BY <1>1, AppendProperties
  <2>3. Len(b) + 1 <= RingSize
    BY <1>1, <1>3, LenProperties, EventPipelineAssumption DEF HasRoom
  <2>4. OthersOnly(Append(b, Own(c)))
    BY <1>1, OthersAppend DEF BufferOK
  <2>5. InOrder(Append(b, Own(c)))
    BY <1>1, InOrderAppend DEF BufferOK
  <2>6. MarksOf(Append(b, Own(c))) = MarksOf(b)
    <3>1. MarksOf(Append(b, Own(c))) = MarksOf(b) \cup ({Own(c).mark} \ {0})
      BY <1>1, MarksOfAppend
    <3> QED
      BY <1>1, <3>1
  <2> QED
    BY <2>1, <2>2, <2>3, <2>4, <2>5, <2>6 DEF BufferOK
<1> QED
  BY <1>2, <1>3

LEMMA ConnectedKeeps ==
  ASSUME BufferOK(ring)
  PROVE  BufferOK(Connected) /\ MarksOf(Connected) = MarksOf(ring)
<1>1. (IF locked THEN "block" ELSE "allow") \in Classes
  BY DEF Classes
<1> QED
  BY <1>1, OutputOwn DEF Connected

\* The round of Take: an event of the agent is added if there is room, and the
\* oldest event leaves the buffer.
LEMMA TakeFromBuffer ==
  ASSUME NEW b, BufferOK(b), b # <<>>
  PROVE  /\ BufferOK(Tail(Output(b, Own("open"))))
         /\ Head(b) \in Items
         /\ MarksOf(b) = MarksOf(Tail(Output(b, Own("open")))) \cup ({Head(b).mark} \ {0})
         /\ \A m \in MarksOf(Tail(Output(b, Own("open")))) : Head(b).mark < m
<1> DEFINE o == Output(b, Own("open"))
<1>1. BufferOK(o) /\ MarksOf(o) = MarksOf(b)
  BY OutputOwn DEF Classes
<1>2. b \in Seq(Items)
  BY DEF BufferOK
<1>3. o # <<>> /\ Head(o) = Head(b)
  <2>1. CASE HasRoom(b)
    <3>1. o = Append(b, Own("open"))
      BY <2>1 DEF Output
    <3>2. Len(o) = Len(b) + 1 /\ Len(b) \in Nat
      BY <1>2, <3>1, AppendProperties, LenProperties, OwnIsItem DEF Classes
    <3>3. o # <<>>
      BY <3>2
    <3> QED
      BY <1>2, <3>1, <3>3, HeadTailAppend
  <2>2. CASE ~HasRoom(b)
    BY <2>2 DEF Output
  <2> QED
    BY <2>1, <2>2
<1>4. o \in Seq(Items) /\ OthersOnly(o) /\ InOrder(o) /\ Len(o) <= RingSize
  BY <1>1 DEF BufferOK
<1> HIDE DEF o
<1>5. Head(o) \in Items /\ Tail(o) \in Seq(Items) /\ Len(Tail(o)) = Len(o) - 1
  BY <1>3, <1>4, HeadTailProperties
<1>6. Len(Tail(o)) <= RingSize
  BY <1>4, <1>5, LenProperties, EventPipelineAssumption
<1>7. OthersOnly(Tail(o))
  BY <1>3, <1>4, OthersTail
<1>8. InOrder(Tail(o)) /\ \A m \in MarksOf(Tail(o)) : Head(o).mark < m
  BY <1>3, <1>4, InOrderTail
<1>9. MarksOf(o) = MarksOf(Tail(o)) \cup ({Head(o).mark} \ {0})
  BY <1>3, <1>4, MarksOfTail
<1>10. BufferOK(Tail(o))
  BY <1>5, <1>6, <1>7, <1>8 DEF BufferOK
<1> QED
  BY <1>1, <1>3, <1>5, <1>8, <1>9, <1>10 DEF o

\* An event that is left out has no mark.
LEMMA DropFromBuffer ==
  ASSUME NEW b, BufferOK(b), b # <<>>, DroppedRaw(Head(b))
  PROVE  BufferOK(Tail(b)) /\ MarksOf(Tail(b)) = MarksOf(b)
<1>1. b \in Seq(Items) /\ OthersOnly(b) /\ InOrder(b) /\ Len(b) <= RingSize
  BY DEF BufferOK
<1>2. Head(b) \in Items /\ Tail(b) \in Seq(Items) /\ Len(Tail(b)) = Len(b) - 1
  BY <1>1, HeadTailProperties
<1>3. OthersOnly(Tail(b)) /\ (Head(b).mark > 0 => Head(b).class = "other")
  BY <1>1, OthersTail
<1>4. Head(b).mark = 0
  <2>1. Head(b).mark \in Nat
    BY <1>2, EventPipelineAssumption DEF Items
  <2>2. Head(b).class # "other"
    BY DEF DroppedRaw
  <2> QED
    BY <1>3, <2>1, <2>2
<1>5. Len(Tail(b)) <= RingSize
  BY <1>1, <1>2, LenProperties, EventPipelineAssumption
<1>6. InOrder(Tail(b))
  BY <1>1, InOrderTail
<1>7. MarksOf(b) = MarksOf(Tail(b)) \cup ({Head(b).mark} \ {0})
  BY <1>1, MarksOfTail
<1>8. BufferOK(Tail(b))
  BY <1>2, <1>3, <1>5, <1>6 DEF BufferOK
<1> QED
  BY <1>4, <1>7, <1>8

-------------------------------------------------------------------------------

LEMMA BufferHolds == IInv => BufferOK(ring)
BY DEF IInv, TInv, TypeOK, OthersInv, OrderInv, BufferOK

\* What a step leaves alone when it touches only events of the agent itself.
Way == <<pending, delivered, lost, marked>>

WayInv == OthersInv /\ OrderInv /\ AccountInv

\* The marks of nothing.
LEMMA NoMarks ==
  /\ MarksOf(<<>>) = {} /\ InOrder(<<>>) /\ OthersOnly(<<>>)
  /\ <<>> \in Seq(Items) /\ Len(<<>>) = 0
<1>1. DOMAIN <<>> = {} /\ <<>> \in Seq(Items) /\ Len(<<>>) = 0
  OBVIOUS
<1> QED
  BY <1>1 DEF MarksOf, InOrder, OthersOnly

LEMMA InitIInv == Init => IInv
<1> SUFFICES ASSUME Init PROVE IInv
  OBVIOUS
<1>1. ring = <<>> /\ pending = <<>> /\ delivered = {} /\ lost = {} /\ marked = 0
  BY DEF Init
<1>2. <<>> \in Seq(Items) /\ Len(<<>>) = 0
  BY NoMarks
<1>3. MarksOf(<<>>) = {} /\ InOrder(<<>>) /\ OthersOnly(<<>>)
  BY NoMarks
<1>4. TInv
  <2>1. /\ 0 <= RingSize /\ 0 <= Batch
        /\ 0 \in 0 .. MaxTick /\ 0 \in 0 .. MaxMark /\ 0 \in 0 .. MaxCrashes
    BY EventPipelineAssumption
  <2>2. /\ ring \in Seq(Items) /\ Len(ring) <= RingSize
        /\ pending \in Seq(Items) /\ Len(pending) <= Batch
    BY <1>1, <1>2, <2>1
  <2>3. {consumed, due, locked, outside} \subseteq BOOLEAN
    BY DEF Init
  <2>4. pc = "top" /\ drained = 0 /\ crashes = 0
    BY DEF Init
  <2> QED
    BY <1>1, <2>1, <2>2, <2>3, <2>4 DEF TInv, TypeOK, BatchInv
<1>5. OthersInv /\ OrderInv
  BY <1>1, <1>3 DEF OthersInv, OrderInv, Before
<1>6. AccountInv
  BY <1>1, <1>3 DEF AccountInv
<1> QED
  BY <1>4, <1>5, <1>6 DEF IInv

\* The steps that only add or drop events of the agent itself.
LEMMA OwnEventsOnly ==
  ASSUME IInv, BufferOK(ring'), MarksOf(ring') = MarksOf(ring), UNCHANGED Way
  PROVE  WayInv'
<1>1. OthersInv'
  BY DEF BufferOK, OthersInv
<1>2. OrderInv'
  BY DEF BufferOK, IInv, OrderInv, Way
<1>3. AccountInv'
  BY DEF IInv, AccountInv, Way
<1> QED
  BY <1>1, <1>2, <1>3 DEF WayInv

LEMMA EmitStep == IInv /\ Emit => IInv'
<1> SUFFICES ASSUME IInv, Emit PROVE IInv'
  OBVIOUS
<1>1. PICK m \in {0, marked + 1} :
        /\ m <= MaxMark
        /\ ring' = Output(ring, [class |-> "other", mark |-> m])
        /\ marked' = IF m > 0 THEN m ELSE marked
        /\ lost' = IF m > 0 /\ ~HasRoom(ring) THEN lost \cup {m} ELSE lost
  BY DEF Emit
<1> DEFINE e == [class |-> "other", mark |-> m]
<1>2. UNCHANGED <<pending, pc, drained, consumed, due, locked, outside, delivered, crashes>>
  BY DEF Emit, loopVars
<1>3. BufferOK(ring) /\ ring \in Seq(Items) /\ pending \in Seq(Items)
  BY BufferHolds DEF IInv, TInv, TypeOK
<1>4. marked \in 0 .. MaxMark /\ m \in 0 .. MaxMark /\ (m = 0 \/ m = marked + 1)
  BY <1>1, EventPipelineAssumption DEF IInv, TInv, TypeOK
<1>5. e \in Items /\ e.mark = m /\ e.class = "other"
  BY <1>4 DEF Items, Classes
<1>6. \A k \in delivered \cup MarksOf(pending) \cup MarksOf(ring) \cup lost : k \in 1 .. marked
  BY DEF IInv, AccountInv
<1> HIDE DEF e
<1>7. BufferOK(ring') /\ (HasRoom(ring) => MarksOf(ring') = MarksOf(ring) \cup ({m} \ {0}))
                      /\ (~HasRoom(ring) => MarksOf(ring') = MarksOf(ring))
  <2>1. CASE ~HasRoom(ring)
    BY <1>1, <1>3, <2>1 DEF Output
  <2>2. CASE HasRoom(ring)
    <3>1. ring' = Append(ring, e)
      BY <1>1, <2>2 DEF Output, e
    <3>2. Append(ring, e) \in Seq(Items) /\ Len(Append(ring, e)) = Len(ring) + 1
      BY <1>3, <1>5, AppendProperties
    <3>3. Len(ring) + 1 <= RingSize
      BY <1>3, <2>2, LenProperties, EventPipelineAssumption DEF HasRoom
    <3>4. OthersOnly(Append(ring, e))
      BY <1>3, <1>5, OthersAppend DEF BufferOK
    <3>5. e.mark > 0 => \A k \in MarksOf(ring) : k < e.mark
      BY <1>4, <1>5, <1>6
    <3>6. InOrder(Append(ring, e))
      BY <1>3, <1>5, <3>5, InOrderAppend DEF BufferOK
    <3>7. MarksOf(Append(ring, e)) = MarksOf(ring) \cup ({e.mark} \ {0})
      BY <1>3, <1>5, MarksOfAppend
    <3> QED
      BY <1>5, <2>2, <3>1, <3>2, <3>3, <3>4, <3>6, <3>7 DEF BufferOK
  <2> QED
    BY <2>1, <2>2
<1>8. TInv'
  <2>1. marked' \in 0 .. MaxMark
    BY <1>1, <1>4
  <2>2. lost' \subseteq 1 .. MaxMark
    BY <1>1, <1>4 DEF IInv, TInv, TypeOK
  <2>3. ring' \in Seq(Items) /\ Len(ring') <= RingSize
    BY <1>7 DEF BufferOK
  <2> QED
    BY <1>2, <2>1, <2>2, <2>3 DEF IInv, TInv, TypeOK, BatchInv
<1>9. OthersInv'
  BY <1>7 DEF BufferOK, OthersInv
<1>10. OrderInv'
  <2>1. InOrder(ring') /\ InOrder(pending')
    BY <1>2, <1>7 DEF BufferOK, IInv, OrderInv
  <2>2. Before(MarksOf(pending), MarksOf(ring')) /\ Before(delivered, MarksOf(ring'))
    <3>1. Before(MarksOf(pending), MarksOf(ring)) /\ Before(delivered, MarksOf(ring))
      BY DEF IInv, OrderInv
    <3>2. m # 0 => \A k \in MarksOf(pending) \cup delivered : k < m
      BY <1>4, <1>6
    <3> QED
      BY <1>7, <3>1, <3>2 DEF Before
  <2> QED
    BY <1>2, <2>1, <2>2 DEF IInv, OrderInv
<1>11. AccountInv'
  <2>1. CASE m = 0
    BY <1>1, <1>2, <1>7, <2>1 DEF IInv, AccountInv
  <2>2. CASE m = marked + 1
    <3>1. marked' = marked + 1 /\ m > 0 /\ 1 .. marked' = (1 .. marked) \cup {m} /\ m \notin 1 .. marked
      BY <1>1, <1>4, <2>2
    <3> QED
      BY <1>1, <1>2, <1>7, <3>1 DEF IInv, AccountInv
  <2> QED
    BY <1>4, <2>1, <2>2
<1> QED
  BY <1>8, <1>9, <1>10, <1>11 DEF IInv

\* Steps that leave the way of the events alone.
LEMMA QuietStep ==
  ASSUME IInv, Quiesce \/ Elapse \/ SkipSync \/ EndTick \/ Wake
  PROVE  IInv'
<1>1. UNCHANGED <<ring, pending, delivered, lost, marked, crashes>>
  BY DEF Quiesce, Elapse, SkipSync, EndTick, Wake, historyVars
<1>2. WayInv'
  BY <1>1, BufferHolds, OwnEventsOnly DEF Way
<1>3. drained' \in 0 .. MaxTick
  BY EventPipelineAssumption
     DEF IInv, TInv, TypeOK, Quiesce, Elapse, SkipSync, EndTick, Wake, EnterTick, loopVars
<1>4. /\ pc' \in {"top", "drain", "posting", "flushing", "asleep"}
      /\ {consumed', due', locked', outside'} \subseteq BOOLEAN
  BY DEF IInv, TInv, TypeOK, Quiesce, Elapse, SkipSync, EndTick, Wake, EnterTick, loopVars
<1>5. TypeOK'
  BY <1>1, <1>3, <1>4 DEF IInv, TInv, TypeOK
<1>6. BatchInv'
  <2>1. CASE pc' = pc
    BY <1>1, <2>1 DEF IInv, TInv, BatchInv
  <2>2. CASE SkipSync
    <3>1. pending' = <<>> /\ pc' = "drain"
      BY <1>1, <2>2 DEF SkipSync, EnterTick, IInv, TInv, BatchInv
    <3> QED
      BY <3>1, EventPipelineAssumption DEF BatchInv
  <2>3. CASE EndTick
    <3>1. CASE pending = <<>>
      <4>1. pc' \in {"top", "asleep"} /\ pending' = <<>>
        BY <1>1, <2>3, <3>1 DEF EndTick
      <4> QED
        BY <4>1 DEF BatchInv
    <3>2. CASE pending # <<>>
      <4>1. pc' = "flushing"
        BY <2>3, <3>2 DEF EndTick
      <4> QED
        BY <4>1 DEF BatchInv
    <3> QED
      BY <3>1, <3>2
  <2>4. CASE Wake
    BY <1>1, <2>4 DEF Wake, IInv, TInv, BatchInv
  <2>5. Quiesce \/ Elapse => pc' = pc
    BY DEF Quiesce, Elapse, loopVars
  <2> QED
    BY <2>1, <2>2, <2>3, <2>4, <2>5
<1> QED
  BY <1>2, <1>5, <1>6 DEF IInv, TInv, WayInv

LEMMA SyncStep ==
  ASSUME IInv, Sync \/ SyncFails
  PROVE  IInv'
<1>1. BufferOK(Connected) /\ MarksOf(Connected) = MarksOf(ring)
  BY BufferHolds, ConnectedKeeps
<1>2. BufferOK(ring') /\ MarksOf(ring') = MarksOf(ring)
  <2>1. CASE Sync
    <3>1. ring' = Output(Connected, Own("bpf"))
      BY <2>1 DEF Sync
    <3>2. "bpf" \in Classes
      BY DEF Classes
    <3>3. /\ BufferOK(Output(Connected, Own("bpf")))
          /\ MarksOf(Output(Connected, Own("bpf"))) = MarksOf(Connected)
      BY <1>1, <3>2, OutputOwn
    <3> QED
      BY <1>1, <3>1, <3>3
  <2>2. CASE SyncFails
    BY <1>1, <2>2 DEF SyncFails
  <2> QED
    BY <2>1, <2>2
<1>3. /\ UNCHANGED <<pending, outside, marked, delivered, lost, crashes>>
      /\ pc = "top" /\ pc' = "drain" /\ drained' = 0
      /\ consumed' = FALSE /\ due' = FALSE /\ locked' \in BOOLEAN
  BY DEF Sync, SyncFails, EnterTick, historyVars, IInv, TInv, TypeOK
<1>4. WayInv'
  BY <1>2, <1>3, OwnEventsOnly DEF Way
<1>5. pending' = <<>> /\ Len(<<>>) < Batch /\ 0 \in 0 .. MaxTick
  BY <1>3, EventPipelineAssumption DEF IInv, TInv, BatchInv
<1>6. BatchInv'
  BY <1>3, <1>5 DEF BatchInv
<1>7. TypeOK'
  <2>1. ring' \in Seq(Items) /\ Len(ring') <= RingSize
    BY <1>2 DEF BufferOK
  <2>2. {consumed', due', locked', outside'} \subseteq BOOLEAN
    BY <1>3 DEF IInv, TInv, TypeOK
  <2> QED
    BY <1>3, <1>5, <2>1, <2>2 DEF IInv, TInv, TypeOK
<1> QED
  BY <1>4, <1>6, <1>7 DEF IInv, TInv, WayInv

\* One more event in a tick that is not over.
LEMMA OneMore ==
  ASSUME TypeOK, ~TickOver
  PROVE  drained + 1 \in 0 .. MaxTick /\ ring # <<>>
BY EventPipelineAssumption DEF TypeOK, TickOver

LEMMA DropStep ==
  ASSUME IInv, Drop
  PROVE  IInv'
<1>1. /\ UNCHANGED <<pending, pc, due, locked, outside, marked, delivered, lost, crashes>>
      /\ ring' = Tail(ring) /\ drained' = drained + 1 /\ consumed' = TRUE
      /\ ~TickOver /\ DroppedRaw(Head(ring))
  BY DEF Drop, historyVars
<1>2. drained' \in 0 .. MaxTick /\ ring # <<>>
  BY <1>1, OneMore DEF IInv, TInv
<1>3. BufferOK(ring') /\ MarksOf(ring') = MarksOf(ring)
  BY <1>1, <1>2, BufferHolds, DropFromBuffer
<1>4. WayInv'
  BY <1>1, <1>3, OwnEventsOnly DEF Way
<1>5. BatchInv'
  BY <1>1 DEF IInv, TInv, BatchInv
<1>6. TypeOK'
  <2>1. ring' \in Seq(Items) /\ Len(ring') <= RingSize
    BY <1>3 DEF BufferOK
  <2>2. {consumed', due', locked', outside'} \subseteq BOOLEAN
    BY <1>1 DEF IInv, TInv, TypeOK
  <2> QED
    BY <1>1, <1>2, <2>1, <2>2 DEF IInv, TInv, TypeOK
<1> QED
  BY <1>4, <1>5, <1>6 DEF IInv, TInv, WayInv

LEMMA TakeStep ==
  ASSUME IInv, Take
  PROVE  IInv'
<1>1. /\ UNCHANGED <<due, locked, outside, marked, delivered, lost, crashes>>
      /\ ring' = Tail(Output(ring, Own("open")))
      /\ pending' = Append(pending, Head(ring))
      /\ drained' = drained + 1 /\ consumed' = TRUE
      /\ pc = "drain" /\ pc' = IF Len(pending') >= Batch THEN "posting" ELSE "drain"
      /\ ~TickOver
  BY DEF Take, historyVars
<1>2. drained' \in 0 .. MaxTick /\ ring # <<>>
  BY <1>1, OneMore DEF IInv, TInv
<1>3. /\ BufferOK(ring')
      /\ Head(ring) \in Items
      /\ MarksOf(ring) = MarksOf(ring') \cup ({Head(ring).mark} \ {0})
      /\ \A m \in MarksOf(ring') : Head(ring).mark < m
  BY <1>1, <1>2, BufferHolds, TakeFromBuffer
<1>4. Head(ring).mark \in 0 .. MaxMark /\ pending \in Seq(Items)
  BY <1>3 DEF Items, IInv, TInv, TypeOK
<1>5. /\ MarksOf(pending') = MarksOf(pending) \cup ({Head(ring).mark} \ {0})
      /\ pending' \in Seq(Items) /\ Len(pending') = Len(pending) + 1
  BY <1>1, <1>3, <1>4, MarksOfAppend, AppendProperties
<1>6. Len(pending') <= Batch
  <2>1. Len(pending) < Batch /\ Len(pending) \in Nat
    BY <1>1, <1>4, LenProperties DEF IInv, TInv, BatchInv
  <2> QED
    BY <1>5, <2>1, EventPipelineAssumption
<1>7. TypeOK'
  <2>1. ring' \in Seq(Items) /\ Len(ring') <= RingSize
    BY <1>3 DEF BufferOK
  <2>2. {consumed', due', locked', outside'} \subseteq BOOLEAN
    BY <1>1 DEF IInv, TInv, TypeOK
  <2>3. pc' \in {"drain", "posting"}
    BY <1>1
  <2> QED
    BY <1>1, <1>2, <1>5, <1>6, <2>1, <2>2, <2>3 DEF IInv, TInv, TypeOK
<1>8. BatchInv'
  <2>1. Len(pending') \in Nat
    BY <1>5, LenProperties
  <2> QED
    BY <1>1, <2>1, EventPipelineAssumption DEF BatchInv
<1>9. OthersInv'
  BY <1>3 DEF BufferOK, OthersInv
<1>10. OrderInv'
  <2>1. /\ InOrder(pending)
        /\ Before(MarksOf(pending), MarksOf(ring))
        /\ Before(delivered, MarksOf(pending))
        /\ Before(delivered, MarksOf(ring))
    BY DEF IInv, OrderInv
  <2>2. InOrder(ring')
    BY <1>3 DEF BufferOK
  <2>3. Head(ring).mark > 0 => Head(ring).mark \in MarksOf(ring)
    BY <1>3, <1>4
  <2>4. InOrder(pending')
    <3>1. Head(ring).mark > 0 => \A m \in MarksOf(pending) : m < Head(ring).mark
      BY <2>1, <2>3 DEF Before
    <3> QED
      BY <1>1, <1>3, <1>4, <2>1, <3>1, InOrderAppend
  <2>5. Before(MarksOf(pending'), MarksOf(ring'))
    BY <1>3, <1>5, <2>1 DEF Before
  <2>6. Before(delivered', MarksOf(pending'))
    BY <1>1, <1>3, <1>5, <2>1 DEF Before
  <2>7. Before(delivered', MarksOf(ring'))
    BY <1>1, <1>3, <2>1 DEF Before
  <2> QED
    BY <2>2, <2>4, <2>5, <2>6, <2>7 DEF OrderInv
<1>11. AccountInv'
  BY <1>1, <1>3, <1>5 DEF IInv, AccountInv
<1> QED
  BY <1>7, <1>8, <1>9, <1>10, <1>11 DEF IInv, TInv

LEMMA PostStep ==
  ASSUME IInv, Post
  PROVE  IInv'
<1>1. /\ UNCHANGED <<drained, consumed, due, locked, outside, marked, crashes>>
      /\ ring' = Connected /\ pending' = <<>>
      /\ pc' \in {"drain", "top"}
  BY DEF Post, PendingAfter
<1>2. BufferOK(ring') /\ MarksOf(ring') = MarksOf(ring)
  BY <1>1, BufferHolds, ConnectedKeeps
<1>3. \/ lost' = lost \cup MarksOf(pending) /\ delivered' = delivered
      \/ delivered' = delivered \cup MarksOf(pending) /\ lost' = lost
  BY DEF Post
<1>4. MarksOf(pending) \subseteq 1 .. MaxMark
  BY MarksAreMarks DEF IInv, TInv, TypeOK
<1>5. MarksOf(pending') = {} /\ InOrder(pending') /\ pending' \in Seq(Items) /\ Len(pending') = 0
  BY <1>1, NoMarks
<1>6. TypeOK'
  <2>1. ring' \in Seq(Items) /\ Len(ring') <= RingSize
    BY <1>2 DEF BufferOK
  <2>2. delivered' \subseteq 1 .. MaxMark /\ lost' \subseteq 1 .. MaxMark
    BY <1>3, <1>4 DEF IInv, TInv, TypeOK
  <2>3. 0 <= Batch
    BY EventPipelineAssumption
  <2>4. /\ drained' \in 0 .. MaxTick /\ marked' \in 0 .. MaxMark
        /\ crashes' \in 0 .. MaxCrashes
        /\ {consumed', due', locked', outside'} \subseteq BOOLEAN
    BY <1>1 DEF IInv, TInv, TypeOK
  <2> QED
    BY <1>1, <1>5, <2>1, <2>2, <2>3, <2>4 DEF TypeOK
<1>7. BatchInv'
  <2>1. Len(pending') < Batch
    BY <1>5, EventPipelineAssumption
  <2> QED
    BY <1>1, <2>1 DEF BatchInv
<1>8. OthersInv'
  BY <1>2 DEF BufferOK, OthersInv
<1>9. /\ Before(MarksOf(pending), MarksOf(ring))
      /\ Before(delivered, MarksOf(pending))
      /\ Before(delivered, MarksOf(ring))
  BY DEF IInv, OrderInv
<1>10. OrderInv'
  <2>1. InOrder(ring')
    BY <1>2 DEF BufferOK
  <2>2. /\ Before(MarksOf(pending'), MarksOf(ring'))
        /\ Before(delivered', MarksOf(pending'))
    BY <1>5 DEF Before
  <2>3. Before(delivered', MarksOf(ring'))
    BY <1>2, <1>3, <1>9 DEF Before
  <2> QED
    BY <1>5, <2>1, <2>2, <2>3 DEF OrderInv
<1>11. AccountInv'
  <2>1. /\ delivered \cup MarksOf(pending) \cup MarksOf(ring) \cup lost = 1 .. marked
        /\ (delivered \cup MarksOf(pending) \cup MarksOf(ring)) \cap lost = {}
    BY DEF IInv, AccountInv
  <2>2. /\ delivered' \cup MarksOf(pending') \cup MarksOf(ring') \cup lost' = 1 .. marked
    BY <1>2, <1>3, <1>5, <2>1
  <2>3. (MarksOf(pending) \cap MarksOf(ring) = {}) /\ (MarksOf(pending) \cap delivered = {})
    <3>1. MarksOf(pending) \subseteq Nat /\ delivered \subseteq Nat
      BY <1>4, EventPipelineAssumption DEF IInv, TInv, TypeOK
    <3>2. \A m \in Nat : ~ (m < m)
      OBVIOUS
    <3> QED
      BY <1>9, <3>1, <3>2 DEF Before
  <2>4. (delivered' \cup MarksOf(pending') \cup MarksOf(ring')) \cap lost' = {}
    BY <1>2, <1>3, <1>5, <2>1, <2>3
  <2> QED
    BY <1>1, <2>2, <2>4 DEF AccountInv
<1> QED
  BY <1>6, <1>7, <1>8, <1>10, <1>11 DEF IInv, TInv

LEMMA CrashStep ==
  ASSUME IInv, Crash
  PROVE  IInv'
<1>1. /\ UNCHANGED <<outside, marked, delivered>>
      /\ crashes < MaxCrashes /\ crashes' = crashes + 1
      /\ lost' = lost \cup MarksOf(pending \o ring)
      /\ ring' = <<>> /\ pending' = <<>> /\ pc' = "top" /\ drained' = 0
      /\ consumed' = FALSE /\ due' = TRUE /\ locked' = FALSE
  BY DEF Crash, OnTheWay
<1>2. pending \in Seq(Items) /\ ring \in Seq(Items)
  BY DEF IInv, TInv, TypeOK
<1>3. MarksOf(pending \o ring) = MarksOf(pending) \cup MarksOf(ring)
  BY <1>2, MarksOfConcat
<1>4. MarksOf(pending) \subseteq 1 .. MaxMark /\ MarksOf(ring) \subseteq 1 .. MaxMark
  BY <1>2, MarksAreMarks
<1>5. /\ MarksOf(pending') = {} /\ MarksOf(ring') = {}
      /\ InOrder(pending') /\ InOrder(ring') /\ OthersOnly(ring')
      /\ pending' \in Seq(Items) /\ Len(pending') = 0
      /\ ring' \in Seq(Items) /\ Len(ring') = 0
  BY <1>1, NoMarks
<1>6. TypeOK'
  <2>1. 0 <= Batch /\ 0 <= RingSize /\ 0 \in 0 .. MaxTick
    BY EventPipelineAssumption
  <2>2. lost' \subseteq 1 .. MaxMark
    BY <1>1, <1>3, <1>4 DEF IInv, TInv, TypeOK
  <2>3. crashes' \in 0 .. MaxCrashes
    BY <1>1, EventPipelineAssumption DEF IInv, TInv, TypeOK
  <2>4. {consumed', due', locked', outside'} \subseteq BOOLEAN
    BY <1>1 DEF IInv, TInv, TypeOK
  <2> QED
    BY <1>1, <1>5, <2>1, <2>2, <2>3, <2>4 DEF IInv, TInv, TypeOK
<1>7. BatchInv'
  BY <1>1 DEF BatchInv
<1>8. OthersInv'
  BY <1>5 DEF OthersInv
<1>9. OrderInv'
  BY <1>5 DEF OrderInv, Before
<1>10. AccountInv'
  <2>1. delivered \cap (MarksOf(pending) \cup MarksOf(ring)) = {}
    <3>1. delivered \subseteq Nat
      BY EventPipelineAssumption DEF IInv, TInv, TypeOK
    <3>2. \A m \in Nat : ~ (m < m)
      OBVIOUS
    <3> QED
      BY <3>1, <3>2 DEF IInv, OrderInv, Before
  <2> QED
    BY <1>1, <1>3, <1>5, <2>1 DEF IInv, AccountInv
<1> QED
  BY <1>6, <1>7, <1>8, <1>9, <1>10 DEF IInv, TInv

LEMMA NextIInv == IInv /\ [Next]_vars => IInv'
<1> SUFFICES ASSUME IInv, [Next]_vars PROVE IInv'
  OBVIOUS
<1>1. CASE Emit
  BY <1>1, EmitStep
<1>2. CASE Quiesce \/ Elapse \/ SkipSync \/ EndTick \/ Wake
  BY <1>2, QuietStep
<1>3. CASE Sync \/ SyncFails
  BY <1>3, SyncStep
<1>4. CASE Drop
  BY <1>4, DropStep
<1>5. CASE Take
  BY <1>5, TakeStep
<1>6. CASE Post
  BY <1>6, PostStep
<1>7. CASE Crash
  BY <1>7, CrashStep
<1>8. CASE UNCHANGED vars
  <2>1. UNCHANGED <<ring, pending, pc, drained, consumed, due, locked, outside,
                    marked, delivered, lost, crashes>>
    BY <1>8 DEF vars
  <2>2. WayInv'
    BY <2>1, BufferHolds, OwnEventsOnly DEF Way
  <2>3. TInv'
    BY <2>1 DEF IInv, TInv, TypeOK, BatchInv
  <2> QED
    BY <2>2, <2>3 DEF IInv, WayInv
<1> QED
  BY <1>1, <1>2, <1>3, <1>4, <1>5, <1>6, <1>7, <1>8 DEF Next, Loop

LEMMA IInvHolds == Spec => []IInv
BY InitIInv, NextIInv, PTL DEF Spec

-------------------------------------------------------------------------------

\* The ring buffer, the batch and the tick keep within their limits.
THEOREM TypeCorrect == Spec => []TypeOK
<1>1. IInv => TypeOK
  BY DEF IInv, TInv
<1> QED
  BY <1>1, IInvHolds, PTL

\* What is on its way is in order over both of its parts, and behind all that
\* the manager has stored.
LEMMA OrderOfTheWay == IInv => InOrderOnce
<1> SUFFICES ASSUME IInv PROVE InOrderOnce
  OBVIOUS
<1>1. pending \in Seq(Items) /\ ring \in Seq(Items)
  BY DEF IInv, TInv, TypeOK
<1> DEFINE w == pending \o ring
           n == Len(pending)
<1>2. /\ w \in Seq(Items) /\ DOMAIN w = 1 .. n + Len(ring)
      /\ \A i \in 1 .. n + Len(ring) :
           w[i] = IF i <= n THEN pending[i] ELSE ring[i - n]
  <2>1. w \in Seq(Items) /\ Len(w) = n + Len(ring)
    BY <1>1, ConcatProperties
  <2>2. DOMAIN w = 1 .. Len(w)
    BY <2>1, LenProperties
  <2> QED
    BY <1>1, <2>1, <2>2, ConcatProperties
<1>3. /\ DOMAIN pending = 1 .. n /\ n \in Nat
      /\ DOMAIN ring = 1 .. Len(ring) /\ Len(ring) \in Nat
  BY <1>1, LenProperties
<1> HIDE DEF w, n
<1>4. ASSUME NEW i \in DOMAIN w
      PROVE  \/ i <= n /\ i \in DOMAIN pending /\ w[i] = pending[i]
             \/ i > n /\ i - n \in DOMAIN ring /\ w[i] = ring[i - n]
  BY <1>2, <1>3
<1>5. /\ InOrder(pending) /\ InOrder(ring)
      /\ Before(MarksOf(pending), MarksOf(ring))
      /\ Before(delivered, MarksOf(pending))
      /\ Before(delivered, MarksOf(ring))
  BY DEF IInv, OrderInv
<1>6. MarksOf(w) = MarksOf(pending) \cup MarksOf(ring)
  BY <1>1, MarksOfConcat DEF w
<1> SUFFICES ASSUME NEW i \in DOMAIN w, w[i].mark > 0
             PROVE  /\ \A j \in DOMAIN w : j < i => w[j].mark < w[i].mark
                    /\ \A m \in delivered : m < w[i].mark
  BY DEF InOrderOnce, OnTheWay, w
<1>7. \A m \in delivered : m < w[i].mark
  <2>1. w[i].mark \in MarksOf(w)
    BY <1>2, MarkAt
  <2> QED
    BY <1>5, <1>6, <2>1 DEF Before
<1>8. ASSUME NEW j \in DOMAIN w, j < i
      PROVE  w[j].mark < w[i].mark
  <2>1. w[j].mark \in 0 .. MaxMark
    BY <1>2, MarkAt
  <2>2. CASE w[j].mark = 0
    BY <2>2
  <2>3. CASE w[j].mark > 0
    <3>1. i \in Nat /\ j \in Nat /\ n \in Nat
      BY <1>2, <1>3
    <3>2. CASE i <= n
      <4>1. j <= n
        BY <1>8, <3>1, <3>2
      <4>2. /\ i \in DOMAIN pending /\ w[i] = pending[i]
            /\ j \in DOMAIN pending /\ w[j] = pending[j]
        BY <1>4, <3>1, <3>2, <4>1
      <4> QED
        BY <1>5, <1>8, <4>2 DEF InOrder
    <3>3. CASE j > n
      <4>1. i > n /\ j - n < i - n
        BY <1>8, <3>1, <3>3
      <4>2. /\ i - n \in DOMAIN ring /\ w[i] = ring[i - n]
            /\ j - n \in DOMAIN ring /\ w[j] = ring[j - n]
        BY <1>4, <3>1, <3>3, <4>1
      <4> QED
        BY <1>5, <4>1, <4>2 DEF InOrder
    <3>4. CASE j <= n /\ i > n
      <4>1. /\ i - n \in DOMAIN ring /\ w[i] = ring[i - n]
            /\ j \in DOMAIN pending /\ w[j] = pending[j]
        BY <1>4, <3>1, <3>4
      <4>2. w[i].mark \in MarksOf(ring) /\ w[j].mark \in MarksOf(pending)
        BY <1>1, <2>3, <4>1, MarkAt
      <4> QED
        BY <1>5, <4>2 DEF Before
    <3> QED
      BY <3>1, <3>2, <3>3, <3>4
  <2> QED
    BY <2>1, <2>2, <2>3, EventPipelineAssumption
<1> QED
  BY <1>7, <1>8

\* No event reaches the manager twice or behind a younger one, whatever is lost
\* on the way and wherever the agent crashes.
THEOREM InOrderOnceHolds == Spec => []InOrderOnce
BY OrderOfTheWay, IInvHolds, PTL

\* Every event has been stored, is on its way or is known to be lost: to a full
\* buffer, a failed post or a crash.
THEOREM AccountedHolds == Spec => []Accounted
<1>1. IInv => Accounted
  <2>1. ASSUME IInv
        PROVE  MarksOf(OnTheWay) = MarksOf(pending) \cup MarksOf(ring)
    BY <2>1, MarksOfConcat DEF OnTheWay, IInv, TInv, TypeOK
  <2> QED
    BY <2>1 DEF IInv, AccountInv, Accounted
<1> QED
  BY <1>1, IInvHolds, PTL
===============================================================================
