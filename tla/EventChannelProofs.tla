-------------------------- MODULE EventChannelProofs --------------------------
(***************************************************************************)
(* What EventChannel's runs check on a small instance, for every number of *)
(* harts, batch size, queue capacity, payload and number of events.        *)
(***************************************************************************)
EXTENDS EventChannel, SequenceTheorems, TLAPS

\* What the runs explore are behaviours of the channel without a bound.
LEMMA Unbounded == Spec => ChannelSpec
<1>1. Next => ChannelNext
  BY DEF Next, ChannelNext
<1> QED
  BY <1>1, PTL DEF Spec, ChannelSpec

------------------------------------------------------------------------------
(* Type correctness *)

\* TypeOK bounds the publisher's buffer only because a buffer that is full is
\* being flushed, which keeps the publishing thread from appending to it.
TypeInv ==
    /\ TypeOK
    /\ \A h \in Harts : ~flushing[h] => Len(pubBuffer[h]) < BatchSize

\* The initial state has the types, and so does every step's result.
LEMMA TypeInit == Init => TypeInv
BY BatchAssumption, QueueAssumption DEF Init, TypeInv, TypeOK, Message

LEMMA TypeStep == TypeInv /\ [ChannelNext]_channelVars => TypeInv'
<1> SUFFICES ASSUME TypeInv, [ChannelNext]_channelVars PROVE TypeInv'
  OBVIOUS
<1> USE BatchAssumption, QueueAssumption DEF TypeInv, TypeOK, Message
<1>1. CASE UNCHANGED channelVars
  BY <1>1 DEF channelVars
<1>2. ASSUME NEW h \in Harts, NewSubscriber(h) \/ Subscribed(h) \/ Unsubscribe(h)
      PROVE TypeInv'
  BY <1>2 DEF NewSubscriber, Subscribed, Unsubscribe, pubVars
<1>3. ASSUME NEW h \in Harts, Take(h) PROVE TypeInv'
  <2>1. /\ subBuffer' = [subBuffer EXCEPT ![h] = Head(queue[h])]
        /\ queue' = [queue EXCEPT ![h] = Tail(queue[h])]
        /\ queue[h] # <<>>
        /\ UNCHANGED <<pub, sub, linked, pubBuffer, flushing, nextId, seen>>
    BY <1>3 DEF Take, TakeMessage, pubVars
  <2>2. queue[h] \in Seq(Message) /\ Len(queue[h]) \in Nat /\ Len(queue[h]) <= QueueCapacity
    BY LenProperties
  <2>3. /\ Head(queue[h]) \in Message /\ Tail(queue[h]) \in Seq(Message)
        /\ Len(Tail(queue[h])) = Len(queue[h]) - 1
    BY <2>1, <2>2, HeadTailProperties
  <2>4. Len(Tail(queue[h])) <= QueueCapacity
    BY <2>2, <2>3
  <2>5. ASSUME NEW g \in Harts PROVE Len(queue'[g]) <= QueueCapacity
    BY <2>1, <2>4
  <2>6. subBuffer' \in [Harts -> Message] /\ queue' \in [Harts -> Seq(Message)]
    BY <2>1, <2>3
  <2> QED
    BY <2>1, <2>5, <2>6
<1>4. ASSUME NEW h \in Harts, PopFront(h) PROVE TypeInv'
  <2>1. /\ seen' = [seen EXCEPT ![h] = Head(subBuffer[h]).id]
        /\ subBuffer' = [subBuffer EXCEPT ![h] = Tail(@)]
        /\ subBuffer[h] # <<>>
        /\ UNCHANGED <<pubVars, sub, linked, queue>>
    BY <1>4 DEF PopFront
  <2>2. subBuffer[h] \in Seq(Event)
    OBVIOUS
  <2>3. Head(subBuffer[h]) \in Event /\ Tail(subBuffer[h]) \in Seq(Event)
    BY <2>1, <2>2, HeadTailProperties
  <2>4. Head(subBuffer[h]).id \in Nat
    BY <2>3 DEF Event
  <2>5. seen' \in [Harts -> Int] /\ subBuffer' \in [Harts -> Message]
    BY <2>1, <2>3, <2>4
  <2>6. UNCHANGED <<pub, sub, linked, pubBuffer, flushing, nextId, queue>>
    BY <2>1 DEF pubVars
  <2> QED
    BY <2>5, <2>6
<1>5. ASSUME NEW h \in Harts, RouDiStep(h) PROVE TypeInv'
  BY <1>5 DEF RouDiStep, Link, Unlink, pubVars, subVars
<1>6. ASSUME NEW h \in Harts,
             NewPublisher(h) \/ PublisherReady(h) \/ Shutdown(h) \/ StopOffer(h)
      PROVE TypeInv'
  BY <1>6 DEF NewPublisher, PublisherReady, Shutdown, StopOffer, subVars
<1>7. ASSUME NEW h \in Harts, NEW data \in Payload, NEW force \in BOOLEAN,
             Publish(h, data, force)
      PROVE TypeInv'
  <2> DEFINE event == [id |-> nextId[h], data |-> data]
             buffer == Append(pubBuffer[h], event)
  <2>1. /\ nextId' = [nextId EXCEPT ![h] = @ + 1]
        /\ pubBuffer' = [pubBuffer EXCEPT ![h] = buffer]
        /\ flushing' = [flushing EXCEPT ![h] = Len(buffer) = BatchSize \/ force]
        /\ UNCHANGED <<pub, subVars, linked, queue>>
        /\ ~flushing[h]
    BY <1>7 DEF Publish
  <2>2. event \in Event /\ pubBuffer[h] \in Seq(Event)
    BY DEF Event
  <2>3. buffer \in Seq(Event) /\ Len(buffer) = Len(pubBuffer[h]) + 1
    BY <2>2, AppendProperties
  <2>4. Len(buffer) <= BatchSize
    BY <2>1, <2>2, <2>3, LenProperties
  <2>5. ~flushing'[h] => Len(buffer) < BatchSize
    <3> HIDE DEF buffer
    <3>1. flushing \in [Harts -> BOOLEAN]
      OBVIOUS
    <3>2. flushing'[h] = (Len(buffer) = BatchSize \/ force)
      BY <2>1, <3>1, Zenon
    <3>3. ~flushing'[h] => Len(buffer) # BatchSize
      BY <3>2, Zenon
    <3>4. Len(buffer) \in Nat
      BY <2>3, LenProperties
    <3> QED
      BY <3>3, <3>4, <2>4
  <2> HIDE DEF event, buffer
  <2>7. flushing' \in [Harts -> BOOLEAN]
    <3> DEFINE full == Len(buffer) = BatchSize \/ force
    <3>1. flushing' = [flushing EXCEPT ![h] = full] /\ full \in BOOLEAN
      BY <2>1
    <3> HIDE DEF full
    <3> QED
      BY <3>1
  <2>8. pubBuffer' \in [Harts -> Message] /\ nextId' \in [Harts -> Nat]
    BY <2>1, <2>3
  <2>9. \A g \in Harts : /\ Len(pubBuffer'[g]) <= BatchSize
                         /\ ~flushing'[g] => Len(pubBuffer'[g]) < BatchSize
    BY <2>1, <2>3, <2>4, <2>5
  <2> QED
    BY <2>1, <2>7, <2>8, <2>9 DEF subVars
<1>8. ASSUME NEW h \in Harts, Flush(h) PROVE TypeInv'
  <2>1. /\ pubBuffer' = [pubBuffer EXCEPT ![h] = <<>>]
        /\ flushing' = [flushing EXCEPT ![h] = FALSE]
        /\ UNCHANGED <<pub, nextId, subVars, linked>>
    BY <1>8 DEF Flush
  <2>2. queue' \in [Harts -> Seq(Message)]
        /\ \A g \in Harts : Len(queue'[g]) <= QueueCapacity
    <3>1. CASE UNCHANGED queue
      BY <3>1
    <3>2. CASE /\ Len(queue[h]) < QueueCapacity
               /\ queue' = [queue EXCEPT ![h] = Append(@, pubBuffer[h])]
      <4>1. queue[h] \in Seq(Message) /\ pubBuffer[h] \in Message
        OBVIOUS
      <4>2. /\ Append(queue[h], pubBuffer[h]) \in Seq(Message)
            /\ Len(Append(queue[h], pubBuffer[h])) = Len(queue[h]) + 1
        BY <4>1, AppendProperties
      <4> QED
        BY <3>2, <4>1, <4>2, LenProperties
    <3> QED
      BY <1>8, <3>1, <3>2 DEF Flush, Deliver
  <2>3. /\ pubBuffer' \in [Harts -> Message]
        /\ \A g \in Harts : /\ Len(pubBuffer'[g]) <= BatchSize
                            /\ ~flushing'[g] => Len(pubBuffer'[g]) < BatchSize
    <3>1. <<>> \in Message /\ Len(<<>>) = 0
      BY EmptySeq
    <3> QED
      BY <2>1, <3>1
  <2>4. flushing' \in [Harts -> BOOLEAN]
    BY <2>1
  <2> QED
    BY <2>1, <2>2, <2>3, <2>4 DEF subVars
<1>9. QED
  BY <1>1, <1>2, <1>3, <1>4, <1>5, <1>6, <1>7, <1>8
     DEF ChannelNext, ChannelStep, SubscriberStep, PublishAny, PublisherStep

\* Every state of every behaviour is type-correct, and buffers and queue keep
\* their bounds (EventPublisher's flush on capacity, the blocking queue).
THEOREM TypeCorrect == ChannelSpec => []TypeOK
<1>1. TypeInv => TypeOK
  BY DEF TypeInv
<1>2. QED
  BY <1>1, TypeInit, TypeStep, PTL DEF ChannelSpec

------------------------------------------------------------------------------
(* The four operations on a stream of numbered events, as facts about          *)
(* sequences                                                                   *)

\* Places in a stream are integers.
LEMMA StartTyped ==
    ASSUME NEW n \in Int, NEW m \in Message, NEW q \in Seq(Message),
           \A i \in 1 .. Len(q) : q[i] # <<>>, NEW i \in 1 .. Len(q) + 1
    PROVE  Start(n, m, q, i) \in Int
<1>1. CASE i = 1
  BY <1>1, LenProperties DEF Start, Message
<1>2. CASE i # 1
  <2>1. i - 1 \in 1 .. Len(q)
    BY <1>2, LenProperties
  <2>2. q[i - 1] \in Seq(Event) /\ q[i - 1] # <<>>
    BY <2>1, ElementOfSeq DEF Message
  <2>3. Len(q[i - 1]) \in Nat /\ 1 \in 1 .. Len(q[i - 1])
    BY <2>2, EmptySeq, LenProperties
  <2>4. q[i - 1][1] \in Event
    BY <2>2, <2>3, ElementOfSeq
  <2> QED
    BY <1>2, <2>3, <2>4 DEF Start, Event
<1>3. QED
  BY <1>1, <1>2

\* Where the messages start when one joins the queue, when the first moves to a
\* drained subscriber, and when the subscriber pops the event after the last.
LEMMA StartAppend ==
    ASSUME NEW n, NEW m, NEW q \in Seq(Message), NEW p \in Message, p # <<>>
    PROVE  /\ \A i \in 1 .. Len(q) + 1 : Start(n, m, Append(q, p), i) = Start(n, m, q, i)
           /\ Start(n, m, Append(q, p), Len(q) + 2) = p[1].id + Len(p)
<1> DEFINE q1 == Append(q, p)
<1>1. /\ Len(q1) = Len(q) + 1 /\ Len(q) \in Nat
      /\ \A i \in 1 .. Len(q) : q1[i] = q[i]
      /\ q1[Len(q) + 1] = p
  BY AppendProperties, LenProperties
<1> HIDE DEF q1
<1>2. \A i \in 1 .. Len(q) + 1 : Start(n, m, q1, i) = Start(n, m, q, i)
  <2> SUFFICES ASSUME NEW i \in 1 .. Len(q) + 1 PROVE Start(n, m, q1, i) = Start(n, m, q, i)
    OBVIOUS
  <2>1. i # 1 => q1[i - 1] = q[i - 1]
    BY <1>1
  <2> QED
    BY <2>1 DEF Start
<1>3. Start(n, m, q1, Len(q) + 2) = p[1].id + Len(p)
  BY <1>1 DEF Start
<1>4. QED
  BY <1>2, <1>3 DEF q1

LEMMA StartTake ==
    ASSUME NEW n \in Int, NEW q \in Seq(Message), q # <<>>, Head(q)[1].id = n + 1
    PROVE  \A i \in 1 .. Len(q) :
               Start(n, Head(q), Tail(q), i) = Start(n, <<>>, q, i + 1)
<1> DEFINE m1 == Head(q)
           q1 == Tail(q)
<1>1. /\ m1 = q[1] /\ Len(q) \in Nat \ {0} /\ Len(q1) = Len(q) - 1
      /\ \A i \in 1 .. Len(q1) : q1[i] = q[i + 1]
  BY EmptySeq, HeadTailProperties
<1>2. m1[1].id = n + 1
  OBVIOUS
<1> HIDE DEF m1, q1
<1> SUFFICES ASSUME NEW i \in 1 .. Len(q)
             PROVE Start(n, m1, q1, i) = Start(n, <<>>, q, i + 1)
  BY DEF m1, q1
<1>3. CASE i = 1
  <2>1. Start(n, m1, q1, 1) = n + 1 + Len(m1)
    BY DEF Start
  <2>2. Start(n, <<>>, q, 2) = m1[1].id + Len(m1)
    BY <1>1 DEF Start
  <2> QED
    BY <1>3, <2>1, <2>2, <1>2
<1>4. CASE i # 1
  <2>1. q1[i - 1] = q[i]
    BY <1>4, <1>1
  <2> QED
    BY <2>1, <1>4 DEF Start
<1>5. QED
  BY <1>3, <1>4

LEMMA StartPop ==
    ASSUME NEW n \in Int, NEW m \in Message, NEW q, m # <<>>
    PROVE  \A i : Start(n + 1, Tail(m), q, i) = Start(n, m, q, i)
<1>1. Len(m) \in Nat \ {0} /\ Len(Tail(m)) = Len(m) - 1
  BY EmptySeq, HeadTailProperties DEF Message
<1>2. QED
  BY <1>1 DEF Start

\* publish: the event with the next number extends the publisher's buffer.
LEMMA IntactPublish ==
    ASSUME NEW n \in Int, NEW m \in Message, NEW q \in Seq(Message),
           NEW p \in Message, NEW next \in Nat, NEW e \in Event,
           Intact(n, m, q, p, next), e.id = next
    PROVE  Intact(n, m, q, Append(p, e), next + 1)
<1> DEFINE s == Start(n, m, q, Len(q) + 1)
           p1 == Append(p, e)
<1>1. p \in Seq(Event)
  BY DEF Message
<1>2. /\ Len(p1) = Len(p) + 1 /\ Len(p) \in Nat
      /\ \A i \in 1 .. Len(p) : p1[i] = p[i]
      /\ p1[Len(p) + 1] = e
  BY <1>1, AppendProperties, LenProperties
<1>3. Numbered(p, s) /\ next = s + Len(p)
  BY DEF Intact
<1>4. s \in Int
  BY <1>2, <1>3, StartTyped DEF Intact
<1> HIDE DEF s, p1
<1>5. Numbered(p1, s)
  <2>1. ASSUME NEW i \in 1 .. Len(p) PROVE p1[i].id = s + i - 1
    BY <1>2, <1>3 DEF Numbered
  <2>2. p1[Len(p) + 1].id = s + (Len(p) + 1) - 1
    BY <1>2, <1>3, <1>4
  <2>3. 1 .. Len(p1) = 1 .. Len(p) \union {Len(p) + 1}
    BY <1>2
  <2> QED
    BY <2>1, <2>2, <2>3 DEF Numbered
<1>6. next + 1 = s + Len(p1)
  BY <1>2, <1>3, <1>4
<1>7. QED
  BY <1>5, <1>6 DEF Intact, s, p1

\* publishCopyOf: the publisher's buffer becomes the queue's last message.
LEMMA IntactFlush ==
    ASSUME NEW n \in Int, NEW m \in Message, NEW q \in Seq(Message),
           NEW p \in Message, NEW next \in Nat,
           Intact(n, m, q, p, next), p # <<>>
    PROVE  Intact(n, m, Append(q, p), <<>>, next)
<1> DEFINE q1 == Append(q, p)
<1>1. /\ Len(q1) = Len(q) + 1 /\ Len(q) \in Nat
      /\ \A i \in 1 .. Len(q) : q1[i] = q[i]
      /\ q1[Len(q) + 1] = p
      /\ q1 \in Seq(Message)
  BY AppendProperties, LenProperties
<1>2. Numbered(p, Start(n, m, q, Len(q) + 1))
      /\ next = Start(n, m, q, Len(q) + 1) + Len(p)
  BY DEF Intact
<1>3. \A i \in 1 .. Len(q) : q[i] # <<>> /\ Numbered(q[i], Start(n, m, q, i))
  BY DEF Intact
<1>4. Start(n, m, q, Len(q) + 1) \in Int
  BY <1>1, <1>3, StartTyped
<1>5. Len(p) \in Nat \ {0} /\ 1 \in 1 .. Len(p)
  BY EmptySeq DEF Message
<1>6. p[1].id = Start(n, m, q, Len(q) + 1)
  BY <1>2, <1>4, <1>5 DEF Numbered
<1> HIDE DEF q1
<1>7. \A i \in 1 .. Len(q) + 1 : Start(n, m, q1, i) = Start(n, m, q, i)
  BY StartAppend DEF q1
<1>8. Start(n, m, q1, Len(q1) + 1) = p[1].id + Len(p)
  BY <1>1, StartAppend DEF q1
<1>9. \A i \in 1 .. Len(q1) : q1[i] # <<>> /\ Numbered(q1[i], Start(n, m, q1, i))
  <2> SUFFICES ASSUME NEW i \in 1 .. Len(q1)
               PROVE q1[i] # <<>> /\ Numbered(q1[i], Start(n, m, q1, i))
    OBVIOUS
  <2>1. CASE i \in 1 .. Len(q)
    BY <2>1, <1>1, <1>3, <1>7
  <2>2. CASE i = Len(q) + 1
    BY <2>2, <1>1, <1>2, <1>7
  <2> QED
    BY <2>1, <2>2, <1>1
<1>10. Numbered(<<>>, Start(n, m, q1, Len(q1) + 1)) /\ Len(<<>>) = 0
  BY EmptySeq DEF Numbered
<1>11. QED
  BY <1>2, <1>4, <1>5, <1>6, <1>8, <1>9, <1>10 DEF Intact, q1

\* take: the queue's first message becomes the subscriber's buffer, drained before.
LEMMA IntactTake ==
    ASSUME NEW n \in Int, NEW q \in Seq(Message), NEW p \in Message, NEW next \in Nat,
           Intact(n, <<>>, q, p, next), q # <<>>
    PROVE  Intact(n, Head(q), Tail(q), p, next)
<1> DEFINE m1 == Head(q)
           q1 == Tail(q)
<1>1. /\ m1 = q[1] /\ m1 \in Seq(Event)
      /\ Len(q) \in Nat \ {0} /\ Len(q1) = Len(q) - 1
      /\ \A i \in 1 .. Len(q1) : q1[i] = q[i + 1]
  BY EmptySeq, HeadTailProperties DEF Message
<1>2. \A i \in 1 .. Len(q) : q[i] # <<>> /\ Numbered(q[i], Start(n, <<>>, q, i))
  BY DEF Intact
<1>3. Start(n, <<>>, q, 1) = n + 1
  BY EmptySeq DEF Start
<1>4. Numbered(m1, n + 1) /\ m1 # <<>>
  BY <1>1, <1>2, <1>3
<1>5. Len(m1) \in Nat \ {0} /\ m1[1].id = n + 1
  <2>1. Len(m1) \in Nat \ {0}
    BY <1>1, <1>4, EmptySeq
  <2>2. 1 \in 1 .. Len(m1)
    BY <2>1
  <2>3. m1[1].id = (n + 1) + 1 - 1
    BY <2>2, <1>4 DEF Numbered
  <2> QED
    BY <2>1, <2>3
<1> HIDE DEF m1, q1
<1>6. \A i \in 1 .. Len(q) : Start(n, m1, q1, i) = Start(n, <<>>, q, i + 1)
  BY <1>5, StartTake DEF m1, q1
<1>7. \A i \in 1 .. Len(q1) : q1[i] # <<>> /\ Numbered(q1[i], Start(n, m1, q1, i))
  BY <1>1, <1>2, <1>6
<1>8. Start(n, m1, q1, Len(q1) + 1) = Start(n, <<>>, q, Len(q) + 1)
  BY <1>1, <1>6
<1>9. QED
  BY <1>4, <1>7, <1>8 DEF Intact, m1, q1

\* popFront: the subscriber's first event is the next one, and now the last consumed.
LEMMA IntactPop ==
    ASSUME NEW n \in Int, NEW m \in Message, NEW q \in Seq(Message),
           NEW p \in Message, NEW next \in Nat,
           Intact(n, m, q, p, next), m # <<>>
    PROVE  Head(m).id = n + 1 /\ Intact(Head(m).id, Tail(m), q, p, next)
<1> DEFINE m1 == Tail(m)
<1>1. /\ Head(m) = m[1]
      /\ Len(m) \in Nat \ {0} /\ Len(m1) = Len(m) - 1
      /\ \A i \in 1 .. Len(m1) : m1[i] = m[i + 1]
  BY EmptySeq, HeadTailProperties DEF Message
<1> HIDE DEF m1
<1>2. \A i \in 1 .. Len(m) : m[i].id = (n + 1) + i - 1
  BY DEF Intact, Numbered
<1>3. Head(m).id = n + 1
  BY <1>1, <1>2
<1>4. Numbered(m1, n + 2)
  BY <1>1, <1>2 DEF Numbered
<1>5. \A i : Start(n + 1, m1, q, i) = Start(n, m, q, i)
  BY StartPop DEF m1
<1>6. Intact(n + 1, m1, q, p, next)
  <2>1. Numbered(m1, (n + 1) + 1)
    BY <1>4
  <2> QED
    BY <2>1, <1>5 DEF Intact
<1>7. QED
  BY <1>3, <1>6 DEF m1

------------------------------------------------------------------------------
(* The stream stays intact *)

\* What StreamIntact needs of the handshakes. A publisher leaves init() only once
\* it is linked and only its subscriber's end unlinks it, so publishCopyOf never
\* drops a sample of a subscriber that is there; and what it sends is not empty.
Attached(h) ==
    /\ pub[h] \in {"open", "closing", "closed"} => linked[h] \/ sub[h] = "gone"
    /\ linked[h] => sub[h] \in {"subscribed", "gone"}
    /\ flushing[h] => pub[h] = "open" /\ pubBuffer[h] # <<>>

IntactInv ==
    /\ TypeInv
    /\ \A h \in Harts : Attached(h)
    /\ StreamIntact

\* An empty stream is intact.
LEMMA IntactInit == Init => IntactInv
<1> SUFFICES ASSUME Init PROVE IntactInv
  OBVIOUS
<1>1. TypeInv
  BY TypeInit
<1>2. \A h \in Harts : Attached(h)
  BY DEF Init, Attached
<1>3. ASSUME NEW h \in Harts PROVE StreamIntactFor(h)
  <2>1. /\ seen[h] = -1 /\ nextId[h] = 0
        /\ subBuffer[h] = <<>> /\ queue[h] = <<>> /\ pubBuffer[h] = <<>>
    BY DEF Init
  <2>2. Len(<<>>) = 0
    BY EmptySeq
  <2>3. Start(-1, <<>>, <<>>, 1) = 0
    BY <2>2 DEF Start
  <2>4. Intact(-1, <<>>, <<>>, <<>>, 0)
    BY <2>2, <2>3 DEF Intact, Numbered
  <2> QED
    BY <2>1, <2>4 DEF StreamIntactFor
<1>4. QED
  BY <1>1, <1>2, <1>3 DEF IntactInv, StreamIntact

\* A step touches the stream of one hart only; the other harts keep theirs.
Others(h) == \A g \in Harts \ {h} :
    /\ pub'[g] = pub[g] /\ sub'[g] = sub[g] /\ linked'[g] = linked[g]
    /\ pubBuffer'[g] = pubBuffer[g] /\ flushing'[g] = flushing[g]
    /\ queue'[g] = queue[g] /\ subBuffer'[g] = subBuffer[g]
    /\ nextId'[g] = nextId[g] /\ seen'[g] = seen[g]

\* So a step of hart h need only be shown to keep the two claims about h.
LEMMA OneHart ==
    ASSUME IntactInv, TypeInv', NEW h \in Harts, Others(h),
           Attached(h)', (sub[h] # "gone" => StreamIntactFor(h))'
    PROVE  IntactInv'
<1>1. ASSUME NEW g \in Harts PROVE Attached(g)' /\ (sub[g] # "gone" => StreamIntactFor(g))'
  <2>1. CASE g = h
    BY <2>1
  <2>2. CASE g # h
    BY <2>2 DEF Others, IntactInv, StreamIntact, Attached, StreamIntactFor
  <2> QED
    BY <2>1, <2>2
<1>2. QED
  BY <1>1 DEF IntactInv, StreamIntact

\* No step of publisher, queue or subscriber breaks the stream.
LEMMA IntactStep == IntactInv /\ [ChannelNext]_channelVars => IntactInv'
<1> SUFFICES ASSUME IntactInv, [ChannelNext]_channelVars PROVE IntactInv'
  OBVIOUS
<1>t. TypeInv /\ TypeInv'
  BY TypeStep DEF IntactInv
<1>u. TypeOK
  BY <1>t DEF TypeInv
<1>a. ASSUME NEW h \in Harts PROVE Attached(h) /\ (sub[h] # "gone" => StreamIntactFor(h))
  BY <1>a DEF IntactInv, StreamIntact
<1>1. CASE UNCHANGED channelVars
  BY <1>1, <1>t, <1>a
     DEF channelVars, IntactInv, StreamIntact, StreamIntactFor, Attached
<1>2. ASSUME NEW h \in Harts, NewSubscriber(h) \/ Subscribed(h) \/ Unsubscribe(h)
      PROVE IntactInv'
  <2>1. Others(h) /\ UNCHANGED <<seen, subBuffer, queue, pubBuffer, nextId>>
    BY <1>2, <1>u DEF NewSubscriber, Subscribed, Unsubscribe, Others, TypeOK, pubVars
  <2>2. Attached(h)'
    BY <1>2, <1>u, <1>a
       DEF NewSubscriber, Subscribed, Unsubscribe, Attached, TypeOK, pubVars
  <2>3. (sub[h] # "gone" => StreamIntactFor(h))'
    BY <1>2, <1>u, <1>a, <2>1
       DEF NewSubscriber, Subscribed, Unsubscribe, StreamIntactFor, TypeOK
  <2> QED
    BY <1>t, <2>1, <2>2, <2>3, OneHart
<1>3. ASSUME NEW h \in Harts, RouDiStep(h) PROVE IntactInv'
  <2>1. Others(h) /\ UNCHANGED <<pub, sub, flushing, seen, subBuffer, queue, pubBuffer, nextId>>
    BY <1>3, <1>u DEF RouDiStep, Link, Unlink, Others, TypeOK, pubVars, subVars
  <2>2. Attached(h)'
    BY <1>3, <1>u, <1>a, <2>1 DEF RouDiStep, Link, Unlink, Attached, TypeOK
  <2>3. (sub[h] # "gone" => StreamIntactFor(h))'
    BY <1>a, <2>1 DEF StreamIntactFor
  <2> QED
    BY <1>t, <2>1, <2>2, <2>3, OneHart
<1>4. ASSUME NEW h \in Harts,
             NewPublisher(h) \/ PublisherReady(h) \/ Shutdown(h) \/ StopOffer(h)
      PROVE IntactInv'
  <2>1. /\ Others(h)
        /\ UNCHANGED <<sub, linked, flushing, seen, subBuffer, queue, pubBuffer, nextId>>
    BY <1>4, <1>u
       DEF NewPublisher, PublisherReady, Shutdown, StopOffer, Others, TypeOK, subVars
  <2>2. Attached(h)'
    BY <1>4, <1>u, <1>a, <2>1
       DEF NewPublisher, PublisherReady, Shutdown, StopOffer, Attached, TypeOK
  <2>3. (sub[h] # "gone" => StreamIntactFor(h))'
    BY <1>a, <2>1 DEF StreamIntactFor
  <2> QED
    BY <1>t, <2>1, <2>2, <2>3, OneHart
<1>5. ASSUME NEW h \in Harts, Take(h) PROVE IntactInv'
  <2>1. /\ Others(h) /\ UNCHANGED <<pub, sub, linked, flushing, pubBuffer, seen, nextId>>
        /\ subBuffer[h] = <<>> /\ queue[h] # <<>> /\ sub[h] = "subscribed"
        /\ subBuffer'[h] = Head(queue[h]) /\ queue'[h] = Tail(queue[h])
    BY <1>5, <1>u DEF Take, TakeMessage, Others, TypeOK, pubVars
  <2>2. Attached(h)'
    BY <1>a, <2>1 DEF Attached
  <2>3. /\ seen[h] \in Int /\ queue[h] \in Seq(Message)
        /\ pubBuffer[h] \in Message /\ nextId[h] \in Nat
    BY <1>u DEF TypeOK
  <2>4. Intact(seen[h], <<>>, queue[h], pubBuffer[h], nextId[h])
    BY <1>a, <2>1 DEF StreamIntactFor
  <2>5. Intact(seen[h], Head(queue[h]), Tail(queue[h]), pubBuffer[h], nextId[h])
    BY <2>1, <2>3, <2>4, IntactTake
  <2>6. StreamIntactFor(h)'
    BY <2>1, <2>5 DEF StreamIntactFor
  <2> QED
    BY <1>t, <2>1, <2>2, <2>6, OneHart
<1>6. ASSUME NEW h \in Harts, PopFront(h) PROVE IntactInv'
  <2>1. /\ Others(h) /\ UNCHANGED <<pub, sub, linked, flushing, pubBuffer, queue, nextId>>
        /\ subBuffer[h] # <<>> /\ sub[h] = "subscribed"
        /\ subBuffer'[h] = Tail(subBuffer[h]) /\ seen'[h] = Head(subBuffer[h]).id
    BY <1>6, <1>u DEF PopFront, Others, TypeOK, pubVars
  <2>2. Attached(h)'
    BY <1>a, <2>1 DEF Attached
  <2>3. /\ seen[h] \in Int /\ queue[h] \in Seq(Message) /\ subBuffer[h] \in Message
        /\ pubBuffer[h] \in Message /\ nextId[h] \in Nat
    BY <1>u DEF TypeOK
  <2>4. Intact(seen[h], subBuffer[h], queue[h], pubBuffer[h], nextId[h])
    BY <1>a, <2>1 DEF StreamIntactFor
  <2>5. Intact(Head(subBuffer[h]).id, Tail(subBuffer[h]), queue[h], pubBuffer[h], nextId[h])
    BY <2>1, <2>3, <2>4, IntactPop
  <2>6. StreamIntactFor(h)'
    BY <2>1, <2>5 DEF StreamIntactFor
  <2> QED
    BY <1>t, <2>1, <2>2, <2>6, OneHart
<1>7. ASSUME NEW h \in Harts, NEW data \in Payload, NEW force \in BOOLEAN,
             Publish(h, data, force)
      PROVE IntactInv'
  <2> DEFINE event == [id |-> nextId[h], data |-> data]
  <2>0. /\ nextId' = [nextId EXCEPT ![h] = @ + 1]
        /\ pubBuffer' = [pubBuffer EXCEPT ![h] = Append(pubBuffer[h], event)]
        /\ \E f : flushing' = [flushing EXCEPT ![h] = f]
        /\ UNCHANGED <<pub, sub, linked, subBuffer, seen, queue>>
        /\ pub[h] = "open"
    BY <1>7 DEF Publish, subVars
  <2>3. /\ seen[h] \in Int /\ queue[h] \in Seq(Message) /\ subBuffer[h] \in Message
        /\ pubBuffer[h] \in Message /\ nextId[h] \in Nat
    BY <1>u DEF TypeOK
  <2>4. event \in Event /\ event.id = nextId[h]
    BY <2>3 DEF Event
  <2> HIDE DEF event
  <2>1. /\ Others(h)
        /\ nextId'[h] = nextId[h] + 1 /\ pubBuffer'[h] = Append(pubBuffer[h], event)
    BY <2>0, <1>u DEF Others, TypeOK
  <2>2. Attached(h)'
    <3>1. Append(pubBuffer[h], event) # <<>>
      <4>1. Len(Append(pubBuffer[h], event)) = Len(pubBuffer[h]) + 1
        BY <2>3, <2>4, AppendProperties DEF Message
      <4>2. Len(pubBuffer[h]) \in Nat /\ Len(<<>>) = 0
        BY <2>3, EmptySeq, LenProperties DEF Message
      <4>3. Len(Append(pubBuffer[h], event)) # Len(<<>>)
        BY <4>1, <4>2
      <4> QED
        BY <4>3, Zenon
    <3> QED
      BY <1>a, <2>0, <2>1, <3>1 DEF Attached
  <2>5. sub[h] # "gone" =>
            Intact(seen[h], subBuffer[h], queue[h], pubBuffer'[h], nextId'[h])
    BY <1>a, <2>1, <2>3, <2>4, IntactPublish DEF StreamIntactFor
  <2>6. (sub[h] # "gone" => StreamIntactFor(h))'
    BY <2>0, <2>5 DEF StreamIntactFor
  <2> QED
    BY <1>t, <2>1, <2>2, <2>6, OneHart
<1>8. ASSUME NEW h \in Harts, Flush(h) PROVE IntactInv'
  <2>1. /\ flushing[h] /\ flushing'[h] = FALSE /\ pubBuffer'[h] = <<>>
        /\ UNCHANGED <<pub, sub, linked, subBuffer, seen, nextId>>
    BY <1>8, <1>u DEF Flush, TypeOK, subVars
  <2>2. Others(h)
    BY <1>8, <1>u DEF Flush, Deliver, Others, TypeOK, subVars
  <2>3. Attached(h)'
    BY <1>a, <2>1 DEF Attached
  <2>4. /\ seen[h] \in Int /\ queue[h] \in Seq(Message) /\ subBuffer[h] \in Message
        /\ pubBuffer[h] \in Message /\ nextId[h] \in Nat
    BY <1>u DEF TypeOK
  <2>5. (sub[h] # "gone" => StreamIntactFor(h))'
    <3> SUFFICES ASSUME sub[h] # "gone" PROVE StreamIntactFor(h)'
      BY <2>1
    <3>1. linked[h] /\ pubBuffer[h] # <<>>
      BY <1>a, <2>1 DEF Attached
    <3>2. queue'[h] = Append(queue[h], pubBuffer[h])
      BY <1>8, <1>u, <3>1 DEF Flush, Deliver, TypeOK
    <3>3. Intact(seen[h], subBuffer[h], Append(queue[h], pubBuffer[h]), <<>>, nextId[h])
      BY <1>a, <2>4, <3>1, IntactFlush DEF StreamIntactFor
    <3> QED
      BY <2>1, <3>2, <3>3 DEF StreamIntactFor
  <2> QED
    BY <1>t, <2>2, <2>3, <2>5, OneHart
<1>9. QED
  BY <1>1, <1>2, <1>3, <1>4, <1>5, <1>6, <1>7, <1>8
     DEF ChannelNext, ChannelStep, SubscriberStep, PublishAny, PublisherStep

\* The transport loses, repeats and reorders nothing, whatever the number of
\* harts, the batch size and the capacity of the queue.
THEOREM StreamStaysIntact == ChannelSpec => []StreamIntact
<1>1. IntactInv => StreamIntact
  BY DEF IntactInv
<1>2. QED
  BY <1>1, IntactInit, IntactStep, PTL DEF ChannelSpec

------------------------------------------------------------------------------
(* EventChannel implements EventStream. That events arrive in order follows    *)
(* from StreamIntact; that the emulator runs ahead by less than the window     *)
(* needs a bound on how far the numbers in the queue reach.                    *)

\* The publisher's next message starts no earlier than any message in the queue,
\* and at most a batch per message later.
Close(n, m, q) == \A i \in 1 .. Len(q) + 1 :
    /\ Start(n, m, q, i) <= Start(n, m, q, Len(q) + 1)
    /\ Start(n, m, q, Len(q) + 1) - Start(n, m, q, i) <= (Len(q) + 1 - i) * BatchSize

\* No message outgrows a batch, wherever it is.
Batches(m, q) == /\ Len(m) <= BatchSize
                 /\ \A i \in 1 .. Len(q) : Len(q[i]) <= BatchSize

\* What the window needs to know of hart h, and that only an attached subscriber
\* has been sent anything.
Held(h) ==
    /\ Batches(subBuffer[h], queue[h])
    /\ sub[h] # "gone" => Close(seen[h], subBuffer[h], queue[h])
    /\ subBuffer[h] # <<>> \/ queue[h] # <<>> => linked[h] \/ sub[h] = "gone"

WindowInv == IntactInv /\ \A h \in Harts : Held(h)

------------------------------------------------------------------------------
(* The operations on the queue keep numbers close *)

\* A product grows by one factor when the other grows by one.
LEMMA Times == \A a \in Int, b \in Nat : (a + 1) * b = a * b + b
OBVIOUS

\* The number the publisher's buffer starts at is an integer.
LEMMA NextTyped ==
    ASSUME NEW n \in Int, NEW m \in Message, NEW q \in Seq(Message),
           \A i \in 1 .. Len(q) : q[i] # <<>>
    PROVE  Start(n, m, q, Len(q) + 1) \in Int
<1>1. Len(q) \in Nat
  BY LenProperties
<1>2. Len(q) + 1 \in 1 .. Len(q) + 1
  BY <1>1
<1>3. QED
  BY <1>2, StartTyped

\* The publisher's buffer joins the queue.
LEMMA CloseAppend ==
    ASSUME NEW n \in Int, NEW m \in Message, NEW q \in Seq(Message),
           NEW p \in Message, p # <<>>, Len(p) <= BatchSize,
           \A i \in 1 .. Len(q) : q[i] # <<>>,
           p[1].id = Start(n, m, q, Len(q) + 1), Close(n, m, q)
    PROVE  Close(n, m, Append(q, p))
<1> DEFINE q1 == Append(q, p)
           S(i) == Start(n, m, q, i)
<1>1. Len(q1) = Len(q) + 1 /\ Len(q) \in Nat /\ Len(p) \in Nat
  BY AppendProperties, LenProperties DEF Message
<1>2. \A i \in 1 .. Len(q) + 1 : S(i) \in Int
  BY StartTyped
<1>3. /\ \A i \in 1 .. Len(q) + 1 : Start(n, m, q1, i) = S(i)
      /\ Start(n, m, q1, Len(q) + 2) = S(Len(q) + 1) + Len(p)
  BY StartAppend
<1>4. \A i \in 1 .. Len(q) + 1 :
         S(i) <= S(Len(q) + 1) /\ S(Len(q) + 1) - S(i) <= (Len(q) + 1 - i) * BatchSize
  BY DEF Close
<1> HIDE DEF q1, S
<1>5. ASSUME NEW i \in 1 .. Len(q1) + 1
      PROVE  /\ Start(n, m, q1, i) <= Start(n, m, q1, Len(q1) + 1)
             /\ Start(n, m, q1, Len(q1) + 1) - Start(n, m, q1, i)
                    <= (Len(q1) + 1 - i) * BatchSize
  <2>1. CASE i = Len(q) + 2
    <3>1. S(Len(q) + 1) + Len(p) \in Int
      BY <1>1, <1>2
    <3>2. Len(q1) + 1 - i = 0 /\ 0 * BatchSize = 0
      BY <1>1, <2>1, BatchAssumption
    <3> QED
      BY <1>1, <1>3, <2>1, <3>1, <3>2
  <2>2. CASE i \in 1 .. Len(q) + 1
    <3>1. (Len(q1) + 1 - i) * BatchSize = (Len(q) + 1 - i) * BatchSize + BatchSize
      <4>1. Len(q) + 1 - i \in Int /\ Len(q1) + 1 - i = (Len(q) + 1 - i) + 1
        BY <1>1, <2>2
      <4> QED
        BY <4>1, Times, BatchAssumption
    <3>2. (Len(q) + 1 - i) * BatchSize \in Int
      BY <1>1, <2>2, BatchAssumption
    <3>3. S(Len(q) + 1) \in Int /\ S(i) \in Int
      BY <1>1, <1>2, <2>2
    <3>4. Start(n, m, q1, Len(q1) + 1) = S(Len(q) + 1) + Len(p)
      BY <1>1, <1>3
    <3>5. Start(n, m, q1, i) = S(i)
      BY <1>3, <2>2
    <3>6. S(i) <= S(Len(q) + 1) /\ S(Len(q) + 1) - S(i) <= (Len(q) + 1 - i) * BatchSize
      BY <1>4, <2>2
    <3> DEFINE far == (Len(q) + 1 - i) * BatchSize
    <3> HIDE DEF far
    <3>7. /\ S(i) <= S(Len(q) + 1) + Len(p)
          /\ (S(Len(q) + 1) + Len(p)) - S(i) <= far + BatchSize
      BY <1>1, <3>2, <3>3, <3>6, BatchAssumption DEF far
    <3>8. Start(n, m, q1, Len(q1) + 1) - Start(n, m, q1, i) = (S(Len(q) + 1) + Len(p)) - S(i)
      BY <3>4, <3>5, Zenon
    <3>9. (Len(q1) + 1 - i) * BatchSize = far + BatchSize
      BY <3>1 DEF far
    <3> QED
      BY <3>4, <3>5, <3>7, <3>8, <3>9, Zenon
  <2> QED
    BY <1>1, <2>1, <2>2
<1>6. QED
  BY <1>5 DEF Close, q1

\* The first message moves to the drained subscriber.
LEMMA CloseTake ==
    ASSUME NEW n \in Int, NEW q \in Seq(Message), q # <<>>,
           Head(q)[1].id = n + 1, Close(n, <<>>, q)
    PROVE  Close(n, Head(q), Tail(q))
<1> DEFINE q1 == Tail(q)
<1>1. Len(q) \in Nat \ {0} /\ Len(q1) = Len(q) - 1
  BY EmptySeq, HeadTailProperties
<1>2. \A i \in 1 .. Len(q) : Start(n, Head(q), q1, i) = Start(n, <<>>, q, i + 1)
  BY StartTake
<1> HIDE DEF q1
<1>3. ASSUME NEW i \in 1 .. Len(q1) + 1
      PROVE  /\ Start(n, Head(q), q1, i) <= Start(n, Head(q), q1, Len(q1) + 1)
             /\ Start(n, Head(q), q1, Len(q1) + 1) - Start(n, Head(q), q1, i)
                    <= (Len(q1) + 1 - i) * BatchSize
  <2>1. /\ Start(n, Head(q), q1, Len(q1) + 1) = Start(n, <<>>, q, Len(q) + 1)
        /\ Start(n, Head(q), q1, i) = Start(n, <<>>, q, i + 1)
    BY <1>1, <1>2
  <2>2. i + 1 \in 1 .. Len(q) + 1 /\ Len(q1) + 1 - i = Len(q) + 1 - (i + 1)
    BY <1>1
  <2>3. /\ Start(n, <<>>, q, i + 1) <= Start(n, <<>>, q, Len(q) + 1)
        /\ Start(n, <<>>, q, Len(q) + 1) - Start(n, <<>>, q, i + 1)
               <= (Len(q) + 1 - (i + 1)) * BatchSize
    BY <2>2 DEF Close
  <2> QED
    BY <2>1, <2>2, <2>3
<1>4. QED
  BY <1>3 DEF Close, q1

\* The subscriber pops an event.
LEMMA ClosePop ==
    ASSUME NEW n \in Int, NEW m \in Message, NEW q, m # <<>>, Close(n, m, q)
    PROVE  Close(n + 1, Tail(m), q)
BY StartPop DEF Close

------------------------------------------------------------------------------
(* The invariant *)

\* Nothing is held and nothing was sent.
LEMMA WindowInit == Init => WindowInv
<1> SUFFICES ASSUME Init PROVE WindowInv
  OBVIOUS
<1>1. ASSUME NEW h \in Harts PROVE Held(h)
  <2>1. seen[h] = -1 /\ subBuffer[h] = <<>> /\ queue[h] = <<>>
    BY DEF Init
  <2>2. Len(<<>>) = 0
    BY EmptySeq
  <2>3. Start(-1, <<>>, <<>>, 1) = 0
    BY <2>2 DEF Start
  <2>4. Close(-1, <<>>, <<>>)
    BY <2>2, <2>3, BatchAssumption DEF Close
  <2> QED
    BY <2>1, <2>2, <2>4, BatchAssumption DEF Held, Batches
<1>2. QED
  BY <1>1, IntactInit DEF WindowInv

\* A step of hart h need only be shown to keep the claim about h.
LEMMA OneHartHeld ==
    ASSUME WindowInv, IntactInv', NEW h \in Harts, Others(h), Held(h)'
    PROVE  WindowInv'
<1>1. ASSUME NEW g \in Harts PROVE Held(g)'
  <2>1. CASE g = h
    BY <2>1
  <2>2. CASE g # h
    BY <2>2 DEF Others, WindowInv, Held
  <2> QED
    BY <2>1, <2>2
<1>2. QED
  BY <1>1 DEF WindowInv

\* Every step keeps batches short and numbers close.
LEMMA WindowStep == WindowInv /\ [ChannelNext]_channelVars => WindowInv'
<1> SUFFICES ASSUME WindowInv, [ChannelNext]_channelVars PROVE WindowInv'
  OBVIOUS
<1>i. IntactInv /\ IntactInv'
  BY IntactStep DEF WindowInv
<1>u. TypeOK
  BY <1>i DEF IntactInv, TypeInv
<1>a. ASSUME NEW h \in Harts
      PROVE  Held(h) /\ Attached(h) /\ (sub[h] # "gone" => StreamIntactFor(h))
  BY <1>i DEF WindowInv, IntactInv, StreamIntact
<1>t. ASSUME NEW h \in Harts
      PROVE  /\ seen[h] \in Int /\ queue[h] \in Seq(Message) /\ subBuffer[h] \in Message
             /\ pubBuffer[h] \in Message /\ nextId[h] \in Nat
             /\ Len(pubBuffer[h]) <= BatchSize
  BY <1>u DEF TypeOK
<1>1. CASE UNCHANGED channelVars
  BY <1>1, <1>i DEF channelVars, WindowInv, Held
<1>2. ASSUME NEW h \in Harts, NewSubscriber(h) \/ Subscribed(h) \/ Unsubscribe(h)
      PROVE WindowInv'
  <2>1. Others(h) /\ UNCHANGED <<seen, subBuffer, queue, linked>>
    BY <1>2, <1>u DEF NewSubscriber, Subscribed, Unsubscribe, Others, TypeOK, pubVars
  <2>2. Held(h)'
    BY <1>2, <1>u, <1>a, <2>1 DEF NewSubscriber, Subscribed, Unsubscribe, Held, TypeOK
  <2> QED
    BY <1>i, <2>1, <2>2, OneHartHeld
<1>3. ASSUME NEW h \in Harts, RouDiStep(h) PROVE WindowInv'
  <2>1. Others(h) /\ UNCHANGED <<seen, subBuffer, queue, sub>>
    BY <1>3, <1>u DEF RouDiStep, Link, Unlink, Others, TypeOK, pubVars, subVars
  <2>2. Held(h)'
    BY <1>3, <1>u, <1>a, <2>1 DEF RouDiStep, Link, Unlink, Held, TypeOK
  <2> QED
    BY <1>i, <2>1, <2>2, OneHartHeld
<1>4. ASSUME NEW h \in Harts,
             NewPublisher(h) \/ PublisherReady(h) \/ Shutdown(h) \/ StopOffer(h)
      PROVE WindowInv'
  <2>1. Others(h) /\ UNCHANGED <<seen, subBuffer, queue, sub, linked>>
    BY <1>4, <1>u
       DEF NewPublisher, PublisherReady, Shutdown, StopOffer, Others, TypeOK, subVars
  <2>2. Held(h)'
    BY <1>a, <2>1 DEF Held
  <2> QED
    BY <1>i, <2>1, <2>2, OneHartHeld
<1>5. ASSUME NEW h \in Harts, Take(h) PROVE WindowInv'
  <2>1. /\ Others(h) /\ UNCHANGED <<sub, linked, seen>>
        /\ subBuffer[h] = <<>> /\ queue[h] # <<>> /\ sub[h] = "subscribed"
        /\ subBuffer'[h] = Head(queue[h]) /\ queue'[h] = Tail(queue[h])
    BY <1>5, <1>u DEF Take, TakeMessage, Others, TypeOK, pubVars
  <2>2. /\ Head(queue[h]) = queue[h][1] /\ Len(queue[h]) \in Nat \ {0}
        /\ Len(Tail(queue[h])) = Len(queue[h]) - 1
        /\ \A i \in 1 .. Len(Tail(queue[h])) : Tail(queue[h])[i] = queue[h][i + 1]
    BY <1>t, <2>1, EmptySeq, HeadTailProperties
  <2>3. Batches(Head(queue[h]), Tail(queue[h]))
    <3>1. \A i \in 1 .. Len(queue[h]) : Len(queue[h][i]) <= BatchSize
      BY <1>a DEF Held, Batches
    <3>2. Len(Head(queue[h])) <= BatchSize
      BY <2>2, <3>1
    <3>3. ASSUME NEW i \in 1 .. Len(Tail(queue[h]))
          PROVE  Len(Tail(queue[h])[i]) <= BatchSize
      <4>1. i + 1 \in 1 .. Len(queue[h])
        BY <2>2
      <4> QED
        BY <2>2, <3>1, <4>1
    <3> QED
      BY <3>2, <3>3 DEF Batches
  <2>4. Head(queue[h])[1].id = seen[h] + 1
    <3>1. Intact(seen[h], <<>>, queue[h], pubBuffer[h], nextId[h])
      BY <1>a, <2>1 DEF StreamIntactFor
    <3>2. Start(seen[h], <<>>, queue[h], 1) = seen[h] + 1
      BY <1>t, EmptySeq DEF Start
    <3>3. 1 \in 1 .. Len(queue[h])
      BY <2>2
    <3>4. queue[h][1] # <<>> /\ Numbered(queue[h][1], seen[h] + 1)
      BY <3>1, <3>2, <3>3 DEF Intact
    <3>5. queue[h][1] \in Seq(Event)
      BY <1>t, <3>3, ElementOfSeq DEF Message
    <3>6. 1 \in 1 .. Len(queue[h][1])
      BY <3>4, <3>5, EmptySeq, LenProperties
    <3>7. queue[h][1][1].id = (seen[h] + 1) + 1 - 1
      BY <3>4, <3>6 DEF Numbered
    <3> QED
      BY <1>t, <2>2, <3>7
  <2>5. Close(seen[h], Head(queue[h]), Tail(queue[h]))
    BY <1>a, <1>t, <2>1, <2>4, CloseTake DEF Held
  <2>6. Held(h)'
    BY <1>a, <2>1, <2>3, <2>5 DEF Held
  <2> QED
    BY <1>i, <2>1, <2>6, OneHartHeld
<1>6. ASSUME NEW h \in Harts, PopFront(h) PROVE WindowInv'
  <2>1. /\ Others(h) /\ UNCHANGED <<sub, linked, queue>>
        /\ subBuffer[h] # <<>> /\ sub[h] = "subscribed"
        /\ subBuffer'[h] = Tail(subBuffer[h]) /\ seen'[h] = Head(subBuffer[h]).id
    BY <1>6, <1>u DEF PopFront, Others, TypeOK, pubVars
  <2>2. Len(Tail(subBuffer[h])) = Len(subBuffer[h]) - 1 /\ Len(subBuffer[h]) \in Nat
    BY <1>t, <2>1, HeadTailProperties, LenProperties DEF Message
  <2>3. Head(subBuffer[h]).id = seen[h] + 1
    BY <1>a, <1>t, <2>1, IntactPop DEF StreamIntactFor
  <2>4. Close(seen'[h], Tail(subBuffer[h]), queue[h])
    BY <1>a, <1>t, <2>1, <2>3, ClosePop DEF Held
  <2>5. Batches(Tail(subBuffer[h]), queue[h])
    BY <1>a, <2>2, BatchAssumption DEF Held, Batches
  <2>6. Held(h)'
    BY <1>a, <2>1, <2>4, <2>5 DEF Held
  <2> QED
    BY <1>i, <2>1, <2>6, OneHartHeld
<1>7. ASSUME NEW h \in Harts, NEW data \in Payload, NEW force \in BOOLEAN,
             Publish(h, data, force)
      PROVE WindowInv'
  <2>1. Others(h) /\ UNCHANGED <<seen, subBuffer, queue, sub, linked>>
    BY <1>7, <1>u DEF Publish, Others, TypeOK, subVars
  <2>2. Held(h)'
    BY <1>a, <2>1 DEF Held
  <2> QED
    BY <1>i, <2>1, <2>2, OneHartHeld
<1>8. ASSUME NEW h \in Harts, Flush(h) PROVE WindowInv'
  <2>1. /\ flushing[h] /\ UNCHANGED <<sub, linked, subBuffer, seen>>
        /\ Others(h)
    BY <1>8, <1>u DEF Flush, Deliver, Others, TypeOK, subVars
  <2>2. CASE UNCHANGED queue
    <3>1. Held(h)'
      BY <1>a, <2>1, <2>2 DEF Held
    <3> QED
      BY <1>i, <2>1, <3>1, OneHartHeld
  <2>3. CASE linked[h] /\ queue' = [queue EXCEPT ![h] = Append(@, pubBuffer[h])]
    <3>1. queue'[h] = Append(queue[h], pubBuffer[h])
      BY <2>3, <1>u DEF TypeOK
    <3>2. pubBuffer[h] # <<>>
      BY <1>a, <2>1 DEF Attached
    <3>3. Batches(subBuffer[h], queue'[h])
      <4>1. /\ Len(queue'[h]) = Len(queue[h]) + 1 /\ Len(queue[h]) \in Nat
            /\ \A i \in 1 .. Len(queue[h]) : queue'[h][i] = queue[h][i]
            /\ queue'[h][Len(queue[h]) + 1] = pubBuffer[h]
        BY <1>t, <3>1, AppendProperties, LenProperties
      <4>2. /\ Len(subBuffer[h]) <= BatchSize
            /\ \A i \in 1 .. Len(queue[h]) : Len(queue[h][i]) <= BatchSize
        BY <1>a DEF Held, Batches
      <4>3. ASSUME NEW i \in 1 .. Len(queue'[h]) PROVE Len(queue'[h][i]) <= BatchSize
        <5>1. CASE i \in 1 .. Len(queue[h])
          BY <4>1, <4>2, <5>1
        <5>2. CASE i = Len(queue[h]) + 1
          BY <1>t, <4>1, <5>2
        <5> QED
          BY <4>1, <5>1, <5>2
      <4> QED
        BY <4>2, <4>3 DEF Batches
    <3>4. ASSUME sub[h] # "gone" PROVE Close(seen[h], subBuffer[h], queue'[h])
      <4>1. Intact(seen[h], subBuffer[h], queue[h], pubBuffer[h], nextId[h])
        BY <1>a, <3>4 DEF StreamIntactFor
      <4>2. \A i \in 1 .. Len(queue[h]) : queue[h][i] # <<>>
        BY <4>1 DEF Intact
      <4>3. pubBuffer[h][1].id = Start(seen[h], subBuffer[h], queue[h], Len(queue[h]) + 1)
        <5> DEFINE s == Start(seen[h], subBuffer[h], queue[h], Len(queue[h]) + 1)
        <5>1. Numbered(pubBuffer[h], s)
          BY <4>1 DEF Intact
        <5>2. s \in Int
          BY <1>t, <4>2, NextTyped
        <5>3. 1 \in 1 .. Len(pubBuffer[h])
          BY <1>t, <3>2, EmptySeq, LenProperties DEF Message
        <5> HIDE DEF s
        <5> QED
          BY <5>1, <5>2, <5>3 DEF Numbered, s
      <4>4. Close(seen[h], subBuffer[h], queue[h])
        BY <1>a, <3>4 DEF Held
      <4> QED
        BY <1>t, <3>1, <3>2, <4>2, <4>3, <4>4, CloseAppend
    <3>5. Held(h)'
      BY <2>1, <2>3, <3>3, <3>4 DEF Held
    <3> QED
      BY <1>i, <2>1, <3>5, OneHartHeld
  <2> QED
    BY <1>8, <2>2, <2>3 DEF Flush, Deliver
<1>9. QED
  BY <1>1, <1>2, <1>3, <1>4, <1>5, <1>6, <1>7, <1>8
     DEF ChannelNext, ChannelStep, SubscriberStep, PublishAny, PublisherStep

------------------------------------------------------------------------------
(* Steps of the channel are steps of the stream *)

\* A publisher that may append is less than a window ahead of its subscriber.
LEMMA WithinWindow ==
    ASSUME WindowInv, NEW h \in Harts, sub[h] # "gone", ~flushing[h]
    PROVE  nextId[h] - (seen[h] + 1) < (QueueCapacity + 2) * BatchSize
<1> DEFINE k == Len(queue[h])
           last == Start(seen[h], subBuffer[h], queue[h], k + 1)
<1>1. /\ seen[h] \in Int /\ queue[h] \in Seq(Message) /\ subBuffer[h] \in Message
      /\ pubBuffer[h] \in Message /\ nextId[h] \in Nat
      /\ Len(pubBuffer[h]) < BatchSize /\ k <= QueueCapacity
  BY DEF WindowInv, IntactInv, TypeInv, TypeOK
<1>2. k \in Nat /\ Len(subBuffer[h]) \in Nat /\ Len(pubBuffer[h]) \in Nat
  BY <1>1, LenProperties DEF Message
<1>3. Intact(seen[h], subBuffer[h], queue[h], pubBuffer[h], nextId[h])
  BY DEF WindowInv, IntactInv, StreamIntact, StreamIntactFor
<1>4. nextId[h] = last + Len(pubBuffer[h])
  BY <1>3 DEF Intact
<1>5. last \in Int
  <2>1. \A i \in 1 .. k : queue[h][i] # <<>>
    BY <1>3 DEF Intact
  <2> QED
    BY <1>1, <2>1, NextTyped
<1>6. Len(subBuffer[h]) <= BatchSize /\ Close(seen[h], subBuffer[h], queue[h])
  BY DEF WindowInv, Held, Batches
<1>7. last - Start(seen[h], subBuffer[h], queue[h], 1) <= (k + 1 - 1) * BatchSize
  BY <1>2, <1>6 DEF Close
<1>8. Start(seen[h], subBuffer[h], queue[h], 1) = seen[h] + 1 + Len(subBuffer[h])
  BY DEF Start
<1>9. k * BatchSize <= QueueCapacity * BatchSize
  <2>1. \A a, b, c \in Nat : a <= b => a * c <= b * c
    OBVIOUS
  <2> QED
    BY <1>1, <1>2, <2>1, BatchAssumption, QueueAssumption
<1>10. (QueueCapacity + 2) * BatchSize = QueueCapacity * BatchSize + 2 * BatchSize
  <2>1. \A a, b \in Nat : (a + 2) * b = a * b + 2 * b
    OBVIOUS
  <2> QED
    BY <2>1, BatchAssumption, QueueAssumption
<1> DEFINE full == QueueCapacity * BatchSize
           held == k * BatchSize
<1>11. full \in Nat /\ held \in Nat
  BY <1>2, BatchAssumption, QueueAssumption
<1>12. last - (seen[h] + 1 + Len(subBuffer[h])) <= held
  <2>1. k + 1 - 1 = k
    BY <1>2
  <2> QED
    BY <1>7, <1>8, <2>1
<1> HIDE DEF last, k, full, held
<1>13. held <= full
  BY <1>9 DEF full, held
<1>14. nextId[h] - (seen[h] + 1) < full + 2 * BatchSize
  <2>1. nextId[h] = last + Len(pubBuffer[h]) /\ last - (seen[h] + 1 + Len(subBuffer[h])) <= full
    BY <1>1, <1>2, <1>4, <1>5, <1>11, <1>12, <1>13
  <2>2. Len(pubBuffer[h]) < BatchSize /\ Len(subBuffer[h]) <= BatchSize
    BY <1>1, <1>6
  <2>3. /\ nextId[h] \in Int /\ seen[h] \in Int /\ last \in Int /\ full \in Int
        /\ Len(pubBuffer[h]) \in Int /\ Len(subBuffer[h]) \in Int /\ BatchSize \in Int
    BY <1>1, <1>2, <1>5, <1>11, BatchAssumption
  <2>4. ASSUME NEW n \in Int, NEW e \in Int, NEW l \in Int, NEW w \in Int, NEW p \in Int,
               NEW m \in Int, NEW b \in Int,
               n = l + p, l - (e + 1 + m) <= w, p < b, m <= b
        PROVE  n - (e + 1) < w + 2 * b
    BY <2>4
  <2> QED
    BY <2>1, <2>2, <2>3, <2>4
<1>15. QED
  BY <1>10, <1>14 DEF full

\* An event that the subscriber holds has been published.
LEMMA HeldPublished ==
    ASSUME WindowInv, NEW h \in Harts, sub[h] # "gone", subBuffer[h] # <<>>
    PROVE  seen[h] + 1 < nextId[h]
<1> DEFINE k == Len(queue[h])
           last == Start(seen[h], subBuffer[h], queue[h], k + 1)
<1>1. /\ seen[h] \in Int /\ queue[h] \in Seq(Message) /\ subBuffer[h] \in Message
      /\ pubBuffer[h] \in Message /\ nextId[h] \in Nat
  BY DEF WindowInv, IntactInv, TypeInv, TypeOK
<1>2. k \in Nat /\ Len(subBuffer[h]) \in Nat \ {0} /\ Len(pubBuffer[h]) \in Nat
  BY <1>1, EmptySeq, LenProperties DEF Message
<1>3. Intact(seen[h], subBuffer[h], queue[h], pubBuffer[h], nextId[h])
  BY DEF WindowInv, IntactInv, StreamIntact, StreamIntactFor
<1>4. nextId[h] = last + Len(pubBuffer[h])
  BY <1>3 DEF Intact
<1>5. last \in Int
  <2>1. \A i \in 1 .. k : queue[h][i] # <<>>
    BY <1>3 DEF Intact
  <2> QED
    BY <1>1, <2>1, NextTyped
<1>6. Close(seen[h], subBuffer[h], queue[h])
  BY DEF WindowInv, Held
<1>7. Start(seen[h], subBuffer[h], queue[h], 1) <= last
  BY <1>2, <1>6 DEF Close
<1>8. Start(seen[h], subBuffer[h], queue[h], 1) = seen[h] + 1 + Len(subBuffer[h])
  BY DEF Start
<1> HIDE DEF last, k
<1>9. QED
  BY <1>1, <1>2, <1>4, <1>5, <1>7, <1>8

\* The channel starts as an unattached stream with nothing sent.
LEMMA StreamStart == Init => Stream!StreamInit
BY DEF Init, Stream!StreamInit

\* Link attaches, Unsubscribe detaches, publish sends and popFront receives; all
\* other steps leave the stream alone.
LEMMA StreamStep ==
    WindowInv /\ [ChannelNext]_channelVars => [Stream!StreamNext]_(Stream!streamVars)
<1> SUFFICES ASSUME WindowInv, [ChannelNext]_channelVars
             PROVE  [Stream!StreamNext]_(Stream!streamVars)
  OBVIOUS
<1>u. TypeOK
  BY DEF WindowInv, IntactInv, TypeInv
<1>a. ASSUME NEW h \in Harts
      PROVE  Held(h) /\ Attached(h) /\ (sub[h] # "gone" => StreamIntactFor(h))
  BY DEF WindowInv, IntactInv, StreamIntact
<1>s. ASSUME UNCHANGED <<sub, linked, nextId, seen>> PROVE UNCHANGED Stream!streamVars
  BY <1>s DEF Stream!streamVars
<1>1. CASE UNCHANGED channelVars
  BY <1>1, <1>s DEF channelVars
<1>2. ASSUME NEW h \in Harts,
             \/ NewPublisher(h) \/ PublisherReady(h) \/ Shutdown(h) \/ StopOffer(h)
             \/ Take(h) \/ Flush(h)
      PROVE UNCHANGED Stream!streamVars
  BY <1>2, <1>s DEF NewPublisher, PublisherReady, Shutdown, StopOffer, Take, TakeMessage,
                    Flush, subVars, pubVars
<1>3. ASSUME NEW h \in Harts, NewSubscriber(h) \/ Subscribed(h) \/ Unlink(h)
      PROVE UNCHANGED Stream!streamVars
  <2>1. nextId' = nextId /\ seen' = seen
    BY <1>3 DEF NewSubscriber, Subscribed, Unlink, pubVars, subVars
  <2>2. CASE NewSubscriber(h) \/ Subscribed(h)
    <3>1. linked' = linked /\ sub[h] # "gone" /\ sub'[h] # "gone" /\ \A g \in Harts \ {h} : sub'[g] = sub[g]
      BY <1>u, <2>2 DEF NewSubscriber, Subscribed, TypeOK
    <3> QED
      BY <2>1, <3>1 DEF Stream!streamVars
  <2>3. CASE Unlink(h)
    <3>1. sub' = sub /\ sub[h] = "gone" /\ \A g \in Harts \ {h} : linked'[g] = linked[g]
      BY <1>u, <2>3 DEF Unlink, TypeOK, subVars
    <3> QED
      BY <2>1, <3>1 DEF Stream!streamVars
  <2> QED
    BY <1>3, <2>2, <2>3
<1>4. ASSUME NEW h \in Harts, Link(h) PROVE Stream!Attach(h)
  BY <1>4, <1>u DEF Link, TypeOK, pubVars, subVars, Stream!Attach
<1>5. ASSUME NEW h \in Harts, Unsubscribe(h) PROVE Stream!Detach(h)
  BY <1>5, <1>u DEF Unsubscribe, TypeOK, pubVars, Stream!Detach
<1>6. ASSUME NEW h \in Harts, NEW data \in Payload, NEW force \in BOOLEAN,
             Publish(h, data, force)
      PROVE  Stream!Send(h)
  <2>1. /\ pub[h] = "open" /\ ~flushing[h] /\ UNCHANGED <<sub, linked, seen>>
        /\ nextId' = [nextId EXCEPT ![h] = @ + 1]
    BY <1>6 DEF Publish, subVars
  <2>2. linked[h] \/ sub[h] = "gone"
    BY <1>a, <2>1 DEF Attached
  <2>3. sub[h] # "gone" => nextId[h] - (seen[h] + 1) < (QueueCapacity + 2) * BatchSize
    BY <2>1, WithinWindow
  <2> QED
    BY <2>1, <2>2, <2>3 DEF Stream!Send
<1>7. ASSUME NEW h \in Harts, PopFront(h) PROVE Stream!Receive(h)
  <2>1. /\ sub[h] = "subscribed" /\ subBuffer[h] # <<>>
        /\ seen' = [seen EXCEPT ![h] = Head(subBuffer[h]).id]
        /\ UNCHANGED <<sub, linked, nextId>>
    BY <1>7 DEF PopFront, pubVars
  <2>2. linked[h]
    BY <1>a, <2>1 DEF Held
  <2>3. /\ seen[h] \in Int /\ queue[h] \in Seq(Message) /\ subBuffer[h] \in Message
        /\ pubBuffer[h] \in Message /\ nextId[h] \in Nat
    BY <1>u DEF TypeOK
  <2>4. Intact(seen[h], subBuffer[h], queue[h], pubBuffer[h], nextId[h])
    BY <1>a, <2>1 DEF StreamIntactFor
  <2>5. Head(subBuffer[h]).id = seen[h] + 1
    BY <2>1, <2>3, <2>4, IntactPop
  <2>6. seen[h] + 1 < nextId[h]
    BY <2>1, HeldPublished
  <2> QED
    BY <2>1, <2>2, <2>5, <2>6 DEF Stream!Receive
<1>8. QED
  BY <1>1, <1>2, <1>3, <1>4, <1>5, <1>6, <1>7
     DEF ChannelNext, ChannelStep, SubscriberStep, RouDiStep, PublishAny, PublisherStep, Stream!StreamNext

\* The transport delivers every hart's events in order and exactly once, publishes
\* none before the simulated hart is attached, and lets the emulator run ahead by
\* no more than two batches and a full queue, whatever these sizes are.
THEOREM Refinement == ChannelSpec => ImplementsStream
<1>1. Init => WindowInv
  BY WindowInit
<1>2. WindowInv /\ [ChannelNext]_channelVars => WindowInv'
  BY WindowStep
<1>3. QED
  BY <1>1, <1>2, StreamStart, StreamStep, PTL
     DEF ChannelSpec, ImplementsStream, Stream!StreamSpec

=============================================================================
