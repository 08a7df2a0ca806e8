----------------------------- MODULE EventChannel -----------------------------
(***************************************************************************)
(* The event transport of one application: per hart an EventPublisher in   *)
(* the emulator (include/iss/EventPublisher.hpp), an EventSubscriber in    *)
(* the simulator (include/iss/EventSubscriber.hpp) and between them the    *)
(* bounded iceoryx queue both configure to block the producer.             *)
(*                                                                         *)
(* A call that can wait is two steps: publish appends, and Flush is the    *)
(* publishCopyOf that completes once the queue has room; the constructors  *)
(* wait in `offering' and `requested'.                                     *)
(***************************************************************************)
EXTENDS Integers, Sequences

CONSTANTS Harts,         \* hart identifiers
          Payload,       \* what an event carries besides its number
          BatchSize,     \* MESSAGE_VECTOR_SIZE: events per message
          QueueCapacity, \* MESSAGE_BUFFER_SIZE: messages in the queue
          MaxEvents      \* bound on the events a hart publishes (Next only)

ASSUME BatchAssumption == BatchSize \in Nat \ {0}
ASSUME QueueAssumption == QueueCapacity \in Nat \ {0}
ASSUME BoundAssumption == MaxEvents \in Nat

VARIABLES
    pub,       \* the publisher: none, offering (init), open, closing (shutdown), closed
    sub,       \* the subscriber: none, requested (init), subscribed, gone
    linked,    \* has RouDi handed the subscriber's queue to the publisher?
    pubBuffer, \* EventPublisher::m_event_buffer
    flushing,  \* is the publishing thread inside publishCopyOf?
    queue,     \* the queue of messages, a message being a sequence of events
    subBuffer, \* EventSubscriber::m_event_buffer from its header to its end
    nextId,    \* InstrumentPlugin::m_event_counters
    seen       \* ghost: number of the last event popped

pubVars == <<pub, pubBuffer, flushing, nextId>>
subVars == <<sub, subBuffer, seen>>
channelVars == <<pub, sub, linked, pubBuffer, flushing, queue, subBuffer, nextId, seen>>

Event == [id : Nat, data : Payload]
Message == Seq(Event)

Init ==
    /\ pub = [h \in Harts |-> "none"]
    /\ sub = [h \in Harts |-> "none"]
    /\ linked = [h \in Harts |-> FALSE]
    /\ pubBuffer = [h \in Harts |-> <<>>]
    /\ flushing = [h \in Harts |-> FALSE]
    /\ queue = [h \in Harts |-> <<>>]
    /\ subBuffer = [h \in Harts |-> <<>>]
    /\ nextId = [h \in Harts |-> 0]
    /\ seen = [h \in Harts |-> -1]

------------------------------------------------------------------------------
(* EventSubscriber *)

\* The constructor requests the subscription and stays in init().
NewSubscriber(h) ==
    /\ sub[h] = "none"
    /\ sub' = [sub EXCEPT ![h] = "requested"]
    /\ UNCHANGED <<pubVars, linked, queue, subBuffer, seen>>

\* init() returns once the subscription state is SUBSCRIBED.
Subscribed(h) ==
    /\ sub[h] = "requested"
    /\ sub' = [sub EXCEPT ![h] = "subscribed"]
    /\ UNCHANGED <<pubVars, linked, queue, subBuffer, seen>>

\* The queue hands out its oldest message, which replaces the buffer: what the
\* buffer still held is overwritten.
TakeMessage(h) ==
    /\ sub[h] = "subscribed"
    /\ queue[h] # <<>>
    /\ subBuffer' = [subBuffer EXCEPT ![h] = Head(queue[h])]
    /\ queue' = [queue EXCEPT ![h] = Tail(@)]
    /\ UNCHANGED <<pubVars, sub, linked, seen>>

\* Mutant of Take: front() always takes.
TakeAlways(h) == TakeMessage(h)

\* front() reads the event at the header, after the spin in take() when the
\* header stands at the end of the buffer.
Take(h) == subBuffer[h] = <<>> /\ TakeMessage(h)

\* tryTake() does not look at the header.
TryTake(h) == TakeMessage(h)

PopFront(h) ==
    /\ sub[h] = "subscribed"
    /\ subBuffer[h] # <<>>
    /\ seen' = [seen EXCEPT ![h] = Head(subBuffer[h]).id]
    /\ subBuffer' = [subBuffer EXCEPT ![h] = Tail(@)]
    /\ UNCHANGED <<pubVars, sub, linked, queue>>

Unsubscribe(h) ==
    /\ sub[h] = "subscribed"
    /\ sub' = [sub EXCEPT ![h] = "gone"]
    /\ UNCHANGED <<pubVars, linked, queue, subBuffer, seen>>

------------------------------------------------------------------------------
(* iceoryx's RouDi daemon, as the two classes rely on it *)

Link(h) ==
    /\ pub[h] = "offering" /\ sub[h] = "subscribed" /\ ~linked[h]
    /\ linked' = [linked EXCEPT ![h] = TRUE]
    /\ UNCHANGED <<pubVars, subVars, queue>>

Unlink(h) ==
    /\ sub[h] = "gone" /\ linked[h]
    /\ linked' = [linked EXCEPT ![h] = FALSE]
    /\ UNCHANGED <<pubVars, subVars, queue>>

------------------------------------------------------------------------------
(* EventPublisher *)

\* The constructor offers the topic and stays in init().
NewPublisher(h) ==
    /\ pub[h] = "none"
    /\ pub' = [pub EXCEPT ![h] = "offering"]
    /\ UNCHANGED <<pubBuffer, flushing, nextId, subVars, linked, queue>>

\* Mutant of PublisherReady: init() does not wait.
ReadyAtOnce(h) ==
    /\ pub[h] = "offering"
    /\ pub' = [pub EXCEPT ![h] = "open"]
    /\ UNCHANGED <<pubBuffer, flushing, nextId, subVars, linked, queue>>

\* init() returns once there is a subscriber.
PublisherReady(h) ==
    /\ pub[h] = "offering"
    /\ linked[h]
    /\ pub' = [pub EXCEPT ![h] = "open"]
    /\ UNCHANGED <<pubBuffer, flushing, nextId, subVars, linked, queue>>

\* publish(force, event): append, and start a flush when the buffer is full or
\* the caller forces one. The caller has numbered the event.
Publish(h, data, force) ==
    LET buffer == Append(pubBuffer[h], [id |-> nextId[h], data |-> data])
    IN /\ pub[h] = "open" /\ ~flushing[h]
       /\ nextId' = [nextId EXCEPT ![h] = @ + 1]
       /\ pubBuffer' = [pubBuffer EXCEPT ![h] = buffer]
       /\ flushing' = [flushing EXCEPT ![h] = Len(buffer) = BatchSize \/ force]
       /\ UNCHANGED <<pub, subVars, linked, queue>>

\* Mutants of Deliver: one message too many fits; a full queue discards.
DeliverPastCapacity(h) ==
    IF linked[h]
    THEN /\ Len(queue[h]) <= QueueCapacity
         /\ queue' = [queue EXCEPT ![h] = Append(@, pubBuffer[h])]
    ELSE UNCHANGED queue

DeliverOrDiscard(h) ==
    IF linked[h] /\ Len(queue[h]) < QueueCapacity
    THEN queue' = [queue EXCEPT ![h] = Append(@, pubBuffer[h])]
    ELSE UNCHANGED queue

\* What publishCopyOf leaves in the queue: it waits while the queue of its
\* subscriber is full, and the sample goes nowhere when there is none.
Deliver(h) ==
    IF linked[h]
    THEN /\ Len(queue[h]) < QueueCapacity
         /\ queue' = [queue EXCEPT ![h] = Append(@, pubBuffer[h])]
    ELSE UNCHANGED queue

\* publishCopyOf succeeds and the buffer is cleared.
Flush(h) ==
    /\ flushing[h]
    /\ Deliver(h)
    /\ pubBuffer' = [pubBuffer EXCEPT ![h] = <<>>]
    /\ flushing' = [flushing EXCEPT ![h] = FALSE]
    /\ UNCHANGED <<pub, nextId, subVars, linked>>

\* The destructor enters shutdown(true).
Shutdown(h) ==
    /\ pub[h] = "open" /\ ~flushing[h]
    /\ pub' = [pub EXCEPT ![h] = "closing"]
    /\ UNCHANGED <<pubBuffer, flushing, nextId, subVars, linked, queue>>

\* Mutant of StopOffer: the destructor waits for a flush of the last events.
StopOfferFlushed(h) ==
    /\ pub[h] = "closing"
    /\ ~linked[h] /\ pubBuffer[h] = <<>>
    /\ pub' = [pub EXCEPT ![h] = "closed"]
    /\ UNCHANGED <<pubBuffer, flushing, nextId, subVars, linked, queue>>

\* It leaves once the last subscriber is gone.
StopOffer(h) ==
    /\ pub[h] = "closing"
    /\ ~linked[h]
    /\ pub' = [pub EXCEPT ![h] = "closed"]
    /\ UNCHANGED <<pubBuffer, flushing, nextId, subVars, linked, queue>>

------------------------------------------------------------------------------
\* A simulated hart that polls with tryTake does so with a drained buffer, where
\* it is the same step as Take. HartPipeline has to meet that contract.
SubscriberStep(h) == Take(h) \/ PopFront(h)
RouDiStep(h) == Link(h) \/ Unlink(h)
PublisherStep(h) == PublisherReady(h) \/ Flush(h) \/ StopOffer(h)

\* The emulated hart publishes what its program makes it publish.
PublishAny(h) == \E data \in Payload, force \in BOOLEAN : Publish(h, data, force)

\* Everything else that happens to the channel of a hart.
ChannelStep(h) ==
    \/ NewSubscriber(h) \/ Subscribed(h) \/ Unsubscribe(h)
    \/ SubscriberStep(h)
    \/ RouDiStep(h)
    \/ NewPublisher(h) \/ Shutdown(h)
    \/ PublisherStep(h)

ChannelNext == \E h \in Harts : ChannelStep(h) \/ PublishAny(h)
ChannelSpec == Init /\ [][ChannelNext]_channelVars

\* The same with a bound on the events, for TLC.
Next == \E h \in Harts :
    \/ ChannelStep(h)
    \/ nextId[h] < MaxEvents /\ PublishAny(h)
Spec == Init /\ [][Next]_channelVars

\* The waiting loops of both constructors, of publish and of the publisher's
\* destructor keep retrying, RouDi keeps serving, and a simulated hart keeps
\* fetching. Nobody has to publish, shut down or unsubscribe.
Fairness == \A h \in Harts :
    /\ WF_channelVars(Subscribed(h))
    /\ WF_channelVars(RouDiStep(h))
    /\ WF_channelVars(PublisherStep(h))
    /\ WF_channelVars(SubscriberStep(h))

FairSpec == Spec /\ Fairness

------------------------------------------------------------------------------
(* Safety *)

\* Every variable keeps its shape; no message and no buffer outgrows its bound.
TypeOK ==
    /\ pub \in [Harts -> {"none", "offering", "open", "closing", "closed"}]
    /\ sub \in [Harts -> {"none", "requested", "subscribed", "gone"}]
    /\ linked \in [Harts -> BOOLEAN]
    /\ pubBuffer \in [Harts -> Message]
    /\ flushing \in [Harts -> BOOLEAN]
    /\ queue \in [Harts -> Seq(Message)]
    /\ subBuffer \in [Harts -> Message]
    /\ nextId \in [Harts -> Nat]
    /\ seen \in [Harts -> Int]
    /\ \A h \in Harts : /\ Len(pubBuffer[h]) <= BatchSize
                        /\ Len(queue[h]) <= QueueCapacity

\* The events of m are numbered from first, without a gap.
Numbered(m, first) == \A i \in 1 .. Len(m) : m[i].id = first + i - 1

\* The number the first event of the i-th message of q has to carry when event n
\* was consumed last and the subscriber holds m: it follows the message before
\* it, and the first message follows what the subscriber holds.
Start(n, m, q, i) == IF i = 1 THEN n + 1 + Len(m) ELSE q[i - 1][1].id + Len(q[i - 1])

\* After event n, the subscriber's m, the queue's q and the publisher's p hold
\* exactly the events up to next - 1, in order.
Intact(n, m, q, p, next) ==
    /\ Numbered(m, n + 1)
    /\ \A i \in 1 .. Len(q) : q[i] # <<>> /\ Numbered(q[i], Start(n, m, q, i))
    /\ Numbered(p, Start(n, m, q, Len(q) + 1))
    /\ next = Start(n, m, q, Len(q) + 1) + Len(p)

StreamIntactFor(h) == Intact(seen[h], subBuffer[h], queue[h], pubBuffer[h], nextId[h])

\* As long as the simulated hart is subscribed, what it holds, what the queue
\* holds and what the emulator has not flushed yet are together exactly the
\* events numbered after the last one consumed, in order: batching, the bounded
\* queue and the two handshakes lose, repeat and reorder nothing.
StreamIntact == \A h \in Harts : sub[h] # "gone" => StreamIntactFor(h)

------------------------------------------------------------------------------
(* The transport implements EventStream *)

Stream == INSTANCE EventStream WITH
    Harts <- Harts,
    Window <- (QueueCapacity + 2) * BatchSize,
    link <- [h \in Harts |-> IF sub[h] = "gone" THEN "detached"
                             ELSE IF linked[h] THEN "attached" ELSE "unattached"],
    sent <- nextId,
    seen <- seen

\* Every step of publisher, queue and subscriber is a step of the abstract
\* stream or leaves it alone: exactly-once in-order delivery, nothing published
\* before the subscriber is attached, and an emulator held back by a full
\* window of two buffers and the queue between them.
ImplementsStream == Stream!StreamSpec

------------------------------------------------------------------------------
(* Liveness, under FairSpec *)

\* A flush that has begun puts every event published so far through to the
\* simulated hart, unless that unsubscribes: neither end waits for ever on the
\* blocking queue.
FlushDelivers == \A h \in Harts, n \in 1 .. MaxEvents :
    flushing[h] /\ nextId[h] = n ~> seen[h] = n - 1 \/ sub[h] = "gone"

\* The publisher's destructor, which waits until nobody is subscribed, returns
\* once the subscriber has unsubscribed.
ShutdownReturns == \A h \in Harts :
    pub[h] = "closing" /\ sub[h] = "gone" ~> pub[h] = "closed"

=============================================================================
