----------------------------- MODULE EventStream -----------------------------
(***************************************************************************)
(* What the event transport between the instrumented emulator and the     *)
(* simulator promises for every hart: once a simulated hart is attached    *)
(* to its emulated hart, events reach it in the order in which they were   *)
(* numbered, each exactly once, and the emulator runs ahead of the         *)
(* simulator by at most Window events.                                     *)
(*                                                                         *)
(* EventChannel shows that EventPublisher, the iceoryx queue and           *)
(* EventSubscriber implement this.                                         *)
(***************************************************************************)
EXTENDS Integers

CONSTANTS Harts,  \* hart identifiers
          Window  \* a natural number: how far the emulator may run ahead

VARIABLES link,   \* link[h]: is a subscriber attached to the hart's stream?
          sent,   \* sent[h]: how many events the hart has published
          seen    \* seen[h]: number of the last event consumed, -1 for none

streamVars == <<link, sent, seen>>

StreamInit == /\ link = [h \in Harts |-> "unattached"]
              /\ sent = [h \in Harts |-> 0]
              /\ seen = [h \in Harts |-> -1]

Attach(h) == /\ link[h] = "unattached"
             /\ link' = [link EXCEPT ![h] = "attached"]
             /\ UNCHANGED <<sent, seen>>

Detach(h) == /\ link[h] # "detached"
             /\ link' = [link EXCEPT ![h] = "detached"]
             /\ UNCHANGED <<sent, seen>>

\* Nothing is published before the subscriber is there, and an attached
\* subscriber holds the emulator back.
Send(h) == /\ link[h] # "unattached"
           /\ link[h] = "attached" => sent[h] - (seen[h] + 1) < Window
           /\ sent' = [sent EXCEPT ![h] = @ + 1]
           /\ UNCHANGED <<link, seen>>

\* The next event in order, and only one that was published.
Receive(h) == /\ link[h] = "attached"
              /\ seen[h] + 1 < sent[h]
              /\ seen' = [seen EXCEPT ![h] = @ + 1]
              /\ UNCHANGED <<link, sent>>

StreamNext == \E h \in Harts : Attach(h) \/ Detach(h) \/ Send(h) \/ Receive(h)

StreamSpec == StreamInit /\ [][StreamNext]_streamVars

=============================================================================
