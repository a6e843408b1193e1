---- MODULE PacketPipe ----
(***************************************************************************)
(* What the handlers count on from a connection, in one direction: whole   *)
(* packets come out as they went in, until a send stops half way.  From    *)
(* there on anything may come out.                                         *)
(***************************************************************************)
EXTENDS Naturals, Sequences

CONSTANTS Packet,     \* what can be received
          MaxAtOnce   \* packets one send may write

VARIABLES sent,       \* the packets written whole before anything was torn
          received,
          torn,       \* a send has stopped half way
          up          \* the connection can still be read

vars == <<sent, received, torn, up>>

Init == sent = <<>> /\ received = <<>> /\ torn = FALSE /\ up = TRUE

Send ==
  /\ ~torn
  /\ \E n \in 1 .. MaxAtOnce : \E ps \in [1 .. n -> Packet] : sent' = sent \o ps
  /\ UNCHANGED <<received, torn, up>>

Tear == ~torn /\ torn' = TRUE /\ UNCHANGED <<sent, received, up>>

Deliver ==
  /\ up /\ Len(received) < Len(sent)
  /\ received' = Append(received, sent[Len(received) + 1])
  /\ UNCHANGED <<sent, torn, up>>

\* Only after everything that was sent whole.
DeliverGarbage ==
  /\ up /\ torn /\ Len(received) >= Len(sent)
  /\ \E p \in Packet : received' = Append(received, p)
  /\ UNCHANGED <<sent, torn, up>>

Break == up' = FALSE /\ UNCHANGED <<sent, received, torn>>

\* A new connection has nothing of the old one.
Reconnect == sent' = <<>> /\ received' = <<>> /\ torn' = FALSE /\ up' = TRUE

Next == Send \/ Tear \/ Deliver \/ DeliverGarbage \/ Break \/ Reconnect

Safety == Init /\ [][Next]_vars

\* What was sent whole arrives, if the connection lasts.
Spec == Safety /\ WF_vars(Deliver)
====
