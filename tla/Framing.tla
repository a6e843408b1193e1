---- MODULE Framing ----
(***************************************************************************)
(* Packets on a stream of bytes, in one direction of a connection (tcp.c): *)
(* chess_tcp_send_packet and chess_tcp_send_packet_pair write them with    *)
(* writev, in as many parts as the kernel takes, and                       *)
(* chess_tcp_recv_nonblocking puts them together again, in as many calls   *)
(* as it needs.  The descriptor does not block: a full socket buffer ends  *)
(* a send wherever it has got to.                                          *)
(*                                                                         *)
(* A byte is known by the packet it was written for and its place in it;   *)
(* headers and payloads are a few bytes long.  A packet is known by its    *)
(* number among those the sender began to send on this connection.  What a *)
(* header says that is put together from other bytes is left open.         *)
(***************************************************************************)
EXTENDS Naturals, FiniteSets, SequencesExt

CONSTANTS HeaderSize,     \* sizeof(ChessPacketHeader)
          MaxPayload,     \* what recv_buf and the caller have room for
          SocketBuffer,   \* bytes the kernel takes before it says EAGAIN
          MaxPackets,     \* bound on the packets begun on a connection
          MaxConnections, \* bound on the connections
          Garbled         \* a packet nobody sent

ASSUME FramingAssumption ==
  /\ {HeaderSize, SocketBuffer, MaxConnections} \subseteq Nat \ {0}
  /\ {MaxPayload, MaxPackets} \subseteq Nat
  /\ Garbled \notin Nat

VARIABLES
  sizes,    \* history: payload size of each packet begun on this connection
  sending,  \* bytes the send in progress has left to write
  wire,     \* bytes written and not yet read
  whole,    \* history: packets written whole before anything was torn
  torn,     \* history: a send has stopped half way through a packet
  sender,   \* "open", or "closed" by close()
  up,       \* FALSE once the connection is broken
  rstate,   \* recv_buf.state
  buf,      \* recv_buf.buf, filled up to recv_buf.done
  announced,\* payload_size in the header that buf holds
  receiver, \* "open", or "failed" once a receive has returned CHESS_RECV_ERROR
  received, \* history: packets returned with CHESS_RECV_OK
  connections

vars == <<sizes, sending, wire, whole, torn, sender, up, rstate, buf, announced,
          receiver, received, connections>>
out == <<sizes, sending, whole, torn, sender>>
recvBuf == <<rstate, buf, announced>>

Number == 1 .. MaxPackets
Byte == Number \X (1 .. HeaderSize + MaxPayload)
BytesOf(k, size) == [i \in 1 .. HeaderSize + size |-> <<k, i>>]

\* What is not a whole number of packets: the rest of one begun.
MidPacket(bytes) == bytes # <<>> /\ bytes[1][2] # 1

\* The receive buffer never holds more than it has room for, whatever the stream
\* turns into.
TypeOK ==
  /\ sizes \in Seq(0 .. MaxPayload) /\ Len(sizes) <= MaxPackets
  /\ sending \in Seq(Byte) /\ wire \in Seq(Byte) /\ Len(wire) <= SocketBuffer
  /\ whole \in Seq(Number) /\ torn \in BOOLEAN
  /\ sender \in {"open", "closed"} /\ up \in BOOLEAN
  /\ rstate \in {"WAITING_HEADER", "WAITING_PAYLOAD"}
  /\ buf \in Seq(Byte) /\ Len(buf) <= HeaderSize + MaxPayload
  /\ announced \in Nat /\ receiver \in {"open", "failed"}
  /\ received \in Seq(Number \cup {Garbled}) /\ connections \in 1 .. MaxConnections

\* Mutant: rb->done is kept.
ResetStateOnly(done) ==
  rstate' = "WAITING_HEADER" /\ announced' = 0 /\ buf' = done

\* chess_tcp_recv_reset; done: what the buffer held.  A challenge's connection
\* that becomes the game's goes on with the game's buffer, reset as well: its own
\* has just returned ACCEPT, so nothing is left in it.
RecvReset(done) ==
  rstate' = "WAITING_HEADER" /\ announced' = 0 /\ buf' = <<>>

Init ==
  /\ sizes = <<>> /\ sending = <<>> /\ wire = <<>> /\ whole = <<>> /\ torn = FALSE
  /\ sender = "open" /\ up = TRUE
  /\ rstate = "WAITING_HEADER" /\ buf = <<>> /\ announced = 0
  /\ receiver = "open" /\ received = <<>> /\ connections = 1

-----------------------------------------------------------------------------
(* Sending                                                                   *)

\* chess_tcp_send_packet: the iovecs are filled in.
Send ==
  /\ sender = "open" /\ sending = <<>> /\ Len(sizes) + 1 <= MaxPackets
  /\ \E size \in 0 .. MaxPayload :
       /\ sizes' = Append(sizes, size)
       /\ sending' = BytesOf(Len(sizes) + 1, size)
  /\ UNCHANGED <<wire, whole, torn, sender, up, recvBuf, receiver, received, connections>>

\* chess_tcp_send_packet_pair: one writev for two packets.
SendPair ==
  /\ sender = "open" /\ sending = <<>> /\ Len(sizes) + 2 <= MaxPackets
  /\ \E size1, size2 \in 0 .. MaxPayload :
       /\ sizes' = Append(Append(sizes, size1), size2)
       /\ sending' = BytesOf(Len(sizes) + 1, size1) \o BytesOf(Len(sizes) + 2, size2)
  /\ UNCHANGED <<wire, whole, torn, sender, up, recvBuf, receiver, received, connections>>

\* The iovecs advance past the n bytes that were taken.
Rest(n) == SubSeq(sending, n + 1, Len(sending))

\* The first packet of which not every byte was taken.
FirstIn(bytes) == IF bytes = <<>> THEN Len(sizes) + 1 ELSE bytes[1][1]

\* The packets of which the last byte is among the n that were taken.
Finished(n) ==
  [i \in 1 .. FirstIn(Rest(n)) - FirstIn(sending) |-> FirstIn(sending) + i - 1]

\* One writev: the kernel takes some of the bytes.
Write ==
  /\ up
  /\ \E n \in 1 .. Len(sending) :
       /\ Len(wire) + n <= SocketBuffer
       /\ wire' = wire \o SubSeq(sending, 1, n)
       /\ sending' = Rest(n)
       /\ whole' = IF torn THEN whole ELSE whole \o Finished(n)
  /\ UNCHANGED <<sizes, torn, sender, up, recvBuf, receiver, received, connections>>

\* writev fails, with EAGAIN when the socket buffer is full: the send returns
\* false and nobody writes the rest.
WriteFails ==
  /\ sending # <<>> /\ (~up \/ Len(wire) = SocketBuffer)
  /\ sending' = <<>> /\ torn' = (torn \/ MidPacket(sending))
  /\ UNCHANGED <<sizes, wire, whole, sender, up, recvBuf, receiver, received, connections>>

\* The sender hangs up: after a failed send most callers do.
Close ==
  /\ sender = "open" /\ sending = <<>> /\ sender' = "closed"
  /\ UNCHANGED <<sizes, sending, wire, whole, torn, up, recvBuf, receiver, received,
                 connections>>

-----------------------------------------------------------------------------
(* Receiving                                                                 *)

\* Mutant: what is there is read, whether asked for or not.
MayReadAhead(need) == 1 .. Len(wire)

\* recv returns at most what it is asked for, and what is there.
MayRead(need) == {n \in 1 .. Len(wire) : n <= need}

\* Bytes that are no header may announce any payload, one too large among them.
Misread == 0 .. MaxPayload + 2

\* What payload_size a header can be read as; none if its version is wrong.
PayloadSizes(header) ==
  LET k == header[1][1]
  IN  IF header = SubSeq(BytesOf(k, sizes[k]), 1, HeaderSize) THEN {{sizes[k]}}
      ELSE {{}} \cup {{s} : s \in Misread}

PacketIn(bytes) ==
  LET k == bytes[1][1] IN IF bytes = BytesOf(k, sizes[k]) THEN k ELSE Garbled

Returned(bytes) ==
  /\ received' = Append(received, PacketIn(bytes)) /\ RecvReset(bytes)
  /\ UNCHANGED receiver

Incomplete(state, bytes, size) ==
  /\ rstate' = state /\ buf' = bytes /\ announced' = size
  /\ UNCHANGED <<receiver, received>>

Failed == receiver' = "failed" /\ UNCHANGED <<recvBuf, received>>

\* The payload phase, after bytes, which the header phase has just read or an
\* earlier call has left; what is left to read may not have come yet.
ReadPayload(bytes, size, left) ==
  \/ /\ left # <<>> \/ sender = "open"
     /\ Incomplete("WAITING_PAYLOAD", bytes, size) /\ wire' = left
  \/ /\ left = <<>> /\ sender = "closed"
     /\ Failed /\ wire' = left
  \/ \E n \in 1 .. Len(left) :
       LET got == bytes \o SubSeq(left, 1, n)
       IN  /\ n <= HeaderSize + size - Len(bytes)
           /\ wire' = SubSeq(left, n + 1, Len(left))
           /\ IF Len(got) < HeaderSize + size
              THEN Incomplete("WAITING_PAYLOAD", got, size)
              ELSE Returned(got)

\* Mutant: any payload size is believed.
TooLargeNever(size) == FALSE

\* The buffer and the caller's have no room for the payload.
TooLarge(size) == size > MaxPayload

ReadHeader ==
  \E n \in MayRead(HeaderSize - Len(buf)) :
    LET got == buf \o SubSeq(wire, 1, n)
        left == SubSeq(wire, n + 1, Len(wire))
    IN  \/ /\ Len(got) < HeaderSize
           /\ Incomplete("WAITING_HEADER", got, 0) /\ wire' = left
        \/ /\ Len(got) >= HeaderSize
           /\ \E header \in PayloadSizes(SubSeq(got, 1, HeaderSize)) :
                \/ header = {} /\ Failed /\ wire' = left
                \/ \E size \in header :
                     \/ TooLarge(size) /\ Failed /\ wire' = left
                     \/ size = 0 /\ Returned(got) /\ wire' = left
                     \/ /\ ~TooLarge(size) /\ size > 0
                        /\ ReadPayload(got, size, left)

\* chess_tcp_recv_nonblocking, when there is something to read or to find out
Receive ==
  /\ receiver = "open" /\ (wire # <<>> \/ sender = "closed" \/ ~up)
  /\ \/ /\ up /\ rstate = "WAITING_HEADER" /\ ReadHeader
     \/ /\ up /\ rstate = "WAITING_PAYLOAD" /\ ReadPayload(buf, announced, wire)
     \/ /\ wire = <<>> /\ (rstate = "WAITING_HEADER" \/ ~up)
        /\ Failed /\ UNCHANGED wire
  /\ UNCHANGED <<out, up, connections>>

-----------------------------------------------------------------------------
(* The connection                                                            *)

\* The network breaks it: what is under way is lost.
Break ==
  /\ up /\ up' = FALSE /\ wire' = <<>>
  /\ UNCHANGED <<out, recvBuf, receiver, received, connections>>

\* Either end gives the connection up and they make another: the descriptor is
\* closed and the buffer reset (tcp_transport_init_from_fd, transport_recv_reset,
\* chess_lobby_close_challenge_connection).
Reconnect ==
  /\ connections < MaxConnections /\ connections' = connections + 1
  /\ sizes' = <<>> /\ sending' = <<>> /\ wire' = <<>> /\ whole' = <<>> /\ torn' = FALSE
  /\ sender' = "open" /\ up' = TRUE
  /\ RecvReset(buf) /\ receiver' = "open" /\ received' = <<>>

Next == Send \/ SendPair \/ Write \/ WriteFails \/ Close \/ Receive \/ Break \/ Reconnect

Spec == Init /\ [][Next]_vars

\* The main loop reads what poll reports.
FairSpec == Spec /\ WF_vars(Receive)

-----------------------------------------------------------------------------
(* Properties *)

\* However the bytes are cut up, the handlers see the packets that were sent,
\* each once and in order, up to the first that was torn; none is lost because
\* the bytes of the next came with it, or because a promotion or a new connection
\* starts with a fresh buffer; and each of them comes if the connection lasts.
Pipe == INSTANCE PacketPipe
          WITH Packet <- Number \cup {Garbled}, MaxAtOnce <- 2, sent <- whole
KeepsPackets == Pipe!Spec

\* A receive fails only when the other end has hung up, the connection is broken
\* or a packet was torn; of a program that hung up in good order everything has
\* been read first.
LastWordsHeard ==
  receiver = "failed" /\ up /\ ~torn => sender = "closed" /\ received = whole
====
