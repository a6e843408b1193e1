---- MODULE SessionProofs ----
(***************************************************************************)
(* Proofs about module Session: the shape of a game between two programs   *)
(* that crash, restart and reconnect; then that who plays white, and what  *)
(* the server has written, survive every crash, broken connection,         *)
(* repeated START and resumption; for any moves, rules of the game and     *)
(* bounds.                                                                 *)
(***************************************************************************)
EXTENDS Session, FiniteSetTheorems, SequenceTheorems, TLAPS

-----------------------------------------------------------------------------
(* The inductive invariant of the shape of the state *)

\* What is ever written to the client, to the server, and to a connection that
\* still waits in a listen queue.
ToClient == {m \in Packet : m.type \in {"HELLO", "START", "RESUME_RESPONSE",
                                        "STATE_SNAPSHOT", "MOVE", "RESIGN"}}
ToServer == {m \in Packet : m.type \in {"HELLO", "ACK", "RESUME_REQUEST", "MOVE", "RESIGN"}}
Hellos   == {Bare("HELLO")}

To(p) == IF p = "CLIENT" THEN ToClient ELSE ToServer

SessionTypes == session \in [Peer -> SessionType] /\ pend \in [Peer -> Pending]

BoardTypes == /\ hist \in [Peer -> Seq(Moves)] /\ over \in [Peer -> BOOLEAN]
              /\ snap \in [Peer -> {NoSnapshot} \cup Snapshot]

\* Only the program that was the client of the first connection is ever told to
\* keep a resume file.
SetTypes == /\ rfile \subseteq {"CLIENT"} /\ target \subseteq {"CLIENT"}
            /\ found \subseteq Peer /\ up \subseteq Peer
            /\ crashes \in 0..MaxCrashes /\ breaks \in 0..MaxBreaks

\* Hence only it dials again.  A program without a connection has nothing to
\* read, and nothing reaches a program whose connection is not accepted yet.
Net ==
  /\ conn \in [Peer -> {"none", "live", "dead"}]
  /\ inbox \in [Peer -> Seq(Packet)] /\ \A p \in Peer : inbox[p] \in Seq(To(p))
  /\ queued \in [Peer -> Seq(Hellos)]
  /\ dialing \subseteq {"CLIENT"}
  /\ \A p \in Peer : conn[p] = "live" => (conn[Other(p)] = "live") = (p \notin dialing)
  /\ \A p \in Peer : conn[p] = "none" => inbox[p] = <<>>
  /\ "CLIENT" \in dialing => conn["CLIENT"] = "live" /\ inbox["CLIENT"] = <<>>

\* A session of program p: it never takes the other's role, and it is started
\* from START or ACK until it is given up.
LocalTo(p, s) ==
  /\ s \in SessionType
  /\ s.role \in {"UNKNOWN", p}
  /\ s.started = s.startDone
  /\ s.started => s.role = p /\ s.phase # "TCP_CONNECTING"

Locals ==
  /\ \A p \in Peer : /\ LocalTo(p, session[p])
                     /\ p \notin up => session[p] = NewSession /\ conn[p] = "none"
  /\ conn["CLIENT"] # "none" => session["CLIENT"].role = "CLIENT"
  /\ "CLIENT" \in dialing => ~session["CLIENT"].started

BaseInv == SessionTypes /\ BoardTypes /\ SetTypes /\ Net /\ Locals

-----------------------------------------------------------------------------
(* Lemmas on the operators *)

\* The two ends, and the two colours, swap.
LEMMA Ends ==
  /\ \A p \in Peer : Other(p) \in Peer /\ Other(p) # p /\ Other(Other(p)) = p
  /\ \A p, q \in Peer : q = p \/ q = Other(p)
  /\ \A c \in Color : Opposite(c) \in Color /\ Opposite(c) # c /\ Opposite(Opposite(c)) = c
BY DEF Peer, Other, Color, Opposite

\* What a packet carries.
LEMMA Payloads ==
  ASSUME NEW m \in Packet
  PROVE  /\ m.type = "START" => m.color \in {"UNASSIGNED"} \cup Color
         /\ m.type = "RESUME_RESPONSE" => m.accepted \in BOOLEAN
         /\ m.type = "STATE_SNAPSHOT" => m.hist \in Seq(Moves) /\ m.over \in BOOLEAN
         /\ m.type = "MOVE" => m.move \in Moves
BY DEF Packet

\* The packets are packets, each written to the program it is meant for.
LEMMA Packets ==
  /\ \A p \in Peer : Bare("HELLO") \in To(p) /\ Bare("RESIGN") \in To(p)
  /\ Bare("ACK") \in To("SERVER") /\ Bare("RESUME_REQUEST") \in To("SERVER")
  /\ \A c \in {"UNASSIGNED"} \cup Color : StartMsg(c) \in To("CLIENT")
  /\ \A ok \in BOOLEAN : ResponseMsg(ok) \in To("CLIENT")
  /\ \A h \in Seq(Moves), o \in BOOLEAN : SnapshotMsg(h, o) \in To("CLIENT")
  /\ \A p \in Peer, m \in Moves : MoveMsg(m) \in To(p)
BY DEF Bare, StartMsg, ResponseMsg, SnapshotMsg, MoveMsg, To, ToClient, ToServer, Packet, Peer

\* The sets of packets a program reads.
LEMMA Readable ==
  \A p \in Peer : To(p) \subseteq Packet /\ Hellos \subseteq To(p)
BY Packets DEF To, ToClient, ToServer, Hellos

\* The operators that change a session leave it a session of its program.
LEMMA SetRemoteLocal ==
  ASSUME NEW p \in Peer, NEW s, LocalTo(p, s), ~s.started
  PROVE  /\ LocalTo(p, SetRemote(s)) /\ ~SetRemote(s).started
         /\ SetRemote(s).role = s.role
<1>1. CASE s.available
  BY <1>1 DEF SetRemote
<1>2. CASE ~s.available
  <2>1. SetRemote(s) = [s EXCEPT !.available = TRUE, !.connected = FALSE, !.hello = FALSE,
                 !.challengeDone = FALSE, !.started = FALSE, !.phase = "TCP_CONNECTING"]
    BY <1>2 DEF SetRemote
  <2> DEFINE h == [s EXCEPT !.available = TRUE, !.connected = FALSE, !.hello = FALSE]
             t == [h EXCEPT !.challengeDone = FALSE, !.started = FALSE,
                            !.phase = "TCP_CONNECTING"]
  <2>2. /\ h \in SessionType /\ h.role = s.role /\ h.startDone = s.startDone
    BY DEF LocalTo, SessionType
  <2>3. SetRemote(s) = t
    BY <2>1
  <2> HIDE DEF h
  <2>4. /\ t \in SessionType /\ t.role = h.role /\ t.startDone = h.startDone
        /\ t.started = FALSE
    BY <2>2 DEF SessionType, Phase
  <2> HIDE DEF t
  <2>5. s.startDone = FALSE
    BY DEF LocalTo, SessionType
  <2> QED
    BY <2>2, <2>3, <2>4, <2>5 DEF LocalTo
<1> QED
  BY <1>1, <1>2

LEMMA NewSessionLocal ==
  ASSUME NEW p \in Peer
  PROVE  LocalTo(p, NewSession) /\ ~NewSession.started
BY DEF LocalTo, NewSession, SessionType, Phase

\* A game that starts: only with the program's own role.
LEMMA StartGameLocal ==
  ASSUME NEW p \in Peer, NEW s, LocalTo(p, s), s.role = p, NEW c \in {"UNASSIGNED"} \cup Color
  PROVE  LocalTo(p, StartGame(s, c)) /\ StartGame(s, c).role = p
BY DEF LocalTo, StartGame, SessionType, Phase

\* A session that was hung up.
LEMMA HungUpLocal ==
  ASSUME NEW p \in Peer, NEW s, LocalTo(p, s)
  PROVE  /\ LocalTo(p, [ResetTransportProgress(s) EXCEPT !.connected = FALSE,
                          !.available = FALSE, !.phase = "DISCONNECTED"])
         /\ LocalTo(p, [ResetTransportProgress(s) EXCEPT !.startDone = FALSE,
                          !.available = FALSE, !.started = FALSE, !.role = "UNKNOWN",
                          !.phase = "IDLE"])
<1>1. LocalTo(p, ResetTransportProgress(s))
  <2> DEFINE h == [s EXCEPT !.helloSent = FALSE, !.helloReceived = FALSE, !.hello = FALSE]
             t == [h EXCEPT !.challengeDone = FALSE, !.startSent = FALSE,
                            !.resumeSent = FALSE, !.syncPending = FALSE]
  <2>1. /\ h \in SessionType /\ h.role = s.role /\ h.phase = s.phase
        /\ h.started = s.started /\ h.startDone = s.startDone
    BY DEF LocalTo, SessionType
  <2>2. ResetTransportProgress(s) = t
    BY DEF ResetTransportProgress
  <2> HIDE DEF h
  <2>3. /\ t \in SessionType /\ t.role = h.role /\ t.phase = h.phase
        /\ t.started = h.started /\ t.startDone = h.startDone
    BY <2>1 DEF SessionType
  <2> HIDE DEF t
  <2> QED
    BY <2>1, <2>2, <2>3 DEF LocalTo
<1>2. ASSUME NEW r, LocalTo(p, r)
      PROVE  LocalTo(p, [r EXCEPT !.connected = FALSE, !.available = FALSE,
                                  !.phase = "DISCONNECTED"])
  <2> DEFINE t == [r EXCEPT !.connected = FALSE, !.available = FALSE, !.phase = "DISCONNECTED"]
  <2>1. t \in SessionType
    BY <1>2 DEF LocalTo, SessionType, Phase
  <2>2. /\ t.role = r.role /\ t.phase = "DISCONNECTED"
        /\ t.started = r.started /\ t.startDone = r.startDone
    BY <1>2 DEF LocalTo, SessionType
  <2> HIDE DEF t
  <2>3. LocalTo(p, t)
    BY <1>2, <2>1, <2>2 DEF LocalTo
  <2> QED
    BY <2>3 DEF t
<1>3. ASSUME NEW r, LocalTo(p, r)
      PROVE  LocalTo(p, [r EXCEPT !.startDone = FALSE, !.available = FALSE,
                          !.started = FALSE, !.role = "UNKNOWN", !.phase = "IDLE"])
  <2> DEFINE h == [r EXCEPT !.startDone = FALSE, !.available = FALSE, !.started = FALSE]
             t == [h EXCEPT !.role = "UNKNOWN", !.phase = "IDLE"]
  <2>1. h \in SessionType /\ h.startDone = FALSE /\ h.started = FALSE
    BY <1>3 DEF LocalTo, SessionType
  <2>2. [r EXCEPT !.startDone = FALSE, !.available = FALSE, !.started = FALSE,
                  !.role = "UNKNOWN", !.phase = "IDLE"] = t
    OBVIOUS
  <2> HIDE DEF h
  <2>3. /\ t \in SessionType /\ t.role = "UNKNOWN"
        /\ t.startDone = FALSE /\ t.started = FALSE
    BY <2>1 DEF SessionType, Phase
  <2> HIDE DEF t
  <2> QED
    BY <2>2, <2>3 DEF LocalTo
<1> QED
  BY <1>1, <1>2, <1>3

\* What the file of a game holds.
LEMMA RecordType ==
  ASSUME NEW p \in Peer, NEW c, NEW h \in Seq(Moves), NEW o \in BOOLEAN
  PROVE  /\ Record(p, c, h, o) \in Snapshot /\ Record(p, c, h, o) # NoSnapshot
         /\ Record(p, c, h, o).white = White(p, c)
         /\ Record(p, c, h, o).hist = h /\ Record(p, c, h, o).over = o
<1>1. White(p, c) \in Peer
  BY Ends DEF White
<1> QED
  BY <1>1 DEF Record, Snapshot, NoSnapshot, Peer

\* A file that is there.
LEMMA SnapshotFields ==
  ASSUME BoardTypes, NEW p \in Peer
  PROVE  /\ snap[p] # NoSnapshot => snap[p].white \in Peer /\ snap[p].hist \in Seq(Moves)
                                      /\ snap[p].over \in BOOLEAN
         /\ LoadMatch(p).hist \in Seq(Moves) /\ LoadMatch(p).over \in BOOLEAN
         /\ snap[p] = NoSnapshot => LoadMatch(p).hist = <<>> /\ LoadMatch(p).over = FALSE
         /\ snap[p] # NoSnapshot =>
              LoadMatch(p).hist = snap[p].hist /\ LoadMatch(p).over = snap[p].over
<1>1. snap[p] \in {NoSnapshot} \cup Snapshot
  BY DEF BoardTypes
<1>2. snap[p] # NoSnapshot => snap[p].white \in Peer /\ snap[p].hist \in Seq(Moves)
                                /\ snap[p].over \in BOOLEAN
  BY <1>1 DEF Snapshot
<1>3. <<>> \in Seq(Moves)
  OBVIOUS
<1> QED
  BY <1>2, <1>3 DEF LoadMatch

\* A move writes only the server's file.
LEMMA RecordMoveType ==
  ASSUME BoardTypes, NEW p \in Peer, NEW h \in Seq(Moves)
  PROVE  RecordMove(p, h) \in [Peer -> {NoSnapshot} \cup Snapshot]
<1>1. Record(p, session[p].color, h, over[p]) \in Snapshot
  <2>1. over[p] \in BOOLEAN
    BY DEF BoardTypes
  <2> QED
    BY <2>1, RecordType
<1> QED
  BY <1>1 DEF RecordMove, BoardTypes

-----------------------------------------------------------------------------
(* The parts of a step *)

\* A packet that is read is one that was written to this program.
LEMMA Received ==
  ASSUME Net, NEW p \in Peer, NEW t, Receive(p, t)
  PROVE  /\ Head(inbox[p]) \in To(p) /\ Head(inbox[p]) \in Packet
         /\ Head(inbox[p]).type = t /\ inbox[p] # <<>>
         /\ Consumed(p)[p] = Tail(inbox[p]) /\ Consumed(p)[Other(p)] = inbox[Other(p)]
         /\ Tail(inbox[p]) \in Seq(To(p))
         /\ Consumed(p) \in [Peer -> Seq(Packet)] /\ p \in up /\ conn[p] # "none"
         /\ p = "CLIENT" => p \notin dialing
<1>1. inbox[p] \in Seq(To(p)) /\ inbox[p] # <<>> /\ inbox \in [Peer -> Seq(Packet)]
  BY DEF Net, Receive
<1>2. Head(inbox[p]) \in To(p) /\ Tail(inbox[p]) \in Seq(To(p))
  BY <1>1
<1>3. Tail(inbox[p]) \in Seq(Packet)
  BY <1>1
<1> QED
  BY <1>1, <1>2, <1>3, Readable, Ends DEF Receive, Reading, Consumed, Net

\* A box of which only one end changes.
LEMMA ReachedBox ==
  ASSUME Net, NEW p \in Peer, NEW box \in [Peer -> Seq(Packet)], NEW m \in Packet
  PROVE  /\ Reached(p, box, m) \in [Peer -> Seq(Packet)]
         /\ Reached(p, box, m)[p] = box[p]
         /\ conn[p] = "live" /\ p \notin dialing =>
              Reached(p, box, m)[Other(p)] = Append(box[Other(p)], m)
         /\ ~(conn[p] = "live" /\ p \notin dialing) =>
              Reached(p, box, m)[Other(p)] = box[Other(p)]
<1>1. box[Other(p)] \in Seq(Packet) /\ Other(p) \in Peer /\ Other(p) # p
  BY Ends
<1>2. Append(box[Other(p)], m) \in Seq(Packet)
  BY <1>1
<1> QED
  BY <1>1, <1>2 DEF Reached

\* The other end of a connection that can be written to is open, and reads.
LEMMA WrittenTo ==
  ASSUME Net, NEW p \in Peer, conn[p] = "live", p \notin dialing
  PROVE  conn[Other(p)] = "live" /\ Other(p) \notin dialing
<1>1. conn[Other(p)] = "live"
  BY DEF Net
<1>2. Other(p) \in Peer /\ Other(Other(p)) = p
  BY Ends
<1>3. (conn[Other(Other(p))] = "live") = (Other(p) \notin dialing)
  BY <1>1, <1>2 DEF Net
<1> QED
  BY <1>1, <1>2, <1>3

LEMMA NetUnchanged ==
  ASSUME Net, UNCHANGED net
  PROVE  Net'
BY DEF Net, net

\* The inboxes change, each by packets meant for it.
LEMMA NetBoxes ==
  ASSUME Net, UNCHANGED <<conn, dialing, queued>>, inbox' \in [Peer -> Seq(Packet)],
         \A p \in Peer : /\ inbox'[p] \in Seq(To(p))
                         /\ inbox[p] = <<>> => inbox'[p] = <<>> \/
                              (conn[p] # "none" /\ p \notin dialing)
  PROVE  Net'
<1>1. conn' = conn /\ dialing' = dialing /\ queued' = queued
  OBVIOUS
<1>2. /\ conn' \in [Peer -> {"none", "live", "dead"}]
      /\ queued' \in [Peer -> Seq(Hellos)] /\ dialing' \subseteq {"CLIENT"}
      /\ \A p \in Peer : conn'[p] = "live" =>
                          (conn'[Other(p)] = "live") = (p \notin dialing')
  BY <1>1 DEF Net
<1>3. \A p \in Peer : conn'[p] = "none" => inbox'[p] = <<>>
  BY <1>1 DEF Net
<1>4. "CLIENT" \in dialing' => conn'["CLIENT"] = "live" /\ inbox'["CLIENT"] = <<>>
  BY <1>1 DEF Net, Peer
<1> QED
  BY <1>2, <1>3, <1>4 DEF Net

LEMMA ConsumeNet ==
  ASSUME Net, NEW p \in Peer, NEW t, Receive(p, t), Consume(p)
  PROVE  Net'
<1>1. /\ inbox' = Consumed(p) /\ Consumed(p)[p] = Tail(inbox[p])
      /\ Consumed(p)[Other(p)] = inbox[Other(p)] /\ Tail(inbox[p]) \in Seq(To(p))
      /\ Consumed(p) \in [Peer -> Seq(Packet)] /\ inbox[p] # <<>>
  BY Received DEF Consume
<1>2. ASSUME NEW q \in Peer
      PROVE  /\ inbox'[q] \in Seq(To(q))
             /\ inbox[q] = <<>> => inbox'[q] = <<>>
  <2>1. CASE q = p
    BY <1>1, <2>1
  <2>2. CASE q = Other(p)
    <3>1. inbox[q] \in Seq(To(q)) /\ inbox'[q] = inbox[q]
      BY <1>1, <2>2 DEF Net
    <3> QED
      BY <3>1
  <2> QED
    BY <2>1, <2>2, Ends
<1> QED
  BY <1>1, <1>2, NetBoxes DEF Consume

LEMMA SendNet ==
  ASSUME Net, NEW p \in Peer, NEW m \in To(Other(p)), Send(p, m)
  PROVE  Net'
<1>1. /\ inbox' \in [Peer -> Seq(Packet)] /\ inbox'[p] = inbox[p]
      /\ conn[p] = "live" /\ p \notin dialing =>
           inbox'[Other(p)] = Append(inbox[Other(p)], m)
      /\ ~(conn[p] = "live" /\ p \notin dialing) => inbox'[Other(p)] = inbox[Other(p)]
  <2>1. m \in Packet /\ inbox \in [Peer -> Seq(Packet)] /\ inbox' = Reached(p, inbox, m)
    BY Readable, Ends DEF Send, Net
  <2> QED
    BY <2>1, ReachedBox
<1>2. Other(p) \in Peer /\ inbox[Other(p)] \in Seq(To(Other(p)))
  BY Ends DEF Net
<1>3. Append(inbox[Other(p)], m) \in Seq(To(Other(p)))
  BY <1>2
<1>4. ASSUME NEW q \in Peer
      PROVE  /\ inbox'[q] \in Seq(To(q))
             /\ inbox[q] = <<>> => inbox'[q] = <<>> \/
                  (conn[q] # "none" /\ q \notin dialing)
  <2>1. CASE q = p
    BY <1>1, <2>1 DEF Net
  <2>2. CASE q = Other(p)
    <3>1. CASE conn[p] = "live" /\ p \notin dialing
      <4>1. conn[q] = "live" /\ q \notin dialing
        BY <2>2, <3>1, WrittenTo
      <4> QED
        BY <1>1, <1>3, <2>2, <3>1, <4>1
    <3>2. CASE ~(conn[p] = "live" /\ p \notin dialing)
      BY <1>1, <1>2, <2>2, <3>2
    <3> QED
      BY <3>1, <3>2
  <2> QED
    BY <2>1, <2>2, Ends
<1> QED
  BY <1>1, <1>4, NetBoxes DEF Send

LEMMA AnswerNet ==
  ASSUME Net, NEW p \in Peer, NEW t, Receive(p, t), NEW m \in To(Other(p)), Answer(p, m)
  PROVE  Net'
<1>1. /\ Consumed(p)[p] = Tail(inbox[p])
      /\ Consumed(p)[Other(p)] = inbox[Other(p)] /\ Tail(inbox[p]) \in Seq(To(p))
      /\ Consumed(p) \in [Peer -> Seq(Packet)] /\ inbox[p] # <<>>
  BY Received
<1>2. /\ inbox' \in [Peer -> Seq(Packet)] /\ inbox'[p] = Tail(inbox[p])
      /\ conn[p] = "live" /\ p \notin dialing =>
           inbox'[Other(p)] = Append(inbox[Other(p)], m)
      /\ ~(conn[p] = "live" /\ p \notin dialing) => inbox'[Other(p)] = inbox[Other(p)]
  <2> DEFINE box == Consumed(p)
  <2>1. box \in [Peer -> Seq(Packet)] /\ inbox' = Reached(p, box, m)
    BY <1>1 DEF Answer
  <2> HIDE DEF box
  <2>2. /\ inbox' \in [Peer -> Seq(Packet)] /\ inbox'[p] = box[p]
        /\ conn[p] = "live" /\ p \notin dialing =>
             inbox'[Other(p)] = Append(box[Other(p)], m)
        /\ ~(conn[p] = "live" /\ p \notin dialing) => inbox'[Other(p)] = box[Other(p)]
    BY <2>1, ReachedBox, Readable, Ends
  <2> QED
    BY <1>1, <2>2 DEF box
<1>3. Other(p) \in Peer /\ inbox[Other(p)] \in Seq(To(Other(p)))
  BY Ends DEF Net
<1>4. Append(inbox[Other(p)], m) \in Seq(To(Other(p)))
  BY <1>3
<1>5. ASSUME NEW q \in Peer
      PROVE  /\ inbox'[q] \in Seq(To(q))
             /\ inbox[q] = <<>> => inbox'[q] = <<>> \/
                  (conn[q] # "none" /\ q \notin dialing)
  <2>1. CASE q = p
    BY <1>1, <1>2, <2>1
  <2>2. CASE q = Other(p)
    <3>1. CASE conn[p] = "live" /\ p \notin dialing
      <4>1. conn[q] = "live" /\ q \notin dialing
        BY <2>2, <3>1, WrittenTo
      <4> QED
        BY <1>2, <1>4, <2>2, <3>1, <4>1
    <3>2. CASE ~(conn[p] = "live" /\ p \notin dialing)
      BY <1>2, <1>3, <2>2, <3>2
    <3> QED
      BY <3>1, <3>2
  <2> QED
    BY <2>1, <2>2, Ends
<1> QED
  BY <1>2, <1>5, NetBoxes DEF Answer

\* A descriptor that is closed.
LEMMA HangUpNet ==
  ASSUME Net, NEW p \in Peer, HangUp(p)
  PROVE  /\ Net' /\ conn'[p] = "none" /\ p \notin dialing' /\ dialing' \subseteq dialing
         /\ inbox'[p] = <<>> /\ inbox'[Other(p)] = inbox[Other(p)]
         /\ conn'[Other(p)] = "none" <=> conn[Other(p)] = "none"
         /\ conn'[Other(p)] = "live" => conn[Other(p)] = "live" /\ Other(p) \in dialing
<1>1. /\ conn'[p] = "none"
      /\ conn'[Other(p)] = IF conn[Other(p)] = "live" /\ Other(p) \notin dialing
                           THEN "dead" ELSE conn[Other(p)]
      /\ DOMAIN conn' = Peer
  BY Ends DEF HangUp
<1>2. inbox'[p] = <<>> /\ inbox'[Other(p)] = inbox[Other(p)] /\ inbox' \in [Peer -> Seq(Packet)]
  <2>1. <<>> \in Seq(Packet)
    OBVIOUS
  <2> QED
    BY <2>1, Ends DEF HangUp, Net
<1>3. queued'[p] = <<>> /\ queued'[Other(p)] = queued[Other(p)] /\ DOMAIN queued' = Peer
  BY Ends DEF HangUp, Net
<1>4. dialing' = dialing \ {p}
  BY DEF HangUp
<1>5. ASSUME NEW q \in Peer
      PROVE  /\ conn'[q] \in {"none", "live", "dead"}
             /\ inbox'[q] \in Seq(To(q)) /\ queued'[q] \in Seq(Hellos)
             /\ conn'[q] = "none" => inbox'[q] = <<>>
             /\ conn'[q] = "live" => (conn'[Other(q)] = "live") = (q \notin dialing')
  <2>1. CASE q = p
    BY <1>1, <1>2, <1>3, <2>1
  <2>2. CASE q = Other(p)
    <3>1. conn[q] \in {"none", "live", "dead"} /\ inbox[q] \in Seq(To(q))
          /\ queued[q] \in Seq(Hellos) /\ (conn[q] = "none" => inbox[q] = <<>>)
      BY DEF Net
    <3>2. Other(q) = p /\ q # p
      BY <2>2, Ends
    <3> QED
      BY <1>1, <1>2, <1>3, <1>4, <2>2, <3>1, <3>2
  <2> QED
    BY <2>1, <2>2, Ends
<1>6. conn' \in [Peer -> {"none", "live", "dead"}]
  BY <1>5 DEF HangUp
<1>7. queued' \in [Peer -> Seq(Hellos)]
  BY <1>5 DEF HangUp, Net
<1>8. "CLIENT" \in dialing' => conn'["CLIENT"] = "live" /\ inbox'["CLIENT"] = <<>>
  <2>1. ASSUME "CLIENT" \in dialing'
        PROVE  conn'["CLIENT"] = "live" /\ inbox'["CLIENT"] = <<>>
    <3>1. "CLIENT" \in dialing /\ Other(p) = "CLIENT"
      BY <1>4, <2>1 DEF Peer, Other
    <3> QED
      BY <1>1, <1>2, <3>1 DEF Net
  <2> QED
    BY <2>1
<1>9. dialing' \subseteq dialing /\ dialing' \subseteq {"CLIENT"} /\ p \notin dialing'
  BY <1>4 DEF Net
<1>10. Net'
  BY <1>2, <1>5, <1>6, <1>7, <1>8, <1>9 DEF Net
<1> QED
  BY <1>1, <1>2, <1>9, <1>10

\* One session changes, on a connection that stays what it was to the other end.
LEMMA LocalStep ==
  ASSUME SessionTypes, Locals, NEW p \in Peer, NEW s, LocalTo(p, s),
         session' = [session EXCEPT ![p] = s], up' = up, p \in up,
         conn'[Other(p)] = "none" <=> conn[Other(p)] = "none",
         p = "CLIENT" /\ conn'[p] # "none" => s.role = "CLIENT",
         p = "CLIENT" /\ "CLIENT" \in dialing' => ~s.started,
         p = "SERVER" /\ "CLIENT" \in dialing' => "CLIENT" \in dialing
  PROVE  session' \in [Peer -> SessionType] /\ Locals'
<1>1. /\ session'[p] = s /\ session'[Other(p)] = session[Other(p)]
      /\ session' \in [Peer -> SessionType]
  BY Ends DEF SessionTypes, LocalTo
<1>2. ASSUME NEW q \in Peer
      PROVE  /\ LocalTo(q, session'[q])
             /\ q \notin up' => session'[q] = NewSession /\ conn'[q] = "none"
  <2>1. CASE q = p
    BY <1>1, <2>1
  <2>2. CASE q = Other(p)
    BY <1>1, <2>2 DEF Locals
  <2> QED
    BY <2>1, <2>2, Ends
<1>3. /\ conn'["CLIENT"] # "none" => session'["CLIENT"].role = "CLIENT"
      /\ "CLIENT" \in dialing' => ~session'["CLIENT"].started
  <2>1. CASE p = "CLIENT"
    BY <1>1, <2>1
  <2>2. CASE p = "SERVER"
    <3>1. Other(p) = "CLIENT"
      BY <2>2 DEF Other
    <3> QED
      BY <1>1, <2>2, <3>1 DEF Locals
  <2> QED
    BY <2>1, <2>2 DEF Peer
<1> QED
  BY <1>1, <1>2, <1>3 DEF Locals

\* No session changes.
LEMMA LocalSame ==
  ASSUME SessionTypes, Locals, UNCHANGED <<session, up>>,
         \A p \in Peer : conn'[p] = "none" <=> conn[p] = "none",
         dialing' \subseteq dialing
  PROVE  session' \in [Peer -> SessionType] /\ Locals'
BY DEF SessionTypes, Locals, Peer

\* What a step that changes the sessions but no other local part has to show.
LEMMA Disconnect ==
  ASSUME BaseInv, NEW p \in Peer, NEW ended \in BOOLEAN, HandlePeerDisconnect(p, ended),
         p \in up, up' = up
  PROVE  SessionTypes' /\ found' \subseteq Peer /\ Net' /\ Locals'
<1> DEFINE s == session[p]
           stay == s.started /\ ended
           a == [ResetTransportProgress(s) EXCEPT !.connected = FALSE,
                          !.available = FALSE, !.phase = "DISCONNECTED"]
           b == [ResetTransportProgress(s) EXCEPT !.startDone = FALSE,
                          !.available = FALSE, !.started = FALSE, !.role = "UNKNOWN",
                          !.phase = "IDLE"]
           r == IF stay THEN a ELSE b
           d == IF stay THEN pend[p] ELSE IF s.started /\ pend[p].set THEN TokenOnly ELSE NoPending
<1>1. LocalTo(p, s)
  BY DEF BaseInv, Locals
<1>2. LocalTo(p, a) /\ LocalTo(p, b)
  BY <1>1, HungUpLocal
<1>3. HangUp(p) /\ session' = [session EXCEPT ![p] = r] /\ pend' = [pend EXCEPT ![p] = d]
  BY DEF HandlePeerDisconnect, BaseInv, SessionTypes
<1>4. LocalTo(p, r)
  BY <1>2
<1>5. d \in Pending
  BY DEF BaseInv, SessionTypes, Pending, TokenOnly, NoPending
<1>6. found' \subseteq Peer
  BY DEF HandlePeerDisconnect, BaseInv, SetTypes
<1> HIDE DEF s, stay, a, b, r, d
<1>7. /\ Net' /\ conn'[p] = "none" /\ p \notin dialing' /\ dialing' \subseteq dialing
      /\ conn'[Other(p)] = "none" <=> conn[Other(p)] = "none"
  BY <1>3, HangUpNet DEF BaseInv
<1>8. session' \in [Peer -> SessionType] /\ Locals'
  BY <1>3, <1>4, <1>7, LocalStep DEF BaseInv
<1>9. pend' \in [Peer -> Pending]
  BY <1>3, <1>5 DEF BaseInv, SessionTypes
<1> QED
  BY <1>6, <1>7, <1>8, <1>9 DEF SessionTypes

-----------------------------------------------------------------------------
(* The shape of the state in the initial state and after each step *)

LEMMA InitBase ==
  Init => BaseInv
<1> SUFFICES ASSUME Init PROVE BaseInv
  OBVIOUS
<1>1. PICK known \in BOOLEAN :
       session = [p \in Peer |->
         IF p = "SERVER"
         THEN [NewSession EXCEPT !.phase = "GAME_STARTING", !.role = p,
                 !.available = TRUE, !.helloSent = TRUE,
                 !.helloReceived = TRUE, !.hello = TRUE,
                 !.challengeDone = TRUE]
         ELSE [SetRemote([NewSession EXCEPT !.role = p, !.available = known,
                 !.connected = TRUE, !.helloSent = TRUE,
                 !.helloReceived = TRUE, !.hello = TRUE,
                 !.challengeDone = TRUE])
                 EXCEPT !.phase = "GAME_STARTING"]]
  BY DEF Init
<1>2. LocalTo("SERVER", session["SERVER"]) /\ ~session["SERVER"].started
  BY <1>1 DEF LocalTo, NewSession, SessionType, Phase, Peer
<1>3. /\ LocalTo("CLIENT", session["CLIENT"]) /\ session["CLIENT"].role = "CLIENT"
      /\ ~session["CLIENT"].started
  <2> DEFINE n == [NewSession EXCEPT !.role = "CLIENT", !.available = known,
                 !.connected = TRUE, !.helloSent = TRUE,
                 !.helloReceived = TRUE, !.hello = TRUE,
                 !.challengeDone = TRUE]
  <2>1. LocalTo("CLIENT", n) /\ n.role = "CLIENT" /\ ~n.started
    BY DEF LocalTo, NewSession, SessionType, Phase, Peer
  <2>2. session["CLIENT"] = [SetRemote(n) EXCEPT !.phase = "GAME_STARTING"]
    BY <1>1 DEF Peer
  <2> HIDE DEF n
  <2>3. /\ LocalTo("CLIENT", SetRemote(n)) /\ SetRemote(n).role = "CLIENT"
        /\ ~SetRemote(n).started
    BY <2>1, SetRemoteLocal DEF Peer
  <2> QED
    BY <2>2, <2>3 DEF LocalTo, SessionType, Phase
<1>4. session \in [Peer -> SessionType]
  BY <1>1, <1>2, <1>3 DEF LocalTo, Peer
<1>5. SessionTypes
  BY <1>4 DEF Init, SessionTypes, Pending, NoPending
<1>6. BoardTypes
  <2>1. <<>> \in Seq(Moves)
    OBVIOUS
  <2>2. hist = [p \in Peer |-> <<>>] /\ over = [p \in Peer |-> FALSE]
        /\ snap = [p \in Peer |-> NoSnapshot]
    BY DEF Init
  <2> QED
    BY <2>1, <2>2 DEF BoardTypes
<1>7. SetTypes
  <2>1. MaxCrashes \in Nat /\ MaxBreaks \in Nat
    BY BoundsAssumption
  <2>2. 0 \in 0..MaxCrashes /\ 0 \in 0..MaxBreaks
    BY <2>1
  <2>3. rfile = {} /\ target = {} /\ found = Peer /\ up = Peer /\ crashes = 0 /\ breaks = 0
    BY DEF Init
  <2> QED
    BY <2>2, <2>3 DEF SetTypes
<1>8. Net
  <2>1. <<>> \in Seq(Packet) /\ <<>> \in Seq(Hellos) /\ \A p \in Peer : <<>> \in Seq(To(p))
    OBVIOUS
  <2>2. /\ conn = [p \in Peer |-> "live"] /\ inbox = [p \in Peer |-> <<>>]
        /\ dialing = {} /\ queued = [p \in Peer |-> <<>>]
    BY DEF Init
  <2>3. inbox \in [Peer -> Seq(Packet)] /\ queued \in [Peer -> Seq(Hellos)]
    BY <2>1, <2>2
  <2> QED
    BY <2>1, <2>2, <2>3, Ends DEF Net
<1>9. Locals
  BY <1>2, <1>3 DEF Init, Locals, Peer
<1> QED
  BY <1>5, <1>6, <1>7, <1>8, <1>9 DEF BaseInv

LEMMA BaseDiscover ==
  ASSUME BaseInv, NEW p \in Peer, Discover(p)
  PROVE  BaseInv'
<1> DEFINE t == SetRemote(session[p])
           s == IF HasResumeTarget(p) THEN [t EXCEPT !.role = "CLIENT"] ELSE session[p]
<1>1. session' = [session EXCEPT ![p] = s]
  BY DEF Discover, BaseInv, SessionTypes
<1>2. LocalTo(p, session[p]) /\ ~session[p].started /\ p \in up
  BY DEF Discover, BaseInv, Locals
<1>3. LocalTo(p, t) /\ ~t.started /\ t.role = session[p].role
  BY <1>2, SetRemoteLocal
<1> HIDE DEF t
<1>4. /\ LocalTo(p, s) /\ ~s.started
      /\ p = "CLIENT" /\ session[p].role = "CLIENT" => s.role = "CLIENT"
  <2>1. CASE HasResumeTarget(p)
    <3>1. p = "CLIENT"
      BY <2>1 DEF HasResumeTarget, BaseInv, SetTypes
    <3> QED
      BY <1>3, <2>1, <3>1 DEF LocalTo, SessionType, Peer
  <2>2. CASE ~HasResumeTarget(p)
    BY <1>2, <2>2
  <2> QED
    BY <2>1, <2>2
<1> HIDE DEF s
<1>5. UNCHANGED <<pend, board, net, disk, target, env>> /\ found' \subseteq Peer
  BY DEF Discover, BaseInv, SetTypes
<1>6. p = "CLIENT" /\ conn'[p] # "none" => s.role = "CLIENT"
  BY <1>4, <1>5 DEF BaseInv, Locals, net
<1>7. session' \in [Peer -> SessionType] /\ Locals'
  <2>1. up' = up /\ conn' = conn /\ dialing' = dialing
    BY <1>5 DEF net, env
  <2> QED
    BY <1>1, <1>2, <1>4, <1>6, <2>1, LocalStep DEF BaseInv
<1>8. Net'
  BY <1>5, NetUnchanged DEF BaseInv
<1> QED
  BY <1>5, <1>7, <1>8 DEF BaseInv, SessionTypes, BoardTypes, SetTypes, board, disk, env

LEMMA BaseDial ==
  ASSUME BaseInv, NEW p \in Peer, Dial(p)
  PROVE  BaseInv'
<1>1. /\ UNCHANGED <<session, pend, board, inbox, queued, disk, target, found, env>>
      /\ conn' = [conn EXCEPT ![p] = "live"] /\ dialing' = dialing \cup {p}
      /\ conn[p] = "none" /\ p \in up /\ session[p].role = "CLIENT"
      /\ session[p].phase = "TCP_CONNECTING"
  BY DEF Dial, Redialing, Connecting
<1>2. p = "CLIENT" /\ ~session[p].started
  BY <1>1 DEF BaseInv, Locals, LocalTo, Peer
<1>3. /\ conn'["CLIENT"] = "live" /\ conn'["SERVER"] = conn["SERVER"]
      /\ conn["SERVER"] # "live" /\ dialing' = {"CLIENT"}
      /\ conn' \in [Peer -> {"none", "live", "dead"}]
  <2>1. "SERVER" \notin dialing
    BY DEF BaseInv, Net
  <2>2. conn["SERVER"] = "live" => conn["CLIENT"] = "live"
    BY <2>1 DEF BaseInv, Net, Peer, Other
  <2> QED
    BY <1>1, <1>2, <2>2 DEF BaseInv, Net, Peer
<1>4. Net'
  BY <1>1, <1>2, <1>3 DEF BaseInv, Net, Peer, Other
<1>5. session' \in [Peer -> SessionType] /\ Locals'
  BY <1>1, <1>2, <1>3 DEF BaseInv, SessionTypes, Locals, Peer, env
<1> QED
  BY <1>1, <1>4, <1>5 DEF BaseInv, SessionTypes, BoardTypes, SetTypes, board, disk, env

LEMMA BaseFinalizeConnect ==
  ASSUME BaseInv, NEW p \in Peer, FinalizeConnect(p)
  PROVE  BaseInv'
<1>1. /\ UNCHANGED <<pend, board, disk, target, found, env>>
      /\ p = "CLIENT" /\ p \in up /\ session[p].role = "CLIENT"
      /\ LocalTo(p, session[p]) /\ ~session[p].started
  BY DEF FinalizeConnect, Redialing, Connecting, BaseInv, Locals, LocalTo, Peer
<1>2. Net' /\ session' \in [Peer -> SessionType] /\ Locals'
  <2>1. CASE session' = [session EXCEPT ![p].connected = TRUE] /\ UNCHANGED net
    <3> DEFINE s == [session[p] EXCEPT !.connected = TRUE]
    <3>1. session' = [session EXCEPT ![p] = s]
      BY <2>1
    <3>2. LocalTo(p, s) /\ ~s.started /\ s.role = "CLIENT"
      BY <1>1 DEF LocalTo, SessionType
    <3> HIDE DEF s
    <3>3. up' = up /\ conn' = conn /\ dialing' = dialing
      BY <1>1, <2>1 DEF net, env
    <3>4. session' \in [Peer -> SessionType] /\ Locals'
      BY <1>1, <3>1, <3>2, <3>3, LocalStep DEF BaseInv
    <3> QED
      BY <2>1, <3>4, NetUnchanged DEF BaseInv
  <2>2. CASE HangUp(p) /\ UNCHANGED session
    <3>1. /\ Net' /\ conn'[p] = "none" /\ dialing' \subseteq dialing
          /\ conn'[Other(p)] = "none" <=> conn[Other(p)] = "none"
      BY <2>2, HangUpNet DEF BaseInv
    <3>2. Other(p) = "SERVER"
      BY <1>1 DEF Other
    <3>3. up' = up /\ session' = session
      BY <1>1, <2>2 DEF env
    <3>4. session' \in [Peer -> SessionType]
      BY <3>3 DEF BaseInv, SessionTypes
    <3>5. Locals'
      BY <1>1, <3>1, <3>2, <3>3 DEF BaseInv, Locals, Peer
    <3> QED
      BY <3>1, <3>4, <3>5
  <2> QED
    BY <2>1, <2>2 DEF FinalizeConnect
<1> QED
  BY <1>1, <1>2 DEF BaseInv, SessionTypes, BoardTypes, SetTypes, board, disk, env

LEMMA BaseAccept ==
  ASSUME BaseInv, NEW p \in Peer, Accept(p)
  PROVE  BaseInv'
<1>1. /\ UNCHANGED <<session, pend, board, disk, target, found, env>>
      /\ conn' = [conn EXCEPT ![p] = "live"] /\ dialing' = dialing \ {Other(p)}
      /\ inbox' = [inbox EXCEPT ![p] = queued[Other(p)]]
      /\ queued' = [queued EXCEPT ![Other(p)] = <<>>]
      /\ conn[p] = "none" /\ p \in up /\ Other(p) \in dialing
  BY DEF Accept, Connecting
<1>2. p = "SERVER" /\ Other(p) = "CLIENT"
  BY <1>1 DEF BaseInv, Net, Peer, Other
<1>9. queued["CLIENT"] \in Seq(Packet)
  <2>1. queued["CLIENT"] \in Seq(Hellos) /\ Hellos \subseteq Packet
    BY Readable DEF BaseInv, Net, Peer
  <2> QED
    BY <2>1
<1>3. /\ conn'["SERVER"] = "live" /\ conn'["CLIENT"] = conn["CLIENT"]
      /\ conn["CLIENT"] = "live" /\ dialing' = {}
      /\ inbox'["SERVER"] = queued["CLIENT"] /\ inbox'["CLIENT"] = inbox["CLIENT"]
      /\ conn' \in [Peer -> {"none", "live", "dead"}] /\ inbox' \in [Peer -> Seq(Packet)]
  BY <1>1, <1>2, <1>9 DEF BaseInv, Net, Peer
<1>4. queued' \in [Peer -> Seq(Hellos)]
  <2>1. <<>> \in Seq(Hellos) /\ queued \in [Peer -> Seq(Hellos)]
    BY DEF BaseInv, Net
  <2> QED
    BY <1>1, <2>1
<1>5. queued["CLIENT"] \in Seq(To("SERVER"))
  <2>1. queued["CLIENT"] \in Seq(Hellos) /\ Hellos \subseteq To("SERVER")
    BY Readable DEF BaseInv, Net, Peer
  <2> QED
    BY <2>1
<1>6. \A q \in Peer : inbox'[q] \in Seq(To(q))
  BY <1>3, <1>5 DEF BaseInv, Net, Peer
<1>7. Net'
  BY <1>3, <1>4, <1>6 DEF Net, Peer, Other
<1>8. session' \in [Peer -> SessionType] /\ Locals'
  BY <1>1, <1>2, <1>3 DEF BaseInv, SessionTypes, Locals, Peer, env
<1> QED
  BY <1>1, <1>7, <1>8 DEF BaseInv, SessionTypes, BoardTypes, SetTypes, board, disk, env

\* A HELLO that a connection not accepted yet keeps.
LEMMA HelloNet ==
  ASSUME Net, NEW p \in Peer, inbox' = Reached(p, inbox, Bare("HELLO")),
         queued' = IF p \in dialing THEN [queued EXCEPT ![p] = Append(@, Bare("HELLO"))]
                   ELSE queued,
         UNCHANGED <<conn, dialing>>
  PROVE  Net'
<1>1. queued' \in [Peer -> Seq(Hellos)]
  <2>1. queued[p] \in Seq(Hellos) /\ Bare("HELLO") \in Hellos
    BY DEF Net, Hellos
  <2>2. Append(queued[p], Bare("HELLO")) \in Seq(Hellos)
    BY <2>1
  <2> QED
    BY <2>2 DEF Net
<1>2. CASE p \in dialing
  <2>1. inbox' = inbox
    BY <1>2 DEF Reached
  <2> QED
    BY <1>1, <2>1 DEF Net
<1>3. CASE p \notin dialing
  <2>1. Send(p, Bare("HELLO"))
    BY <1>3 DEF Send
  <2> QED
    BY <2>1, SendNet, Packets, Ends
<1> QED
  BY <1>2, <1>3

LEMMA BaseAdvanceHelloClient ==
  ASSUME BaseInv, NEW p \in Peer, AdvanceHelloClient(p)
  PROVE  BaseInv'
<1> DEFINE r == [session[p] EXCEPT !.helloSent = TRUE]
           s == IF session[p].helloReceived THEN Authenticated(r) ELSE r
<1>1. /\ UNCHANGED <<pend, board, disk, target, found, env>> /\ p \in up
      /\ session[p].role = "CLIENT" /\ UNCHANGED <<conn, dialing>>
      /\ session' = [session EXCEPT ![p] = s]
  BY DEF AdvanceHelloClient, net
<1>2. LocalTo(p, session[p]) /\ p = "CLIENT"
  BY <1>1 DEF BaseInv, Locals, LocalTo, Peer
<1>3. /\ LocalTo(p, s) /\ s.role = "CLIENT" /\ s.started = session[p].started
  <2>1. LocalTo(p, r) /\ r.role = "CLIENT" /\ r.started = session[p].started
    BY <1>1, <1>2 DEF LocalTo, SessionType
  <2> HIDE DEF r
  <2>2. /\ LocalTo(p, Authenticated(r)) /\ Authenticated(r).role = "CLIENT"
        /\ Authenticated(r).started = r.started
    BY <2>1 DEF Authenticated, LocalTo, SessionType, Phase
  <2> QED
    BY <2>1, <2>2
<1> HIDE DEF s
<1>4. Net'
  BY HelloNet, NetUnchanged DEF AdvanceHelloClient, BaseInv
<1>5. "CLIENT" \in dialing' => ~s.started
  BY <1>1, <1>3, <1>2 DEF BaseInv, Locals
<1>6. session' \in [Peer -> SessionType] /\ Locals'
  <2>1. up' = up
    BY <1>1 DEF env
  <2> QED
    BY <1>1, <1>2, <1>3, <1>5, <2>1, LocalStep DEF BaseInv
<1> QED
  BY <1>1, <1>4, <1>6 DEF BaseInv, SessionTypes, BoardTypes, SetTypes, board, disk, env

LEMMA BaseAdvanceHelloServer ==
  ASSUME BaseInv, NEW p \in Peer, AdvanceHelloServer(p)
  PROVE  BaseInv'
<1> DEFINE r == [session[p] EXCEPT !.role = "SERVER"]
           h == [session[p] EXCEPT !.role = "SERVER", !.helloSent = TRUE]
           s == IF session[p].helloReceived THEN Authenticated(h) ELSE r
<1>1. /\ UNCHANGED <<pend, board, disk, target, found, env>> /\ p \in up
      /\ session[p].role # "CLIENT" /\ conn[p] # "none" /\ UNCHANGED <<conn, dialing>>
      /\ session' = [session EXCEPT ![p] = s]
  BY DEF AdvanceHelloServer, net, Send
<1>2. LocalTo(p, session[p]) /\ p = "SERVER"
  BY <1>1 DEF BaseInv, Locals, Peer
<1>3. LocalTo(p, s)
  <2>1. /\ r \in SessionType /\ r.role = p /\ r.phase = session[p].phase
        /\ r.started = session[p].started /\ r.startDone = session[p].startDone
    BY <1>2 DEF LocalTo, SessionType, Peer
  <2>2. /\ h \in SessionType /\ h.role = p /\ h.phase = session[p].phase
        /\ h.started = session[p].started /\ h.startDone = session[p].startDone
    BY <1>2 DEF LocalTo, SessionType, Peer
  <2>3. LocalTo(p, r) /\ LocalTo(p, h)
    BY <1>2, <2>1, <2>2 DEF LocalTo
  <2> HIDE DEF r, h
  <2>4. /\ Authenticated(h) \in SessionType /\ Authenticated(h).role = p
        /\ Authenticated(h).started = h.started /\ Authenticated(h).startDone = h.startDone
        /\ Authenticated(h).phase = "AUTHENTICATED"
    BY <2>2 DEF Authenticated, SessionType, Phase
  <2>5. LocalTo(p, Authenticated(h))
    BY <2>3, <2>2, <2>4 DEF LocalTo
  <2> QED
    BY <2>3, <2>5
<1> HIDE DEF s
<1>4. Net'
  BY SendNet, Packets, Ends, NetUnchanged DEF AdvanceHelloServer, BaseInv
<1>5. session' \in [Peer -> SessionType] /\ Locals'
  <2>1. up' = up
    BY <1>1 DEF env
  <2> QED
    BY <1>1, <1>2, <1>3, <2>1, LocalStep DEF BaseInv
<1> QED
  BY <1>1, <1>4, <1>5 DEF BaseInv, SessionTypes, BoardTypes, SetTypes, board, disk, env

\* One session changes and the connection stays what it was: what remains is
\* the session itself.
LEMMA LocalOnly ==
  ASSUME SessionTypes, Locals, NEW p \in Peer, NEW s, LocalTo(p, s),
         session' = [session EXCEPT ![p] = s], p \in up,
         UNCHANGED <<conn, dialing>>, up' = up,
         session[p].role = p => s.role = p, s.started => session[p].started \/ p \notin dialing
  PROVE  session' \in [Peer -> SessionType] /\ Locals'
<1>1. p = "CLIENT" /\ conn'[p] # "none" => s.role = "CLIENT"
  BY DEF Locals
<1>2. p = "CLIENT" /\ "CLIENT" \in dialing' => ~s.started
  BY DEF Locals
<1> QED
  BY <1>1, <1>2, LocalStep

LEMMA BaseSendResumeRequest ==
  ASSUME BaseInv, NEW p \in Peer, SendResumeRequest(p)
  PROVE  BaseInv'
<1> DEFINE s == [session[p] EXCEPT !.resumeSent = TRUE]
<1>1. /\ UNCHANGED <<pend, board, disk, target, found, env>> /\ p \in up
      /\ session[p].role = "CLIENT" /\ Send(p, Bare("RESUME_REQUEST"))
      /\ session' = [session EXCEPT ![p] = s]
  BY DEF SendResumeRequest
<1>2. LocalTo(p, session[p]) /\ p = "CLIENT"
  BY <1>1 DEF BaseInv, Locals, LocalTo, Peer
<1>3. LocalTo(p, s) /\ s.role = session[p].role /\ s.started = session[p].started
  BY <1>2 DEF LocalTo, SessionType
<1> HIDE DEF s
<1>4. Net'
  <2>1. Other(p) = "SERVER"
    BY <1>2 DEF Other
  <2> QED
    BY <1>1, <2>1, SendNet, Packets DEF BaseInv
<1>5. session' \in [Peer -> SessionType] /\ Locals'
  BY <1>1, <1>3, LocalOnly DEF BaseInv, Send, env
<1> QED
  BY <1>1, <1>4, <1>5 DEF BaseInv, SessionTypes, BoardTypes, SetTypes, board, disk, env

LEMMA BaseSendStart ==
  ASSUME BaseInv, NEW p \in Peer, SendStart(p)
  PROVE  BaseInv'
<1> DEFINE s == [session[p] EXCEPT !.startSent = TRUE]
<1>1. PICK c \in IF pend[p].set THEN {pend[p].color} ELSE Color :
           /\ pend' = [pend EXCEPT ![p] = [set |-> TRUE, color |-> c]]
           /\ Send(p, StartMsg(c))
  BY DEF SendStart
<1>2. /\ UNCHANGED <<board, disk, target, found, env>> /\ p \in up
      /\ session[p].role = "SERVER"
      /\ session' = [session EXCEPT ![p] = s]
  BY DEF SendStart, StartDue
<1>3. c \in {"UNASSIGNED"} \cup Color
  BY <1>1 DEF BaseInv, SessionTypes, Pending
<1>4. LocalTo(p, session[p]) /\ Other(p) = "CLIENT"
  BY <1>2 DEF BaseInv, Locals, LocalTo, Peer, Other
<1>5. LocalTo(p, s) /\ s.role = session[p].role /\ s.started = session[p].started
  BY <1>4 DEF LocalTo, SessionType
<1> HIDE DEF s
<1>6. Net'
  BY <1>1, <1>3, <1>4, SendNet, Packets DEF BaseInv
<1>7. session' \in [Peer -> SessionType] /\ Locals'
  BY <1>1, <1>2, <1>5, LocalOnly DEF BaseInv, Send, env
<1>8. pend' \in [Peer -> Pending]
  BY <1>1, <1>3 DEF BaseInv, SessionTypes, Pending
<1> QED
  BY <1>2, <1>6, <1>7, <1>8 DEF BaseInv, SessionTypes, BoardTypes, SetTypes, board, disk, env

LEMMA BaseRetryStart ==
  ASSUME BaseInv, NEW p \in Peer, RetryStart(p)
  PROVE  BaseInv'
<1> DEFINE s == [session[p] EXCEPT !.startSent = FALSE]
<1>1. /\ UNCHANGED <<pend, board, net, disk, target, found, env>> /\ p \in up
      /\ session' = [session EXCEPT ![p] = s]
  BY DEF RetryStart
<1>2. LocalTo(p, session[p])
  BY DEF BaseInv, Locals
<1>3. LocalTo(p, s) /\ s.role = session[p].role /\ s.started = session[p].started
  BY <1>2 DEF LocalTo, SessionType
<1> HIDE DEF s
<1>4. session' \in [Peer -> SessionType] /\ Locals'
  BY <1>1, <1>3, LocalOnly DEF BaseInv, net, env
<1>5. Net'
  BY <1>1, NetUnchanged DEF BaseInv
<1> QED
  BY <1>1, <1>4, <1>5 DEF BaseInv, SessionTypes, BoardTypes, SetTypes, board, disk, env

LEMMA BaseSendStateSnapshot ==
  ASSUME BaseInv, NEW p \in Peer, SendStateSnapshot(p)
  PROVE  BaseInv'
<1> DEFINE s == [session[p] EXCEPT !.syncPending = FALSE]
<1>1. /\ UNCHANGED <<pend, board, disk, target, found, env>> /\ p \in up
      /\ session' = [session EXCEPT ![p] = s]
      /\ session[p].role = "SERVER" /\ Send(p, SnapshotMsg(hist[p], over[p]))
  BY DEF SendStateSnapshot, SnapshotDue
<1>2. LocalTo(p, session[p]) /\ Other(p) = "CLIENT"
  BY <1>1 DEF BaseInv, Locals, LocalTo, Peer, Other
<1>3. LocalTo(p, s) /\ s.role = session[p].role /\ s.started = session[p].started
  BY <1>2 DEF LocalTo, SessionType
<1> HIDE DEF s
<1>4. Net'
  <2>1. hist[p] \in Seq(Moves) /\ over[p] \in BOOLEAN
    BY DEF BaseInv, BoardTypes
  <2>2. SnapshotMsg(hist[p], over[p]) \in To(Other(p))
    BY <1>2, <2>1, Packets
  <2> QED
    BY <1>1, <2>2, SendNet DEF BaseInv
<1>5. session' \in [Peer -> SessionType] /\ Locals'
  BY <1>1, <1>3, LocalOnly DEF BaseInv, Send, env
<1> QED
  BY <1>1, <1>4, <1>5 DEF BaseInv, SessionTypes, BoardTypes, SetTypes, board, disk, env

LEMMA BaseHandleHello ==
  ASSUME BaseInv, NEW p \in Peer, HandleHello(p)
  PROVE  BaseInv'
<1> DEFINE s == [session[p] EXCEPT !.helloReceived = TRUE, !.available = TRUE]
<1>1. /\ UNCHANGED <<pend, board, disk, target, found, env>> /\ p \in up
      /\ session' = [session EXCEPT ![p] = s]
      /\ Receive(p, "HELLO") /\ Consume(p)
  BY DEF HandleHello, Receive, Reading
<1>2. LocalTo(p, session[p])
  BY DEF BaseInv, Locals
<1>3. LocalTo(p, s) /\ s.role = session[p].role /\ s.started = session[p].started
  BY <1>2 DEF LocalTo, SessionType
<1> HIDE DEF s
<1>4. session' \in [Peer -> SessionType] /\ Locals'
  BY <1>1, <1>3, LocalOnly DEF BaseInv, Consume, env
<1>5. Net'
  BY <1>1, ConsumeNet DEF BaseInv
<1> QED
  BY <1>1, <1>4, <1>5 DEF BaseInv, SessionTypes, BoardTypes, SetTypes, board, disk, env

\* START and ACK put on the board what the file of the game holds, or nothing.
LEMMA BaseHandleStart ==
  ASSUME BaseInv, NEW p \in Peer, HandleStart(p)
  PROVE  BaseInv'
<1> DEFINE c == Head(inbox[p]).color
           b == LoadMatch(p)
           s == StartGame(session[p], c)
<1>1. UNCHANGED <<snap, found, env>> /\ Receive(p, "START")
  BY DEF HandleStart
<1>2. CASE /\ StartAcceptable(p) /\ Answer(p, Bare("ACK"))
           /\ session' = [session EXCEPT ![p] = s]
           /\ pend' = [pend EXCEPT ![p] = [set |-> TRUE, color |-> c]]
           /\ hist' = [hist EXCEPT ![p] = b.hist]
           /\ over' = [over EXCEPT ![p] = b.over]
           /\ rfile' = rfile \cup {p} /\ target' = target \cup {p}
  <2>1. p = "CLIENT" /\ LocalTo(p, session[p]) /\ session[p].role = p /\ Other(p) = "SERVER"
    BY <1>2 DEF StartAcceptable, BaseInv, Locals, LocalTo, Peer, Other
  <2>2. c \in {"UNASSIGNED"} \cup Color /\ p \in up /\ p \notin dialing
    BY <1>1, <2>1, Received, Payloads DEF BaseInv
  <2>3. b.hist \in Seq(Moves) /\ b.over \in BOOLEAN
    BY SnapshotFields DEF BaseInv
  <2> HIDE DEF c, b
  <2>4. LocalTo(p, s) /\ s.role = p
    BY <2>1, <2>2, StartGameLocal
  <2> HIDE DEF s
  <2>5. Net'
    BY <1>1, <1>2, <2>1, AnswerNet, Packets DEF BaseInv
  <2>6. session' \in [Peer -> SessionType] /\ Locals'
    BY <1>1, <1>2, <2>2, <2>4, LocalOnly DEF BaseInv, Answer, env
  <2>7. pend' \in [Peer -> Pending] /\ BoardTypes'
    BY <1>1, <1>2, <2>2, <2>3 DEF BaseInv, SessionTypes, Pending, BoardTypes
  <2>8. SetTypes'
    BY <1>1, <1>2, <2>1 DEF BaseInv, SetTypes, env
  <2> QED
    BY <2>5, <2>6, <2>7, <2>8 DEF BaseInv, SessionTypes
<1>3. CASE Consume(p) /\ UNCHANGED <<session, pend, board, rfile, target>>
  <2>1. Net'
    BY <1>1, <1>3, ConsumeNet DEF BaseInv
  <2>2. session' \in [Peer -> SessionType] /\ Locals'
    BY <1>1, <1>3, LocalSame DEF BaseInv, Consume, env
  <2> QED
    BY <1>1, <1>3, <2>1, <2>2 DEF BaseInv, SessionTypes, BoardTypes, SetTypes, board, env
<1> QED
  BY <1>2, <1>3 DEF HandleStart

LEMMA BaseHandleAck ==
  ASSUME BaseInv, NEW p \in Peer, HandleAck(p)
  PROVE  BaseInv'
<1> DEFINE c == Opposite(pend[p].color)
           b == LoadMatch(p)
           s == StartGame(session[p], c)
<1>1. UNCHANGED <<pend, rfile, target, found, env>> /\ Receive(p, "ACK") /\ Consume(p)
  BY DEF HandleAck
<1>2. Net' /\ p \in up
  BY <1>1, ConsumeNet DEF BaseInv, Receive, Reading
<1>3. CASE /\ session[p].role = "SERVER" /\ session' = [session EXCEPT ![p] = s]
           /\ hist' = [hist EXCEPT ![p] = b.hist]
           /\ over' = [over EXCEPT ![p] = b.over]
           /\ snap' = [snap EXCEPT ![p] = Record(p, c, b.hist, b.over)]
  <2>1. p = "SERVER" /\ LocalTo(p, session[p]) /\ session[p].role = p
    BY <1>3 DEF BaseInv, Locals, LocalTo, Peer
  <2>2. c \in {"UNASSIGNED"} \cup Color /\ p \notin dialing
    BY <2>1 DEF BaseInv, SessionTypes, Pending, Opposite, Color, Net
  <2>3. b.hist \in Seq(Moves) /\ b.over \in BOOLEAN
    BY SnapshotFields DEF BaseInv
  <2> HIDE DEF c, b
  <2>4. LocalTo(p, s) /\ s.role = p
    BY <2>1, <2>2, StartGameLocal
  <2> HIDE DEF s
  <2>5. session' \in [Peer -> SessionType] /\ Locals'
    BY <1>1, <1>2, <1>3, <2>2, <2>4, LocalOnly DEF BaseInv, Consume, env
  <2>6. Record(p, c, b.hist, b.over) \in Snapshot
    BY <2>3, RecordType
  <2>7. BoardTypes'
    BY <1>3, <2>3, <2>6 DEF BaseInv, BoardTypes
  <2> QED
    BY <1>1, <1>2, <2>5, <2>7 DEF BaseInv, SessionTypes, SetTypes, env
<1>4. CASE UNCHANGED <<session, board, snap>>
  <2>1. session' \in [Peer -> SessionType] /\ Locals'
    BY <1>1, <1>4, LocalSame DEF BaseInv, Consume, env
  <2> QED
    BY <1>1, <1>2, <1>4, <2>1 DEF BaseInv, SessionTypes, BoardTypes, SetTypes, board, env
<1> QED
  BY <1>3, <1>4 DEF HandleAck, LoadedByAck

\* A resumption is accepted, refused, or undone with the connection.
LEMMA BaseHandleResumeRequest ==
  ASSUME BaseInv, NEW p \in Peer, HandleResumeRequest(p)
  PROVE  BaseInv'
<1> DEFINE known == snap[p] # NoSnapshot
           a == ResumeAccepted(session[p])
           r == [session[p] EXCEPT !.syncPending = FALSE]
           s == IF known THEN a ELSE r
           d == IF known THEN [set |-> TRUE, color |-> RequesterColor(p)] ELSE pend[p]
<1>1. UNCHANGED <<board, disk, target, env>> /\ Receive(p, "RESUME_REQUEST") /\ p \in up
  BY DEF HandleResumeRequest, Receive, Reading
<1>2. CASE Consume(p) /\ UNCHANGED <<session, pend, found>>
  <2>1. Net'
    BY <1>1, <1>2, ConsumeNet DEF BaseInv
  <2>2. session' \in [Peer -> SessionType] /\ Locals'
    BY <1>1, <1>2, LocalSame DEF BaseInv, Consume, env
  <2> QED
    BY <1>1, <1>2, <2>1, <2>2 DEF BaseInv, SessionTypes, BoardTypes, SetTypes, board, disk, env
<1>3. CASE /\ session[p].role = "SERVER" /\ ~session[p].startDone
           /\ session' = [session EXCEPT ![p] = s]
           /\ pend' = [pend EXCEPT ![p] = d]
           /\ Answer(p, ResponseMsg(known)) /\ UNCHANGED found
  <2>1. /\ LocalTo(p, session[p]) /\ session[p].role = p /\ Other(p) = "CLIENT"
        /\ ~session[p].started
    BY <1>3 DEF BaseInv, Locals, LocalTo, Peer, Other
  <2>2. LocalTo(p, a) /\ a.role = p /\ ~a.started
    BY <2>1 DEF ResumeAccepted, LocalTo, SessionType, Phase
  <2>3. LocalTo(p, r) /\ r.role = p /\ ~r.started
    BY <2>1 DEF LocalTo, SessionType
  <2>4. d \in Pending
    BY DEF BaseInv, SessionTypes, Pending, RequesterColor, Color
  <2>5. known \in BOOLEAN
    OBVIOUS
  <2> HIDE DEF known, a, r, d
  <2>6. LocalTo(p, s) /\ s.role = p /\ ~s.started
    BY <2>2, <2>3
  <2> HIDE DEF s
  <2>7. Net'
    <3>1. ResponseMsg(known) \in To(Other(p))
      BY <2>1, <2>5, Packets
    <3> QED
      BY <1>1, <1>3, <3>1, AnswerNet DEF BaseInv
  <2>8. session' \in [Peer -> SessionType] /\ Locals'
    BY <1>1, <1>3, <2>6, LocalOnly DEF BaseInv, Answer, env
  <2>9. pend' \in [Peer -> Pending]
    BY <1>3, <2>4 DEF BaseInv, SessionTypes
  <2> QED
    BY <1>1, <1>3, <2>7, <2>8, <2>9 DEF BaseInv, SessionTypes, BoardTypes, SetTypes, board, disk, env
<1>4. CASE HandlePeerDisconnect(p, over[p])
  <2>1. over[p] \in BOOLEAN /\ up' = up
    BY <1>1 DEF BaseInv, BoardTypes, env
  <2>2. SessionTypes' /\ found' \subseteq Peer /\ Net' /\ Locals'
    BY <1>1, <1>4, <2>1, Disconnect
  <2> QED
    BY <1>1, <2>2 DEF BaseInv, BoardTypes, SetTypes, board, disk, env
<1>5. CASE /\ session[p].role = "SERVER" /\ ~session[p].startDone
           /\ session' = [session EXCEPT ![p] =
                      IF known THEN ResumeAccepted(@)
                      ELSE [@ EXCEPT !.syncPending = FALSE]]
           /\ pend' = IF known
                      THEN [pend EXCEPT ![p] =
                                   [set |-> TRUE, color |-> RequesterColor(p)]]
                      ELSE pend
           /\ Answer(p, ResponseMsg(known)) /\ UNCHANGED found
  <2>1. session' = [session EXCEPT ![p] = s]
    BY <1>5
  <2>2. pend' = [pend EXCEPT ![p] = d]
    BY <1>5 DEF BaseInv, SessionTypes
  <2> HIDE DEF s, d, known
  <2> QED
    BY <1>3, <1>5, <2>1, <2>2
<1> QED
  BY <1>2, <1>4, <1>5 DEF HandleResumeRequest

LEMMA BaseHandleResumeResponse ==
  ASSUME BaseInv, NEW p \in Peer, HandleResumeResponse(p)
  PROVE  BaseInv'
<1>1. /\ UNCHANGED <<session, board, snap, found, env>> /\ Receive(p, "RESUME_RESPONSE")
      /\ Consume(p)
      /\ rfile' \subseteq rfile /\ target' \subseteq target
      /\ pend' = [pend EXCEPT ![p].set = FALSE] \/ pend' = pend
  BY DEF HandleResumeResponse
<1>2. pend' \in [Peer -> Pending]
  BY <1>1 DEF BaseInv, SessionTypes, Pending
<1>3. Net'
  BY <1>1, ConsumeNet DEF BaseInv
<1>4. session' \in [Peer -> SessionType] /\ Locals'
  BY <1>1, LocalSame DEF BaseInv, Consume, env
<1> QED
  BY <1>1, <1>2, <1>3, <1>4 DEF BaseInv, SessionTypes, BoardTypes, SetTypes, board, env

\* What MOVE, RESIGN and STATE_SNAPSHOT change is the board and its file.
LEMMA BaseBoardPacket ==
  ASSUME BaseInv, NEW p \in Peer, NEW t, Receive(p, t), Consume(p), BoardTypes',
         UNCHANGED <<session, pend, rfile, target, found, env>>
  PROVE  BaseInv'
<1>1. Net'
  BY ConsumeNet DEF BaseInv
<1>2. session' \in [Peer -> SessionType] /\ Locals'
  BY LocalSame DEF BaseInv, Consume, env
<1> QED
  BY <1>1, <1>2 DEF BaseInv, SessionTypes, SetTypes, env

LEMMA BaseHandleStateSnapshot ==
  ASSUME BaseInv, NEW p \in Peer, HandleStateSnapshot(p)
  PROVE  BaseInv'
<1> DEFINE m == Head(inbox[p])
           f == Record(p, session[p].color, m.hist, m.over)
<1>1. /\ UNCHANGED <<session, pend, rfile, target, found, env>>
      /\ Receive(p, "STATE_SNAPSHOT") /\ Consume(p)
  BY DEF HandleStateSnapshot
<1>2. m.hist \in Seq(Moves) /\ m.over \in BOOLEAN
  BY <1>1, Received, Payloads DEF BaseInv
<1> HIDE DEF m
<1>3. f \in Snapshot
  BY <1>2, RecordType
<1> HIDE DEF f
<1>4. CASE /\ hist' = [hist EXCEPT ![p] = m.hist]
           /\ over' = [over EXCEPT ![p] = m.over]
           /\ snap' = [snap EXCEPT ![p] = f]
  <2>1. BoardTypes'
    BY <1>2, <1>3, <1>4 DEF BaseInv, BoardTypes
  <2> QED
    BY <1>1, <2>1, BaseBoardPacket
<1>5. CASE UNCHANGED <<board, snap>>
  <2>1. BoardTypes'
    BY <1>5 DEF BaseInv, BoardTypes, board
  <2> QED
    BY <1>1, <2>1, BaseBoardPacket
<1> QED
  BY <1>4, <1>5 DEF HandleStateSnapshot, m, f

LEMMA BaseHandleMove ==
  ASSUME BaseInv, NEW p \in Peer, HandleMove(p)
  PROVE  BaseInv'
<1> DEFINE m == Head(inbox[p]).move
           h == Append(hist[p], m)
<1>1. /\ UNCHANGED <<session, pend, over, rfile, target, found, env>>
      /\ Receive(p, "MOVE") /\ Consume(p)
  BY DEF HandleMove
<1>2. m \in Moves
  BY <1>1, Received, Payloads DEF BaseInv
<1> HIDE DEF m
<1>3. h \in Seq(Moves)
  BY <1>2 DEF BaseInv, BoardTypes
<1> HIDE DEF h
<1>4. CASE hist' = [hist EXCEPT ![p] = h] /\ snap' = RecordMove(p, h)
  <2>1. BoardTypes'
    BY <1>1, <1>3, <1>4, RecordMoveType DEF BaseInv, BoardTypes
  <2> QED
    BY <1>1, <2>1, BaseBoardPacket
<1>5. CASE UNCHANGED <<hist, snap>>
  <2>1. BoardTypes'
    BY <1>1, <1>5 DEF BaseInv, BoardTypes
  <2> QED
    BY <1>1, <2>1, BaseBoardPacket
<1> QED
  BY <1>4, <1>5 DEF HandleMove, m, h

LEMMA BaseHandleResign ==
  ASSUME BaseInv, NEW p \in Peer, HandleResign(p)
  PROVE  BaseInv'
<1> DEFINE f == Record(p, session[p].color, hist[p], TRUE)
<1>1. /\ UNCHANGED <<session, pend, hist, rfile, target, found, env>>
      /\ Receive(p, "RESIGN") /\ Consume(p)
  BY DEF HandleResign
<1>2. f \in Snapshot
  BY RecordType DEF BaseInv, BoardTypes
<1> HIDE DEF f
<1>3. CASE over' = [over EXCEPT ![p] = TRUE] /\ snap' = [snap EXCEPT ![p] = f]
  <2>1. BoardTypes'
    BY <1>1, <1>2, <1>3 DEF BaseInv, BoardTypes
  <2> QED
    BY <1>1, <2>1, BaseBoardPacket
<1>4. CASE UNCHANGED <<over, snap>>
  <2>1. BoardTypes'
    BY <1>1, <1>4 DEF BaseInv, BoardTypes
  <2> QED
    BY <1>1, <2>1, BaseBoardPacket
<1> QED
  BY <1>3, <1>4 DEF HandleResign, f

\* A lost connection.
LEMMA BaseDisconnect ==
  ASSUME BaseInv, NEW p \in Peer, NEW ended \in BOOLEAN, HandlePeerDisconnect(p, ended),
         p \in up, BoardTypes', UNCHANGED <<rfile, target, env>>
  PROVE  BaseInv'
<1>1. SessionTypes' /\ found' \subseteq Peer /\ Net' /\ Locals'
  BY Disconnect DEF env
<1> QED
  BY <1>1 DEF BaseInv, SetTypes, env

LEMMA BaseReceiveError ==
  ASSUME BaseInv, NEW p \in Peer, ReceiveError(p)
  PROVE  BaseInv'
<1>1. over[p] \in BOOLEAN /\ BoardTypes' /\ p \in up
  BY DEF ReceiveError, Reading, BaseInv, BoardTypes, board, disk
<1> QED
  BY <1>1, BaseDisconnect DEF ReceiveError, disk

LEMMA BaseTrySendLocalMove ==
  ASSUME BaseInv, NEW p \in Peer, NEW m \in Moves, TrySendLocalMove(p, m)
  PROVE  BaseInv'
<1> DEFINE h == Append(hist[p], m)
<1>1. /\ UNCHANGED <<over, rfile, target, env>> /\ p \in up
      /\ hist' = [hist EXCEPT ![p] = h] /\ snap' = RecordMove(p, h)
  BY DEF TrySendLocalMove, InPlay
<1>2. h \in Seq(Moves)
  BY DEF BaseInv, BoardTypes
<1> HIDE DEF h
<1>3. BoardTypes'
  BY <1>1, <1>2, RecordMoveType DEF BaseInv, BoardTypes
<1>4. CASE Send(p, MoveMsg(m)) /\ UNCHANGED <<session, pend, found>>
  <2>1. Net'
    BY <1>4, SendNet, Packets, Ends DEF BaseInv
  <2>2. session' \in [Peer -> SessionType] /\ Locals'
    BY <1>1, <1>4, LocalSame DEF BaseInv, Send, env
  <2> QED
    BY <1>1, <1>3, <1>4, <2>1, <2>2 DEF BaseInv, SessionTypes, SetTypes, env
<1>5. CASE HandlePeerDisconnect(p, FALSE)
  BY <1>1, <1>3, <1>5, BaseDisconnect
<1> QED
  BY <1>4, <1>5 DEF TrySendLocalMove

LEMMA BaseResign ==
  ASSUME BaseInv, NEW p \in Peer, Resign(p)
  PROVE  BaseInv'
<1> DEFINE f == Record(p, session[p].color, hist[p], TRUE)
<1>1. /\ UNCHANGED <<hist, rfile, target, env>> /\ p \in up
      /\ over' = [over EXCEPT ![p] = TRUE]
  BY DEF Resign, InPlay
<1>2. f \in Snapshot
  BY RecordType DEF BaseInv, BoardTypes
<1> HIDE DEF f
<1>3. CASE /\ Send(p, Bare("RESIGN")) /\ snap' = [snap EXCEPT ![p] = f]
           /\ UNCHANGED <<session, pend, found>>
  <2>1. Net'
    BY <1>3, SendNet, Packets, Ends DEF BaseInv
  <2>2. session' \in [Peer -> SessionType] /\ Locals'
    BY <1>1, <1>3, LocalSame DEF BaseInv, Send, env
  <2>3. BoardTypes'
    BY <1>1, <1>2, <1>3 DEF BaseInv, BoardTypes
  <2> QED
    BY <1>1, <1>3, <2>1, <2>2, <2>3 DEF BaseInv, SessionTypes, SetTypes, env
<1>4. CASE HandlePeerDisconnect(p, TRUE) /\ UNCHANGED snap
  <2>1. BoardTypes'
    BY <1>1, <1>4 DEF BaseInv, BoardTypes
  <2> QED
    BY <1>1, <1>4, <2>1, BaseDisconnect
<1> QED
  BY <1>3, <1>4 DEF Resign, f

LEMMA BaseReturnToLobby ==
  ASSUME BaseInv, NEW p \in Peer, ReturnToLobby(p)
  PROVE  BaseInv'
<1> DEFINE e == <<>>
<1>1. /\ p \in up /\ HangUp(p) /\ session' = [session EXCEPT ![p] = NewSession]
      /\ pend' = [pend EXCEPT ![p] = NoPending]
      /\ hist' = [hist EXCEPT ![p] = e] /\ over' = [over EXCEPT ![p] = FALSE]
      /\ rfile' \subseteq rfile /\ target' \subseteq target /\ found' \subseteq found
      /\ UNCHANGED <<snap, env>>
  BY DEF ReturnToLobby
<1>2. e \in Seq(Moves)
  OBVIOUS
<1> HIDE DEF e
<1>3. BoardTypes'
  BY <1>1, <1>2 DEF BaseInv, BoardTypes
<1>4. /\ Net' /\ conn'[p] = "none" /\ dialing' \subseteq dialing /\ p \notin dialing'
      /\ conn'[Other(p)] = "none" <=> conn[Other(p)] = "none"
  BY <1>1, HangUpNet DEF BaseInv
<1>5. session' \in [Peer -> SessionType] /\ Locals'
  <2> DEFINE s == NewSession
  <2>1. LocalTo(p, s) /\ session' = [session EXCEPT ![p] = s] /\ up' = up
    BY <1>1, NewSessionLocal DEF env
  <2> HIDE DEF s
  <2> QED
    BY <1>1, <1>4, <2>1, LocalStep DEF BaseInv
<1>6. pend' \in [Peer -> Pending]
  BY <1>1 DEF BaseInv, SessionTypes, Pending, NoPending
<1> QED
  BY <1>1, <1>3, <1>4, <1>5, <1>6 DEF BaseInv, SessionTypes, SetTypes, env

\* The network breaks every connection, those not accepted yet included.
LEMMA BaseBreak ==
  ASSUME BaseInv, Break
  PROVE  BaseInv'
<1> DEFINE e == <<>>
<1>1. /\ breaks < MaxBreaks /\ breaks' = breaks + 1
      /\ conn' = [p \in Peer |-> IF conn[p] = "live" THEN "dead" ELSE conn[p]]
      /\ dialing' = {} /\ queued' = [p \in Peer |-> e]
      /\ UNCHANGED <<session, pend, board, inbox, disk, target, found, up, crashes>>
  BY DEF Break
<1>2. e \in Seq(Hellos)
  OBVIOUS
<1> HIDE DEF e
<1>3. \A p \in Peer : /\ conn'[p] \in {"none", "dead"}
                      /\ conn'[p] = "none" <=> conn[p] = "none"
  BY <1>1 DEF BaseInv, Net
<1>4. Net'
  BY <1>1, <1>2, <1>3 DEF BaseInv, Net
<1>5. session' \in [Peer -> SessionType] /\ Locals'
  BY <1>1, <1>3, LocalSame DEF BaseInv
<1>6. breaks' \in 0..MaxBreaks
  BY <1>1, BoundsAssumption DEF BaseInv, SetTypes
<1> QED
  BY <1>1, <1>4, <1>5, <1>6 DEF BaseInv, SessionTypes, BoardTypes, SetTypes, board, disk

\* A crash leaves the files, and whatever the program had just written.
LEMMA BaseCrash ==
  ASSUME BaseInv, NEW p \in Peer, Crash(p)
  PROVE  BaseInv'
<1> DEFINE e == <<>>
           s == NewSession
<1>1. /\ p \in up /\ crashes < MaxCrashes /\ crashes' = crashes + 1
      /\ conn' = [q \in Peer |-> IF q = p THEN "none"
                             ELSE IF conn[q] = "live" THEN "dead" ELSE conn[q]]
      /\ dialing' = {} /\ queued' = [q \in Peer |-> e]
      /\ session' = [session EXCEPT ![p] = s]
      /\ pend' = [pend EXCEPT ![p] = NoPending]
      /\ hist' = [hist EXCEPT ![p] = e] /\ over' = [over EXCEPT ![p] = FALSE]
      /\ target' \subseteq target /\ found' = {} /\ up' = up \ {p}
      /\ UNCHANGED <<disk, breaks>>
  BY DEF Crash
<1>2. e \in Seq(Moves) /\ e \in Seq(Hellos) /\ LocalTo(p, s) /\ s = NewSession
  BY NewSessionLocal
<1>3. /\ inbox' \in [Peer -> Seq(Packet)] /\ \A q \in Peer : inbox'[q] \in Seq(To(q))
      /\ inbox'[p] = <<>>
      /\ conn[Other(p)] = "none" => inbox'[Other(p)] = <<>>
  <2>1. /\ inbox \in [Peer -> Seq(Packet)] /\ Other(p) \in Peer /\ Other(p) # p
        /\ inbox[Other(p)] \in Seq(To(Other(p))) /\ \A q \in Peer : q = p \/ q = Other(p)
        /\ conn[Other(p)] = "none" => inbox[Other(p)] = <<>>
    BY Ends DEF BaseInv, Net
  <2>2. e \in Seq(Packet) /\ \A q \in Peer : e \in Seq(To(q))
    OBVIOUS
  <2>3. ASSUME NEW m \in To(Other(p)), inbox' = [Reached(p, inbox, m) EXCEPT ![p] = e]
        PROVE  /\ inbox' \in [Peer -> Seq(Packet)] /\ inbox'[p] = e
               /\ inbox'[Other(p)] \in Seq(To(Other(p)))
               /\ conn[Other(p)] = "none" => inbox'[Other(p)] = <<>>
    <3> DEFINE b == Reached(p, inbox, m)
    <3>1. m \in Packet
      BY <2>1, Readable
    <3>2. /\ b \in [Peer -> Seq(Packet)]
          /\ conn[p] = "live" /\ p \notin dialing =>
               b[Other(p)] = Append(inbox[Other(p)], m)
          /\ ~(conn[p] = "live" /\ p \notin dialing) => b[Other(p)] = inbox[Other(p)]
      BY <2>1, <3>1, ReachedBox DEF BaseInv
    <3>3. b[Other(p)] \in Seq(To(Other(p)))
      <4>1. Append(inbox[Other(p)], m) \in Seq(To(Other(p)))
        BY <2>1
      <4> HIDE DEF b
      <4> QED
        BY <2>1, <3>2, <4>1
    <3>4. conn[Other(p)] = "none" => b[Other(p)] = <<>>
      BY <2>1, <3>2, WrittenTo DEF BaseInv
    <3>5. inbox' = [b EXCEPT ![p] = e]
      BY <2>3
    <3> HIDE DEF b, e
    <3> QED
      BY <2>1, <2>2, <3>2, <3>3, <3>4, <3>5
  <2>4. CASE inbox' = [inbox EXCEPT ![p] = e]
    <3> HIDE DEF e
    <3>1. /\ inbox' \in [Peer -> Seq(Packet)] /\ inbox'[p] = e
          /\ inbox'[Other(p)] = inbox[Other(p)]
      BY <2>1, <2>2, <2>4
    <3>2. \A q \in Peer : inbox'[q] \in Seq(To(q))
      BY <2>1, <2>2, <3>1
    <3> QED
      BY <2>1, <3>1, <3>2 DEF e
  <2>5. CASE \E m \in To(Other(p)) : inbox' = [Reached(p, inbox, m) EXCEPT ![p] = e]
    <3> HIDE DEF e
    <3>1. /\ inbox' \in [Peer -> Seq(Packet)] /\ inbox'[p] = e
          /\ inbox'[Other(p)] \in Seq(To(Other(p)))
          /\ conn[Other(p)] = "none" => inbox'[Other(p)] = <<>>
      BY <2>3, <2>5
    <3>2. \A q \in Peer : inbox'[q] \in Seq(To(q))
      BY <2>1, <2>2, <3>1
    <3> QED
      BY <3>1, <3>2 DEF e
  <2>6. CASE /\ Receive(p, "START") /\ StartAcceptable(p)
             /\ inbox' = [Reached(p, inbox, Bare("ACK")) EXCEPT ![p] = <<>>]
    <3>1. Other(p) = "SERVER"
      BY <2>6 DEF StartAcceptable, BaseInv, Locals, LocalTo, Peer, Other
    <3> QED
      BY <2>5, <2>6, <3>1, Packets
  <2>7. CASE inbox' = [Reached(p, inbox, Bare("RESIGN")) EXCEPT ![p] = <<>>]
    BY <2>1, <2>5, <2>7, Packets
  <2> QED
    BY <2>4, <2>6, <2>7 DEF Crash
<1> HIDE DEF e, s
<1>4. /\ conn'[p] = "none" /\ conn'[Other(p)] # "live"
      /\ conn'[Other(p)] = "none" <=> conn[Other(p)] = "none"
      /\ \A q \in Peer : conn'[q] \in {"none", "dead"}
  BY <1>1, Ends DEF BaseInv, Net
<1>5. Net'
  <2>1. conn' \in [Peer -> {"none", "live", "dead"}] /\ queued' \in [Peer -> Seq(Hellos)]
    BY <1>1, <1>2, <1>4
  <2>2. \A q \in Peer : conn'[q] = "none" => inbox'[q] = <<>>
    BY <1>3, <1>4, Ends
  <2> QED
    BY <1>1, <1>3, <1>4, <2>1, <2>2 DEF Net
<1>6. session'[p] = s /\ session'[Other(p)] = session[Other(p)]
      /\ session' \in [Peer -> SessionType]
  BY <1>1, <1>2, Ends DEF BaseInv, SessionTypes, LocalTo
<1>7. ASSUME NEW q \in Peer
      PROVE  /\ LocalTo(q, session'[q])
             /\ q \notin up' => session'[q] = NewSession /\ conn'[q] = "none"
  <2>1. CASE q = p
    BY <1>2, <1>4, <1>6, <2>1
  <2>2. CASE q = Other(p)
    BY <1>1, <1>4, <1>6, <2>2, Ends DEF BaseInv, Locals
  <2> QED
    BY <2>1, <2>2, Ends
<1>8. conn'["CLIENT"] # "none" => session'["CLIENT"].role = "CLIENT"
  <2>1. CASE p = "CLIENT"
    BY <1>4, <2>1
  <2>2. CASE p = "SERVER"
    <3>1. Other(p) = "CLIENT"
      BY <2>2 DEF Other
    <3> QED
      BY <1>4, <1>6, <3>1 DEF BaseInv, Locals
  <2> QED
    BY <2>1, <2>2 DEF Peer
<1>9. Locals'
  BY <1>1, <1>7, <1>8 DEF Locals
<1>10. BoardTypes' /\ pend' \in [Peer -> Pending]
  BY <1>1, <1>2 DEF BaseInv, SessionTypes, Pending, NoPending, BoardTypes, disk
<1>11. SetTypes'
  <2>1. crashes' \in 0..MaxCrashes
    BY <1>1, BoundsAssumption DEF BaseInv, SetTypes
  <2> QED
    BY <1>1, <2>1 DEF BaseInv, SetTypes, disk
<1> QED
  BY <1>5, <1>6, <1>9, <1>10, <1>11 DEF BaseInv, SessionTypes

LEMMA BaseRestart ==
  ASSUME BaseInv, NEW p \in Peer, Restart(p)
  PROVE  BaseInv'
<1>1. /\ up' = up \cup {p} /\ pend' = [pend EXCEPT ![p] = PendingAtRestart(p)]
      /\ target' = target \cup (rfile \cap {p})
      /\ UNCHANGED <<session, board, net, disk, found, crashes, breaks>>
  BY DEF Restart
<1>2. pend' \in [Peer -> Pending]
  BY <1>1 DEF BaseInv, SessionTypes, Pending, PendingAtRestart, TokenOnly, NoPending
<1>3. Net'
  BY <1>1, NetUnchanged DEF BaseInv
<1>4. Locals' /\ session' \in [Peer -> SessionType]
  BY <1>1 DEF BaseInv, SessionTypes, Locals, net
<1>5. SetTypes'
  BY <1>1 DEF BaseInv, SetTypes, disk
<1> QED
  BY <1>1, <1>2, <1>3, <1>4, <1>5 DEF BaseInv, SessionTypes, BoardTypes, board, disk

\* The shape of the state is inductive.
LEMMA NextBase ==
  BaseInv /\ [Next]_vars => BaseInv'
<1> SUFFICES ASSUME BaseInv, [Next]_vars PROVE BaseInv'
  OBVIOUS
<1>1. CASE UNCHANGED vars
  <2>1. Net'
    BY <1>1, NetUnchanged DEF BaseInv, vars, net
  <2>2. session' \in [Peer -> SessionType] /\ Locals'
    BY <1>1, LocalSame DEF BaseInv, vars
  <2> QED
    BY <1>1, <2>1, <2>2 DEF BaseInv, SessionTypes, BoardTypes, SetTypes, vars
<1>2. CASE Break
  BY <1>2, BaseBreak
<1>3. ASSUME NEW p \in Peer,
             \/ Discover(p) \/ NetTick(p) \/ RetryStart(p) \/ PlayerInput(p)
             \/ Crash(p) \/ Restart(p)
      PROVE  BaseInv'
  <2>1. CASE NetTick(p)
    <3>1. CASE DispatchIncomingPacket(p)
      BY <3>1, BaseHandleHello, BaseHandleStart, BaseHandleAck, BaseHandleResumeRequest,
         BaseHandleResumeResponse, BaseHandleStateSnapshot, BaseHandleMove, BaseHandleResign
      DEF DispatchIncomingPacket
    <3> QED
      BY <2>1, <3>1, BaseDial, BaseFinalizeConnect, BaseAccept, BaseAdvanceHelloClient,
         BaseAdvanceHelloServer, BaseSendResumeRequest, BaseReceiveError, BaseSendStart,
         BaseSendStateSnapshot DEF NetTick
  <2>2. CASE PlayerInput(p)
    BY <2>2, BaseTrySendLocalMove, BaseResign, BaseReturnToLobby DEF PlayerInput
  <2> QED
    BY <1>3, <2>1, <2>2, BaseDiscover, BaseRetryStart, BaseCrash, BaseRestart
<1> QED
  BY <1>1, <1>2, <1>3 DEF Next

LEMMA BaseInvariance ==
  Spec => []BaseInv
BY InitBase, NextBase, PTL DEF Spec

LEMMA BaseGivesTypeOK ==
  ASSUME BaseInv
  PROVE  TypeOK
<1>1. Hellos \subseteq Packet
  BY Readable, Ends DEF Peer
<1>2. queued \in [Peer -> Seq(Packet)]
  <2>1. \A p \in Peer : queued[p] \in Seq(Packet)
    BY <1>1 DEF BaseInv, Net
  <2> QED
    BY <2>1 DEF BaseInv, Net
<1>3. {dialing, rfile, target, found, up} \subseteq SUBSET Peer
  BY DEF BaseInv, Net, SetTypes, Peer
<1> QED
  BY <1>2, <1>3 DEF TypeOK, BaseInv, SessionTypes, BoardTypes, SetTypes, Net

\* Every reachable state of the two programs, their connection and their files
\* has the shape the code gives it, and a connection has two live ends or waits
\* in the listen queue of the server.
THEOREM SessionsWellFormed == Spec => []TypeOK
BY BaseInvariance, BaseGivesTypeOK, PTL

-----------------------------------------------------------------------------
(* Sequences *)

\* A prefix, position by position.
LEMMA PrefixPoints ==
  ASSUME NEW S, NEW s \in Seq(S), NEW t \in Seq(S)
  PROVE  IsPrefix(s, t) <=> Len(s) <= Len(t) /\ \A i \in 1..Len(s) : s[i] = t[i]
<1>1. Len(s) \in Nat /\ Len(t) \in Nat
  BY LenProperties
<1>2. SubSeq(s, 1, Len(s)) = s
  BY SubSeqFull
<1>3. ASSUME Len(s) <= Len(t)
      PROVE  SubSeq(s, 1, Len(s)) = SubSeq(t, 1, Len(s)) <=> \A i \in 1..Len(s) : s[i] = t[i]
  <2> DEFINE u == SubSeq(t, 1, Len(s))
  <2>1. \A i \in 1..Len(s) : t[i] \in S
    BY <1>1, <1>3, ElementOfSeq
  <2>2. /\ u \in Seq(S) /\ Len(u) = Len(s)
        /\ \A i \in 1..Len(s) : u[i] = t[i]
    <3>1. /\ u \in Seq(S)
          /\ Len(u) = IF 1 <= Len(s) THEN Len(s) - 1 + 1 ELSE 0
          /\ \A i \in 1..Len(s) - 1 + 1 : u[i] = t[1 + i - 1]
      BY <1>1, <2>1, SubSeqProperties, 1 \in Int, Len(s) \in Int
    <3>2. \A i \in 1..Len(s) : i \in 1..Len(s) - 1 + 1 /\ 1 + i - 1 = i
      BY <1>1
    <3> HIDE DEF u
    <3> QED
      BY <1>1, <3>1, <3>2
  <2> HIDE DEF u
  <2>3. s = u <=> \A i \in 1..Len(s) : s[i] = u[i]
    BY <2>2, SeqEqual
  <2> QED
    BY <1>2, <2>2, <2>3 DEF u
<1> QED
  BY <1>3 DEF IsPrefix

\* Prefixes are an order; a move makes a game longer.
LEMMA PrefixRefl ==
  ASSUME NEW S, NEW s \in Seq(S)
  PROVE  IsPrefix(s, s)
BY LenProperties, PrefixPoints

LEMMA PrefixTrans ==
  ASSUME NEW S, NEW s \in Seq(S), NEW t \in Seq(S), NEW u \in Seq(S),
         IsPrefix(s, t), IsPrefix(t, u)
  PROVE  IsPrefix(s, u)
<1>1. Len(s) \in Nat /\ Len(t) \in Nat /\ Len(u) \in Nat
  BY LenProperties
<1>2. /\ Len(s) <= Len(t) /\ \A i \in 1..Len(s) : s[i] = t[i]
      /\ Len(t) <= Len(u) /\ \A i \in 1..Len(t) : t[i] = u[i]
  BY PrefixPoints
<1> QED
  BY <1>1, <1>2, PrefixPoints

LEMMA PrefixAppend ==
  ASSUME NEW S, NEW s \in Seq(S), NEW m \in S
  PROVE  Append(s, m) \in Seq(S) /\ IsPrefix(s, Append(s, m))
<1> DEFINE a == Append(s, m)
<1>1. a \in Seq(S) /\ Len(a) = Len(s) + 1 /\ \A i \in 1..Len(s) : a[i] = s[i]
  BY AppendProperties
<1>2. Len(s) \in Nat
  BY LenProperties
<1> HIDE DEF a
<1>3. IsPrefix(s, a)
  BY <1>1, <1>2, PrefixPoints
<1> QED
  BY <1>1, <1>3 DEF a

LEMMA PrefixEmpty ==
  ASSUME NEW S, NEW s \in Seq(S)
  PROVE  IsPrefix(<<>>, s)
<1> DEFINE e == <<>>
<1>1. e \in Seq(S) /\ Len(e) = 0
  BY EmptySeq
<1>2. Len(s) \in Nat
  BY LenProperties
<1> HIDE DEF e
<1>3. IsPrefix(e, s)
  <2>1. Len(e) <= Len(s) /\ \A i \in 1..Len(e) : e[i] = s[i]
    BY <1>1, <1>2
  <2> QED
    BY <1>1, <2>1, PrefixPoints
<1> QED
  BY <1>3 DEF e

\* What is left to read after a packet is read, and after one more arrives.
LEMMA RangeParts ==
  ASSUME NEW S, NEW s \in Seq(S)
  PROVE  /\ s # <<>> => Range(Tail(s)) \subseteq Range(s) /\ Head(s) \in Range(s)
         /\ \A m \in S : Range(Append(s, m)) = Range(s) \cup {m}
         /\ Range(<<>>) = {}
<1>1. DOMAIN s = 1..Len(s) /\ Len(s) \in Nat
  BY LenProperties
<1>2. ASSUME s # <<>>
      PROVE  Range(Tail(s)) \subseteq Range(s) /\ Head(s) \in Range(s)
  <2>1. /\ Len(Tail(s)) = Len(s) - 1 /\ Tail(s) \in Seq(S) /\ Len(s) # 0
        /\ \A i \in 1..Len(Tail(s)) : Tail(s)[i] = s[i + 1]
    BY <1>2, HeadTailProperties, EmptySeq
  <2>2. DOMAIN Tail(s) = 1..Len(s) - 1
    BY <2>1, LenProperties
  <2>3. \A i \in 1..Len(s) - 1 : i + 1 \in 1..Len(s)
    BY <1>1
  <2>4. Head(s) = s[1] /\ 1 \in 1..Len(s)
    BY <1>1, <1>2, <2>1
  <2> QED
    BY <1>1, <2>1, <2>2, <2>3, <2>4 DEF Range
<1>3. ASSUME NEW m \in S
      PROVE  Range(Append(s, m)) = Range(s) \cup {m}
  <2>1. /\ DOMAIN Append(s, m) = 1..Len(s) + 1
        /\ \A i \in 1..Len(s) : Append(s, m)[i] = s[i]
        /\ Append(s, m)[Len(s) + 1] = m
    BY AppendProperties, LenProperties
  <2>2. 1..Len(s) + 1 = 1..Len(s) \cup {Len(s) + 1}
    BY <1>1
  <2> QED
    BY <1>1, <2>1, <2>2 DEF Range
<1>4. Range(<<>>) = {}
  BY DEF Range
<1> QED
  BY <1>2, <1>3, <1>4

-----------------------------------------------------------------------------
(* The inductive invariant of the colours and of the server's file *)

\* The packets p has not read.
Unread(p) == Range(inbox[p])

\* A START is only ever due for a challenge accepted or a game resumed, and once
\* sent its colour is kept.
StartFlags ==
  /\ session["SERVER"].startSent => session["SERVER"].challengeDone /\ pend["SERVER"].set
  /\ session["SERVER"].challengeDone /\ pend["SERVER"].set => pend["SERVER"].color \in Color

\* Files, games on the screen, the STARTs not read yet and the colour the server
\* would assign again all make w white.
Agreed(w) ==
  /\ \A p \in Peer : snap[p] # NoSnapshot => snap[p].white = w
  /\ \A p \in Peer : session[p].started =>
       session[p].color \in Color /\ White(p, session[p].color) = w
  /\ \A m \in Unread("CLIENT") : m.type = "START" =>
       m.color \in Color /\ White("CLIENT", m.color) = w
  /\ pend["SERVER"].set /\ pend["SERVER"].color \in Color =>
       White("CLIENT", pend["SERVER"].color) = w

\* Before the colours are drawn there is nothing they could contradict.
Undrawn ==
  session["SERVER"].challengeDone /\ ~pend["SERVER"].set =>
    /\ \A p \in Peer : snap[p] = NoSnapshot /\ ~session[p].started
    /\ \A m \in Unread("CLIENT") : m.type # "START"

\* The server shows what its file holds, and is not behind it on the end.
ServerShows ==
  session["SERVER"].started =>
    /\ snap["SERVER"] # NoSnapshot /\ hist["SERVER"] = snap["SERVER"].hist
    /\ snap["SERVER"].over => over["SERVER"]

Colours == StartFlags /\ (\E w \in Peer : Agreed(w)) /\ Undrawn /\ ServerShows

ColourInv == BaseInv /\ Colours

-----------------------------------------------------------------------------
(* The parts of a step *)

\* What is left unread when a packet is read, written or lost.
LEMMA ConsumedUnread ==
  ASSUME Net, NEW p \in Peer, NEW t, Receive(p, t), Consume(p)
  PROVE  /\ \A q \in Peer : Unread(q)' \subseteq Unread(q)
         /\ Head(inbox[p]) \in Unread(p)
<1>1. /\ inbox' = Consumed(p) /\ inbox[p] \in Seq(To(p)) /\ inbox[p] # <<>>
      /\ Consumed(p)[p] = Tail(inbox[p]) /\ Consumed(p)[Other(p)] = inbox[Other(p)]
  BY Received DEF Consume, Net
<1>2. Range(Tail(inbox[p])) \subseteq Range(inbox[p]) /\ Head(inbox[p]) \in Range(inbox[p])
  BY <1>1, RangeParts
<1> QED
  BY <1>1, <1>2, Ends DEF Unread

LEMMA ReachedUnread ==
  ASSUME Net, NEW p \in Peer, NEW box \in [Peer -> Seq(Packet)], NEW m \in Packet,
         inbox' = Reached(p, box, m)
  PROVE  /\ Unread(p)' = Range(box[p])
         /\ Unread(Other(p))' \subseteq Range(box[Other(p)]) \cup {m}
<1>1. /\ inbox'[p] = box[p]
      /\ inbox'[Other(p)] = Append(box[Other(p)], m) \/ inbox'[Other(p)] = box[Other(p)]
  BY ReachedBox
<1>2. Range(Append(box[Other(p)], m)) = Range(box[Other(p)]) \cup {m}
  BY RangeParts, Ends
<1> QED
  BY <1>1, <1>2 DEF Unread

LEMMA SentUnread ==
  ASSUME Net, NEW p \in Peer, NEW m \in Packet, Send(p, m)
  PROVE  /\ Unread(p)' = Unread(p)
         /\ Unread(Other(p))' \subseteq Unread(Other(p)) \cup {m}
<1>1. inbox \in [Peer -> Seq(Packet)] /\ inbox' = Reached(p, inbox, m)
  BY DEF Net, Send
<1> QED
  BY <1>1, ReachedUnread DEF Unread

LEMMA AnsweredUnread ==
  ASSUME Net, NEW p \in Peer, NEW t, Receive(p, t), NEW m \in Packet, Answer(p, m)
  PROVE  /\ Unread(p)' \subseteq Unread(p) /\ Head(inbox[p]) \in Unread(p)
         /\ Unread(Other(p))' \subseteq Unread(Other(p)) \cup {m}
<1> DEFINE box == Consumed(p)
<1>1. /\ box \in [Peer -> Seq(Packet)] /\ inbox' = Reached(p, box, m)
      /\ box[p] = Tail(inbox[p]) /\ box[Other(p)] = inbox[Other(p)]
      /\ inbox[p] \in Seq(To(p)) /\ inbox[p] # <<>>
  BY Received DEF Answer, Net
<1> HIDE DEF box
<1>2. Unread(p)' = Range(box[p]) /\ Unread(Other(p))' \subseteq Range(box[Other(p)]) \cup {m}
  BY <1>1, ReachedUnread
<1>3. Range(Tail(inbox[p])) \subseteq Range(inbox[p]) /\ Head(inbox[p]) \in Range(inbox[p])
  BY <1>1, RangeParts
<1> QED
  BY <1>1, <1>2, <1>3 DEF Unread

LEMMA HungUpUnread ==
  ASSUME Net, NEW p \in Peer, HangUp(p)
  PROVE  \A q \in Peer : Unread(q)' \subseteq Unread(q)
<1>1. inbox'[p] = <<>> /\ inbox'[Other(p)] = inbox[Other(p)]
  BY HangUpNet
<1>2. Range(inbox'[p]) = {}
  BY <1>1 DEF Range
<1> QED
  BY <1>1, <1>2, Ends DEF Unread

\* A step that starts no game and sends no START leaves everybody as agreed as
\* before, if the only file it writes is that of a game on the screen.
LEMMA StepColours ==
  ASSUME ColourInv, NEW p \in Peer, NEW s, session' = [session EXCEPT ![p] = s],
         \A q \in Peer : snap'[q] = snap[q] \/
            /\ q = p /\ session[p].started /\ snap'[q] # NoSnapshot
            /\ snap'[q].white = White(p, session[p].color),
         s.started => session[p].started /\ s.color = session[p].color,
         p = "SERVER" => /\ s.startSent => session[p].startSent /\ s.challengeDone
                         /\ s.challengeDone => session[p].challengeDone,
         ServerShows',
         \A m \in Unread("CLIENT")' : m.type = "START" => m \in Unread("CLIENT"),
         pend'["SERVER"] = pend["SERVER"] \/
           /\ p = "SERVER" /\ ~s.challengeDone
           /\ pend'["SERVER"].color \notin Color
  PROVE  Colours'
<1>1. /\ session'[p] = s /\ session'[Other(p)] = session[Other(p)]
      /\ p = "SERVER" => session'["SERVER"] = s
      /\ p = "CLIENT" => session'["SERVER"] = session["SERVER"]
  BY Ends DEF ColourInv, BaseInv, SessionTypes, Peer, Other
<1>2. \A q \in Peer : session'[q].started =>
                        session[q].started /\ session'[q].color = session[q].color
  BY <1>1, Ends
<1>3. p = "SERVER" \/ p = "CLIENT"
  BY DEF Peer
<1>4. StartFlags'
  BY <1>1, <1>3 DEF ColourInv, Colours, StartFlags
<1>5. PICK w \in Peer : Agreed(w)
  BY DEF ColourInv, Colours
<1>6. Agreed(w)'
  <2>1. pend'["SERVER"].set /\ pend'["SERVER"].color \in Color =>
          White("CLIENT", pend'["SERVER"].color) = w
    BY <1>5 DEF Agreed
  <2>2. \A m \in Unread("CLIENT")' : m.type = "START" =>
          m.color \in Color /\ White("CLIENT", m.color) = w
    BY <1>5 DEF Agreed
  <2>3. \A q \in Peer : session'[q].started =>
          session'[q].color \in Color /\ White(q, session'[q].color) = w
    BY <1>2, <1>5 DEF Agreed
  <2>4. \A q \in Peer : snap'[q] # NoSnapshot => snap'[q].white = w
    BY <1>5 DEF Agreed
  <2> QED
    BY <2>1, <2>2, <2>3, <2>4 DEF Agreed
<1>7. Undrawn'
  BY <1>1, <1>2, <1>3 DEF ColourInv, Colours, Undrawn
<1> QED
  BY <1>4, <1>5, <1>6, <1>7 DEF Colours

\* The server's own game is left alone, or given up.
LEMMA ShowsKept ==
  ASSUME ColourInv, NEW p \in Peer, NEW s, session' = [session EXCEPT ![p] = s],
         snap'["SERVER"] = snap["SERVER"], hist'["SERVER"] = hist["SERVER"],
         over["SERVER"] => over'["SERVER"],
         s.started => session[p].started
  PROVE  ServerShows'
<1>1. session'["SERVER"].started => session["SERVER"].started
  BY DEF ColourInv, BaseInv, SessionTypes, Peer
<1> QED
  BY <1>1 DEF ColourInv, Colours, ServerShows

\* A step that writes no file.
LEMMA QuietColours ==
  ASSUME ColourInv, NEW p \in Peer, NEW s, session' = [session EXCEPT ![p] = s],
         UNCHANGED <<snap, board>>,
         s.started => session[p].started /\ s.color = session[p].color,
         p = "SERVER" => /\ s.startSent => session[p].startSent /\ s.challengeDone
                         /\ s.challengeDone => session[p].challengeDone,
         \A m \in Unread("CLIENT")' : m.type = "START" => m \in Unread("CLIENT"),
         pend'["SERVER"] = pend["SERVER"]
  PROVE  Colours'
<1>1. ServerShows'
  BY ShowsKept DEF board
<1> QED
  BY <1>1, StepColours

\* A step that changes no session.
LEMMA SameColours ==
  ASSUME ColourInv, UNCHANGED <<session, snap, board>>,
         \A m \in Unread("CLIENT")' : m.type = "START" => m \in Unread("CLIENT"),
         pend'["SERVER"] = pend["SERVER"]
  PROVE  Colours'
<1> DEFINE s == session["CLIENT"]
<1>1. session' = [session EXCEPT !["CLIENT"] = s] /\ "CLIENT" \in Peer
  BY DEF ColourInv, BaseInv, SessionTypes, Peer
<1>2. s.started => session["CLIENT"].started /\ s.color = session["CLIENT"].color
  OBVIOUS
<1> HIDE DEF s
<1> QED
  BY <1>1, <1>2, QuietColours

\* What a lost connection leaves of a session and of the pending START.
LEMMA DisconnectParts ==
  ASSUME BaseInv, NEW p \in Peer, NEW ended \in BOOLEAN, HandlePeerDisconnect(p, ended)
  PROVE  \E s : /\ session' = [session EXCEPT ![p] = s]
                /\ s.started => /\ session[p].started /\ ended
                                /\ s.color = session[p].color /\ s.phase = "DISCONNECTED"
                /\ ~s.startSent /\ ~s.challengeDone /\ ~s.syncPending /\ ~s.hello
                /\ ~s.helloSent /\ ~s.helloReceived /\ ~s.resumeSent
                /\ ~s.started => s.phase = "IDLE"
                /\ ~s.available /\ \A q \in Peer : q # p => pend'[q] = pend[q]
                /\ pend'[p] = pend[p] \/ pend'[p].color \notin Color
                /\ pend'[p].set => pend[p].set
<1> DEFINE s == session[p]
           stay == s.started /\ ended
           r == ResetTransportProgress(s)
           a == [r EXCEPT !.connected = FALSE, !.available = FALSE, !.phase = "DISCONNECTED"]
           b == [r EXCEPT !.startDone = FALSE,
                          !.available = FALSE, !.started = FALSE, !.role = "UNKNOWN",
                          !.phase = "IDLE"]
           t == IF stay THEN a ELSE b
<1>1. session' = [session EXCEPT ![p] = t]
  BY DEF HandlePeerDisconnect
<1>2. /\ r \in SessionType /\ r.started = s.started /\ r.color = s.color
      /\ ~r.startSent /\ ~r.challengeDone /\ ~r.syncPending /\ ~r.hello
      /\ ~r.helloSent /\ ~r.helloReceived /\ ~r.resumeSent
  <2>1. s \in SessionType
    BY DEF BaseInv, SessionTypes
  <2> DEFINE h == [s EXCEPT !.helloSent = FALSE, !.helloReceived = FALSE, !.hello = FALSE]
             u == [h EXCEPT !.challengeDone = FALSE, !.startSent = FALSE,
                            !.resumeSent = FALSE, !.syncPending = FALSE]
  <2>2. r = u
    BY DEF ResetTransportProgress
  <2> HIDE DEF s, r
  <2>3. /\ h \in SessionType /\ h.started = s.started /\ h.color = s.color
        /\ ~h.hello /\ ~h.helloSent /\ ~h.helloReceived
    BY <2>1 DEF SessionType
  <2> HIDE DEF h
  <2>4. /\ u \in SessionType /\ u.started = h.started /\ u.color = h.color
        /\ u.hello = h.hello /\ u.helloSent = h.helloSent /\ u.helloReceived = h.helloReceived
        /\ ~u.startSent /\ ~u.challengeDone /\ ~u.syncPending /\ ~u.resumeSent
    BY <2>3 DEF SessionType
  <2> QED
    BY <2>2, <2>3, <2>4
<1> HIDE DEF r
<1>3. /\ a.started = s.started /\ a.color = s.color /\ a.phase = "DISCONNECTED" /\ ~a.available
      /\ ~a.startSent /\ ~a.challengeDone /\ ~a.syncPending /\ ~a.hello
      /\ ~a.helloSent /\ ~a.helloReceived /\ ~a.resumeSent
  BY <1>2 DEF SessionType
<1>4. /\ ~b.started /\ b.phase = "IDLE" /\ ~b.available
      /\ ~b.startSent /\ ~b.challengeDone /\ ~b.syncPending /\ ~b.hello
      /\ ~b.helloSent /\ ~b.helloReceived /\ ~b.resumeSent
  BY <1>2 DEF SessionType
<1>5. /\ \A q \in Peer : q # p => pend'[q] = pend[q]
      /\ pend'[p] = pend[p] \/ pend'[p].color \notin Color
      /\ pend'[p].set => pend[p].set
  BY DEF HandlePeerDisconnect, BaseInv, SessionTypes, TokenOnly, NoPending, Color
<1> HIDE DEF a, b
<1>6. /\ t.started => stay /\ t.color = s.color /\ t.phase = "DISCONNECTED"
      /\ ~t.startSent /\ ~t.challengeDone /\ ~t.syncPending /\ ~t.hello
      /\ ~t.helloSent /\ ~t.helloReceived /\ ~t.resumeSent /\ ~t.available
      /\ ~t.started => t.phase = "IDLE"
  BY <1>3, <1>4 DEF BaseInv, Locals, LocalTo, SessionType
<1> HIDE DEF t
<1> WITNESS t
<1> QED
  BY <1>1, <1>5, <1>6

\* A lost connection breaks no agreement.
LEMMA DisconnectColours ==
  ASSUME ColourInv, NEW p \in Peer, NEW ended \in BOOLEAN, HandlePeerDisconnect(p, ended),
         \A q \in Peer : snap'[q] = snap[q] \/
            /\ q = p /\ session[p].started /\ snap'[q] # NoSnapshot
            /\ snap'[q].white = White(p, session[p].color),
         ServerShows'
  PROVE  Colours'
<1>1. PICK s : /\ session' = [session EXCEPT ![p] = s]
               /\ s.started => session[p].started /\ s.color = session[p].color
               /\ ~s.startSent /\ ~s.challengeDone
               /\ \A q \in Peer : q # p => pend'[q] = pend[q]
               /\ pend'[p] = pend[p] \/ pend'[p].color \notin Color
  BY DisconnectParts DEF ColourInv
<1>2. \A q \in Peer : Unread(q)' \subseteq Unread(q)
  BY HungUpUnread DEF HandlePeerDisconnect, ColourInv, BaseInv
<1>3. pend'["SERVER"] = pend["SERVER"] \/
        (p = "SERVER" /\ pend'["SERVER"].color \notin Color)
  BY <1>1 DEF Peer
<1>4. \A m \in Unread("CLIENT")' : m.type = "START" => m \in Unread("CLIENT")
  BY <1>2 DEF Peer
<1> QED
  BY <1>1, <1>3, <1>4, StepColours

-----------------------------------------------------------------------------
(* The colours in the initial state and after each step *)

LEMMA InitColours ==
  Init => ColourInv
<1> SUFFICES ASSUME Init PROVE Colours
  BY InitBase DEF ColourInv
<1>1. /\ \A p \in Peer : ~session[p].started
      /\ ~session["SERVER"].startSent
  <2>1. session["SERVER"] = [NewSession EXCEPT !.phase = "GAME_STARTING", !.role = "SERVER",
                 !.available = TRUE, !.helloSent = TRUE,
                 !.helloReceived = TRUE, !.hello = TRUE,
                 !.challengeDone = TRUE]
    BY DEF Init, Peer
  <2>2. ~session["SERVER"].started /\ ~session["SERVER"].startSent
    BY <2>1 DEF NewSession
  <2>3. BaseInv
    BY InitBase
  <2>4. PICK known \in BOOLEAN : session["CLIENT"] =
          [SetRemote([NewSession EXCEPT !.role = "CLIENT", !.available = known,
                 !.connected = TRUE, !.helloSent = TRUE,
                 !.helloReceived = TRUE, !.hello = TRUE,
                 !.challengeDone = TRUE])
                 EXCEPT !.phase = "GAME_STARTING"]
    BY DEF Init, Peer
  <2>5. ~session["CLIENT"].started
    BY <2>4 DEF SetRemote, NewSession
  <2> QED
    BY <2>2, <2>5 DEF Peer
<1>2. /\ \A p \in Peer : snap[p] = NoSnapshot
      /\ pend["SERVER"] = NoPending /\ Unread("CLIENT") = {}
  <2>1. inbox["CLIENT"] = <<>>
    BY DEF Init, Peer
  <2> QED
    BY <2>1 DEF Init, Peer, Unread, Range
<1>3. StartFlags /\ Undrawn /\ ServerShows
  BY <1>1, <1>2 DEF StartFlags, Undrawn, ServerShows, NoPending, Peer
<1>4. Agreed("SERVER") /\ "SERVER" \in Peer
  BY <1>1, <1>2 DEF Agreed, NoPending, Peer
<1> QED
  BY <1>3, <1>4 DEF Colours

LEMMA ColoursDiscover ==
  ASSUME ColourInv, NEW p \in Peer, Discover(p)
  PROVE  Colours'
<1> DEFINE t == SetRemote(session[p])
           s == IF HasResumeTarget(p) THEN [t EXCEPT !.role = "CLIENT"] ELSE session[p]
<1>1. /\ session' = [session EXCEPT ![p] = s] /\ UNCHANGED <<pend, board, net, disk>>
      /\ ~session[p].started /\ LocalTo(p, session[p])
  BY DEF Discover, ColourInv, BaseInv, SessionTypes, Locals
<1>2. /\ ~s.started
      /\ p = "SERVER" => s = session[p]
  <2>1. LocalTo(p, t) /\ ~t.started
    BY <1>1, SetRemoteLocal
  <2>2. HasResumeTarget(p) => p = "CLIENT"
    BY DEF HasResumeTarget, ColourInv, BaseInv, SetTypes
  <2> HIDE DEF t
  <2> QED
    BY <1>1, <2>1, <2>2 DEF LocalTo, SessionType
<1>3. p = "SERVER" => /\ s.startSent => session[p].startSent /\ s.challengeDone
                      /\ s.challengeDone => session[p].challengeDone
  BY <1>2 DEF ColourInv, Colours, StartFlags
<1> HIDE DEF s
<1> QED
  BY <1>1, <1>2, <1>3, QuietColours DEF net, disk, Unread

\* The steps that only connect and say hello.
LEMMA ColoursConnect ==
  ASSUME ColourInv, NEW p \in Peer,
         \/ Dial(p) \/ FinalizeConnect(p) \/ Accept(p)
         \/ AdvanceHelloClient(p) \/ AdvanceHelloServer(p)
  PROVE  Colours'
<1>1. UNCHANGED <<pend, board, disk, target, found, env>>
  BY DEF Dial, FinalizeConnect, Accept, AdvanceHelloClient, AdvanceHelloServer
<1>2. \A m \in Unread("CLIENT")' : m.type = "START" => m \in Unread("CLIENT")
  <2>1. CASE inbox' = Reached(p, inbox, Bare("HELLO"))
    <3>1. Bare("HELLO") \in Packet /\ inbox \in [Peer -> Seq(Packet)] /\ "CLIENT" \in Peer
      BY Packets, Readable DEF ColourInv, BaseInv, Net, Peer
    <3>2. \A q \in Peer : Unread(q)' \subseteq Unread(q) \cup {Bare("HELLO")}
      BY <2>1, <3>1, ReachedUnread, Ends DEF ColourInv, BaseInv, Unread
    <3> QED
      BY <3>1, <3>2 DEF Bare
  <2>2. CASE inbox' = inbox
    BY <2>2 DEF Unread
  <2>3. CASE HangUp(p)
    BY <2>3, HungUpUnread DEF ColourInv, BaseInv, Peer
  <2>4. CASE Accept(p)
    <3>1. p = "SERVER" /\ inbox' = [inbox EXCEPT ![p] = queued[Other(p)]]
      BY <2>4 DEF Accept, ColourInv, BaseInv, Net, Peer, Other
    <3>2. inbox'["CLIENT"] = inbox["CLIENT"]
      BY <3>1 DEF ColourInv, BaseInv, Net, Peer
    <3> QED
      BY <3>2 DEF Unread
  <2> QED
    BY <2>1, <2>2, <2>3, <2>4 DEF Dial, FinalizeConnect, AdvanceHelloClient,
       AdvanceHelloServer, Send, net
<1>3. PICK s : /\ session' = [session EXCEPT ![p] = s]
               /\ s.started = session[p].started /\ s.color = session[p].color
               /\ s.startSent = session[p].startSent
               /\ s.challengeDone = session[p].challengeDone
  <2>1. session[p] \in SessionType
    BY DEF ColourInv, BaseInv, SessionTypes
  <2>2. CASE UNCHANGED session
    BY <2>2 DEF ColourInv, BaseInv, SessionTypes
  <2>3. CASE session' = [session EXCEPT ![p].connected = TRUE]
    <3> DEFINE s == [session[p] EXCEPT !.connected = TRUE]
    <3>1. session' = [session EXCEPT ![p] = s]
      BY <2>3
    <3>2. /\ s.started = session[p].started /\ s.color = session[p].color
          /\ s.startSent = session[p].startSent
          /\ s.challengeDone = session[p].challengeDone
      BY <2>1 DEF SessionType
    <3> HIDE DEF s
    <3> QED
      BY <3>1, <3>2
  <2>4. CASE AdvanceHelloClient(p)
    <3> DEFINE r == [session[p] EXCEPT !.helloSent = TRUE]
               a == [r EXCEPT !.hello = TRUE, !.phase = "AUTHENTICATED"]
               s == IF session[p].helloReceived THEN a ELSE r
    <3>1. session' = [session EXCEPT ![p] = s]
      BY <2>4 DEF AdvanceHelloClient, Authenticated
    <3>2. /\ s.started = session[p].started /\ s.color = session[p].color
          /\ s.startSent = session[p].startSent
          /\ s.challengeDone = session[p].challengeDone
      BY <2>1 DEF SessionType
    <3> HIDE DEF s
    <3> QED
      BY <3>1, <3>2
  <2>5. CASE AdvanceHelloServer(p)
    <3> DEFINE r == [session[p] EXCEPT !.role = "SERVER"]
               h == [session[p] EXCEPT !.role = "SERVER", !.helloSent = TRUE]
               a == [h EXCEPT !.hello = TRUE, !.phase = "AUTHENTICATED"]
               s == IF session[p].helloReceived THEN a ELSE r
    <3>1. session' = [session EXCEPT ![p] = s]
      BY <2>5 DEF AdvanceHelloServer, Authenticated
    <3>2. /\ s.started = session[p].started /\ s.color = session[p].color
          /\ s.startSent = session[p].startSent
          /\ s.challengeDone = session[p].challengeDone
      BY <2>1 DEF SessionType
    <3> HIDE DEF s
    <3> QED
      BY <3>1, <3>2
  <2> QED
    BY <2>2, <2>3, <2>4, <2>5 DEF Dial, FinalizeConnect, Accept
<1>4. p = "SERVER" => (s.startSent => s.challengeDone)
  BY <1>3 DEF ColourInv, Colours, StartFlags
<1> QED
  BY <1>1, <1>2, <1>3, <1>4, QuietColours DEF disk

\* The steps that change one flag and write or read one packet.
LEMMA ColoursFlags ==
  ASSUME ColourInv, NEW p \in Peer,
         \/ SendResumeRequest(p) \/ RetryStart(p) \/ SendStateSnapshot(p) \/ HandleHello(p)
  PROVE  Colours'
<1>1. UNCHANGED <<pend, board, disk>>
  BY DEF SendResumeRequest, RetryStart, SendStateSnapshot, HandleHello
<1>2. \A m \in Unread("CLIENT")' : m.type = "START" => m \in Unread("CLIENT")
  <2>1. ASSUME NEW m \in Packet, m.type # "START", Send(p, m)
        PROVE  \A n \in Unread("CLIENT")' : n.type = "START" => n \in Unread("CLIENT")
    <3>1. \A q \in Peer : Unread(q)' \subseteq Unread(q) \cup {m}
      BY <2>1, SentUnread, Ends DEF ColourInv, BaseInv
    <3> QED
      BY <2>1, <3>1 DEF Peer
  <2>2. CASE SendResumeRequest(p)
    <3>1. Bare("RESUME_REQUEST") \in Packet /\ Bare("RESUME_REQUEST").type # "START"
      BY DEF Bare, Packet
    <3> QED
      BY <2>1, <2>2, <3>1 DEF SendResumeRequest
  <2>3. CASE SendStateSnapshot(p)
    <3>1. hist[p] \in Seq(Moves) /\ over[p] \in BOOLEAN
      BY DEF ColourInv, BaseInv, BoardTypes
    <3>2. SnapshotMsg(hist[p], over[p]) \in Packet /\ SnapshotMsg(hist[p], over[p]).type # "START"
      BY <3>1 DEF SnapshotMsg, Packet
    <3> QED
      BY <2>1, <2>3, <3>2 DEF SendStateSnapshot
  <2>4. CASE RetryStart(p)
    BY <2>4 DEF RetryStart, net, Unread
  <2>5. CASE HandleHello(p)
    BY <2>5, ConsumedUnread DEF HandleHello, ColourInv, BaseInv, Peer
  <2> QED
    BY <2>2, <2>3, <2>4, <2>5
<1>3. \E s : /\ session' = [session EXCEPT ![p] = s]
             /\ s.started = session[p].started /\ s.color = session[p].color
             /\ s.startSent => session[p].startSent
             /\ s.challengeDone = session[p].challengeDone
  <2>1. session[p] \in SessionType
    BY DEF ColourInv, BaseInv, SessionTypes
  <2> DEFINE a == [session[p] EXCEPT !.resumeSent = TRUE]
             b == [session[p] EXCEPT !.startSent = FALSE]
             c == [session[p] EXCEPT !.syncPending = FALSE]
             d == [session[p] EXCEPT !.helloReceived = TRUE, !.available = TRUE]
  <2>2. \E s \in {a, b, c, d} : session' = [session EXCEPT ![p] = s]
    BY DEF SendResumeRequest, RetryStart, SendStateSnapshot, HandleHello
  <2>3. \A s \in {a, b, c, d} : /\ s.started = session[p].started
                                /\ s.color = session[p].color
                                /\ s.startSent => session[p].startSent
                                /\ s.challengeDone = session[p].challengeDone
    BY <2>1 DEF SessionType
  <2> QED
    BY <2>2, <2>3
<1>4. PICK s : /\ session' = [session EXCEPT ![p] = s]
               /\ s.started = session[p].started /\ s.color = session[p].color
               /\ s.startSent => session[p].startSent
               /\ s.challengeDone = session[p].challengeDone
  BY <1>3
<1>5. p = "SERVER" => (s.startSent => s.challengeDone)
  BY <1>4 DEF ColourInv, Colours, StartFlags
<1> QED
  BY <1>1, <1>2, <1>4, <1>5, QuietColours DEF disk

LEMMA ColoursResumeResponse ==
  ASSUME ColourInv, NEW p \in Peer, HandleResumeResponse(p)
  PROVE  Colours'
<1>1. /\ UNCHANGED <<session, board, snap>> /\ Receive(p, "RESUME_RESPONSE") /\ Consume(p)
      /\ session[p].role = "CLIENT" \/ pend' = pend
      /\ pend' = [pend EXCEPT ![p].set = FALSE] \/ pend' = pend
  BY DEF HandleResumeResponse
<1>2. pend'["SERVER"] = pend["SERVER"]
  BY <1>1 DEF ColourInv, BaseInv, Locals, LocalTo, SessionTypes, Peer
<1>3. \A m \in Unread("CLIENT")' : m.type = "START" => m \in Unread("CLIENT")
  BY <1>1, ConsumedUnread DEF ColourInv, BaseInv, Peer
<1> QED
  BY <1>1, <1>2, <1>3, SameColours

LEMMA ColoursReceiveError ==
  ASSUME ColourInv, NEW p \in Peer, ReceiveError(p)
  PROVE  Colours'
<1>1. /\ HandlePeerDisconnect(p, over[p]) /\ UNCHANGED <<board, snap>> /\ over[p] \in BOOLEAN
  BY DEF ReceiveError, disk, ColourInv, BaseInv, BoardTypes
<1>2. PICK s : /\ session' = [session EXCEPT ![p] = s]
               /\ s.started => session[p].started
  BY <1>1, DisconnectParts DEF ColourInv
<1>3. ServerShows'
  BY <1>1, <1>2, ShowsKept DEF board
<1> QED
  BY <1>1, <1>3, DisconnectColours

\* A session that is new again: the game is left for good, or the program is gone.
LEMMA ColoursRenewed ==
  ASSUME ColourInv, NEW p \in Peer, session' = [session EXCEPT ![p] = NewSession],
         pend' = [pend EXCEPT ![p] = NoPending], snap' = snap,
         hist' = [hist EXCEPT ![p] = <<>>], over' = [over EXCEPT ![p] = FALSE],
         \A m \in Unread("CLIENT")' : m.type = "START" => m \in Unread("CLIENT")
  PROVE  Colours'
<1> DEFINE s == NewSession
<1>1. ~s.started /\ ~s.startSent /\ ~s.challengeDone /\ session' = [session EXCEPT ![p] = s]
  BY DEF NewSession
<1> HIDE DEF s
<1>2. pend'["SERVER"] = pend["SERVER"] \/
        (p = "SERVER" /\ pend'["SERVER"].color \notin Color)
  BY DEF ColourInv, BaseInv, SessionTypes, Peer, NoPending, Color
<1>3. ServerShows'
  <2>1. CASE p = "SERVER"
    BY <1>1, <2>1 DEF ServerShows, ColourInv, BaseInv, SessionTypes, Peer
  <2>2. CASE p = "CLIENT"
    <3>1. hist'["SERVER"] = hist["SERVER"] /\ over'["SERVER"] = over["SERVER"]
      BY <2>2 DEF ColourInv, BaseInv, BoardTypes, Peer
    <3> QED
      BY <1>1, <3>1, ShowsKept
  <2> QED
    BY <2>1, <2>2 DEF Peer
<1> QED
  BY <1>1, <1>2, <1>3, StepColours

LEMMA ColoursReturnToLobby ==
  ASSUME ColourInv, NEW p \in Peer, ReturnToLobby(p)
  PROVE  Colours'
<1>1. \A m \in Unread("CLIENT")' : m.type = "START" => m \in Unread("CLIENT")
  BY HungUpUnread DEF ReturnToLobby, ColourInv, BaseInv, Peer
<1> QED
  BY <1>1, ColoursRenewed DEF ReturnToLobby

LEMMA ColoursCrash ==
  ASSUME ColourInv, NEW p \in Peer, Crash(p)
  PROVE  Colours'
<1> DEFINE e == <<>>
<1>1. inbox \in [Peer -> Seq(Packet)] /\ e \in Seq(Packet) /\ Net
  BY DEF ColourInv, BaseInv, Net
<1>2. Range(e) = {}
  BY DEF Range
<1>3. ASSUME NEW t \in {"ACK", "RESIGN"}, inbox' = [Reached(p, inbox, Bare(t)) EXCEPT ![p] = e]
      PROVE  \A q \in Peer : Unread(q)' \subseteq Unread(q) \cup {Bare(t)}
  <2> DEFINE b == Reached(p, inbox, Bare(t))
             m == Bare(t)
  <2>1. m \in Packet
    BY DEF Bare, Packet
  <2> HIDE DEF m
  <2>2. /\ b \in [Peer -> Seq(Packet)]
        /\ b[Other(p)] = Append(inbox[Other(p)], m) \/ b[Other(p)] = inbox[Other(p)]
    BY <1>1, <2>1, ReachedBox DEF m
  <2>3. Range(Append(inbox[Other(p)], m)) = Range(inbox[Other(p)]) \cup {m}
    BY <1>1, <2>1, RangeParts, Ends
  <2>4. inbox' = [b EXCEPT ![p] = e]
    BY <1>3
  <2> HIDE DEF b, e
  <2>5. inbox'[p] = e /\ inbox'[Other(p)] = b[Other(p)]
    BY <2>2, <2>4, Ends
  <2>6. Unread(p)' = {} /\ Unread(Other(p))' \subseteq Unread(Other(p)) \cup {m}
    BY <1>2, <2>2, <2>3, <2>5 DEF Unread
  <2> QED
    BY <2>6, Ends DEF m
<1>4. CASE inbox' = [inbox EXCEPT ![p] = e]
  <2> HIDE DEF e
  <2>1. inbox'[p] = e /\ inbox'[Other(p)] = inbox[Other(p)]
    BY <1>1, <1>4, Ends
  <2>2. \A q \in Peer : Unread(q)' \subseteq Unread(q)
    BY <1>2, <2>1, Ends DEF Unread
  <2> QED
    BY <2>2, ColoursRenewed DEF Crash, Peer, e, disk
<1>5. CASE \E t \in {"ACK", "RESIGN"} : inbox' = [Reached(p, inbox, Bare(t)) EXCEPT ![p] = e]
  <2>1. PICK t \in {"ACK", "RESIGN"} : inbox' = [Reached(p, inbox, Bare(t)) EXCEPT ![p] = e]
    BY <1>5
  <2>2. \A q \in Peer : Unread(q)' \subseteq Unread(q) \cup {Bare(t)}
    BY <1>3, <2>1
  <2>3. Bare(t).type # "START"
    BY DEF Bare
  <2>4. \A m \in Unread("CLIENT")' : m.type = "START" => m \in Unread("CLIENT")
    BY <2>2, <2>3 DEF Peer
  <2> QED
    BY <2>4, ColoursRenewed DEF Crash, disk
<1> QED
  BY <1>4, <1>5 DEF Crash

LEMMA ColoursRestart ==
  ASSUME ColourInv, NEW p \in Peer, Restart(p)
  PROVE  Colours'
<1>1. /\ session' = [session EXCEPT ![p] = session[p]] /\ UNCHANGED <<snap, board, net>>
      /\ pend' = [pend EXCEPT ![p] = PendingAtRestart(p)] /\ session[p] = NewSession
  BY DEF Restart, disk, ColourInv, BaseInv, SessionTypes, Locals
<1>2. pend'["SERVER"] = pend["SERVER"] \/
        (p = "SERVER" /\ pend'["SERVER"].color \notin Color)
  BY <1>1 DEF ColourInv, BaseInv, SessionTypes, Peer, PendingAtRestart, TokenOnly, NoPending, Color
<1> DEFINE s == session[p]
<1>3. ~s.started /\ ~s.startSent /\ ~s.challengeDone /\ session' = [session EXCEPT ![p] = s]
  BY <1>1 DEF NewSession
<1> HIDE DEF s
<1>4. ServerShows'
  BY <1>1, <1>3, ShowsKept DEF board
<1>5. \A m \in Unread("CLIENT")' : m.type = "START" => m \in Unread("CLIENT")
  BY <1>1 DEF net, Unread
<1> QED
  BY <1>1, <1>2, <1>3, <1>4, <1>5, StepColours

LEMMA ColoursBreak ==
  ASSUME ColourInv, Break
  PROVE  Colours'
BY SameColours DEF Break, disk, Unread

\* White by the colour of either end.
LEMMA WhiteOf ==
  ASSUME NEW p \in Peer, NEW c \in Color
  PROVE  /\ White(p, c) \in Peer /\ White(Other(p), Opposite(c)) = White(p, c)
         /\ White(p, Opposite(c)) = White(Other(p), c)
BY DEF White, Peer, Other, Color, Opposite

\* The first START draws the colours, and nothing contradicts them yet.
LEMMA ColoursSendStart ==
  ASSUME ColourInv, NEW p \in Peer, SendStart(p)
  PROVE  Colours'
<1> DEFINE s == [session[p] EXCEPT !.startSent = TRUE]
<1>1. PICK c \in IF pend[p].set THEN {pend[p].color} ELSE Color :
           /\ pend' = [pend EXCEPT ![p] = [set |-> TRUE, color |-> c]]
           /\ Send(p, StartMsg(c))
  BY DEF SendStart
<1>2. /\ UNCHANGED <<board, disk>> /\ session[p].challengeDone /\ session[p].role = "SERVER"
      /\ session' = [session EXCEPT ![p] = s]
  BY DEF SendStart, StartDue
<1>3. p = "SERVER" /\ Other(p) = "CLIENT" /\ session[p] \in SessionType
  BY <1>2 DEF ColourInv, BaseInv, Locals, LocalTo, Peer, Other
<1>4. c \in Color
  BY <1>1, <1>2, <1>3 DEF ColourInv, Colours, StartFlags
<1>5. /\ s.started = session[p].started /\ s.color = session[p].color
      /\ s.challengeDone /\ s.startSent
  BY <1>2, <1>3 DEF SessionType
<1> HIDE DEF s
<1>6. /\ session'["SERVER"] = s /\ session'["CLIENT"] = session["CLIENT"]
      /\ pend'["SERVER"].set /\ pend'["SERVER"].color = c
  BY <1>1, <1>2, <1>3 DEF ColourInv, BaseInv, SessionTypes, Peer
<1>7. Unread("CLIENT")' \subseteq Unread("CLIENT") \cup {StartMsg(c)}
  <2>1. StartMsg(c) \in Packet
    BY <1>4 DEF StartMsg, Packet
  <2> QED
    BY <1>1, <1>3, <2>1, SentUnread DEF ColourInv, BaseInv
<1>8. \E w \in Peer : Agreed(w) /\ White("CLIENT", c) = w
  <2>1. CASE pend["SERVER"].set
    BY <1>1, <1>3, <1>4, <2>1 DEF ColourInv, Colours, Agreed
  <2>2. CASE ~pend["SERVER"].set
    <3>1. /\ \A q \in Peer : snap[q] = NoSnapshot /\ ~session[q].started
          /\ \A m \in Unread("CLIENT") : m.type # "START"
      BY <1>2, <1>3, <2>2 DEF ColourInv, Colours, Undrawn
    <3>2. White("CLIENT", c) \in Peer
      BY <1>4, WhiteOf DEF Peer
    <3> QED
      BY <2>2, <3>1, <3>2 DEF Agreed
  <2> QED
    BY <2>1, <2>2
<1>9. PICK w \in Peer : Agreed(w) /\ White("CLIENT", c) = w
  BY <1>8
<1>10. Agreed(w)'
  <2>1. \A m \in Unread("CLIENT")' : m.type = "START" =>
          m.color \in Color /\ White("CLIENT", m.color) = w
    BY <1>4, <1>7, <1>9 DEF Agreed, StartMsg
  <2>2. \A q \in Peer : session'[q].started =>
          session'[q].color \in Color /\ White(q, session'[q].color) = w
    BY <1>3, <1>5, <1>6, <1>9 DEF Agreed, Peer
  <2> QED
    BY <1>2, <1>6, <1>9, <2>1, <2>2 DEF Agreed, disk
<1>11. StartFlags' /\ Undrawn'
  BY <1>4, <1>5, <1>6 DEF StartFlags, Undrawn
<1>12. ServerShows'
  BY <1>2, <1>3, <1>5, <1>6 DEF ColourInv, Colours, ServerShows, board, disk
<1> QED
  BY <1>9, <1>10, <1>11, <1>12 DEF Colours

\* What StartGame changes and what it leaves.
LEMMA StartGameFields ==
  ASSUME NEW s \in SessionType, NEW c
  PROVE  /\ StartGame(s, c).started /\ StartGame(s, c).color = c
         /\ StartGame(s, c).startSent = s.startSent
         /\ StartGame(s, c).challengeDone = s.challengeDone
         /\ StartGame(s, c).syncPending = s.syncPending
BY DEF StartGame, SessionType

\* A game starts on the client with the colour the server has written.
LEMMA ColoursHandleStart ==
  ASSUME ColourInv, NEW p \in Peer, HandleStart(p)
  PROVE  Colours'
<1> DEFINE m == Head(inbox[p])
           s == StartGame(session[p], m.color)
<1>1. Receive(p, "START") /\ UNCHANGED snap /\ Net
  BY DEF HandleStart, ColourInv, BaseInv
<1>2. CASE /\ StartAcceptable(p) /\ Answer(p, Bare("ACK"))
           /\ session' = [session EXCEPT ![p] = s]
           /\ pend' = [pend EXCEPT ![p] = [set |-> TRUE, color |-> m.color]]
           /\ hist' = [hist EXCEPT ![p] = LoadMatch(p).hist]
           /\ over' = [over EXCEPT ![p] = LoadMatch(p).over]
  <2>1. /\ p = "CLIENT" /\ Other(p) = "SERVER" /\ session[p] \in SessionType
    BY <1>2 DEF StartAcceptable, ColourInv, BaseInv, Locals, LocalTo, Peer, Other
  <2>2. /\ m \in Unread("CLIENT") /\ m.type = "START" /\ Unread("CLIENT")' \subseteq Unread("CLIENT")
    <3>1. Bare("ACK") \in Packet
      BY DEF Bare, Packet
    <3> QED
      BY <1>1, <1>2, <2>1, <3>1, AnsweredUnread, Received
  <2> HIDE DEF m
  <2>3. s.started /\ s.color = m.color
    BY <2>1, StartGameFields
  <2> HIDE DEF s
  <2>4. /\ session'["CLIENT"] = s /\ session'["SERVER"] = session["SERVER"]
        /\ pend'["SERVER"] = pend["SERVER"]
        /\ hist'["SERVER"] = hist["SERVER"] /\ over'["SERVER"] = over["SERVER"]
    BY <1>2, <2>1 DEF ColourInv, BaseInv, SessionTypes, BoardTypes, Peer
  <2>5. PICK w \in Peer : Agreed(w)
    BY DEF ColourInv, Colours
  <2>6. Agreed(w)'
    <3>1. m.color \in Color /\ White("CLIENT", m.color) = w
      BY <2>2, <2>5 DEF Agreed
    <3>2. \A q \in Peer : session'[q].started =>
            session'[q].color \in Color /\ White(q, session'[q].color) = w
      BY <2>3, <2>4, <2>5, <3>1 DEF Agreed, Peer
    <3> QED
      BY <1>1, <2>2, <2>4, <2>5, <3>2 DEF Agreed
  <2>7. StartFlags' /\ ServerShows'
    BY <1>1, <2>4 DEF ColourInv, Colours, StartFlags, ServerShows
  <2>8. Undrawn'
    BY <2>2, <2>4 DEF ColourInv, Colours, Undrawn
  <2> QED
    BY <2>5, <2>6, <2>7, <2>8 DEF Colours
<1>3. CASE Consume(p) /\ UNCHANGED <<session, pend, board>>
  BY <1>1, <1>3, ConsumedUnread, SameColours DEF Peer
<1> QED
  BY <1>2, <1>3 DEF HandleStart

\* A game starts on the server with the opposite of the colour it has assigned.
LEMMA ColoursHandleAck ==
  ASSUME ColourInv, NEW p \in Peer, HandleAck(p)
  PROVE  Colours'
<1> DEFINE c == Opposite(pend[p].color)
           b == LoadMatch(p)
           s == StartGame(session[p], c)
<1>1. Receive(p, "ACK") /\ Consume(p) /\ UNCHANGED pend /\ Net
  BY DEF HandleAck, ColourInv, BaseInv
<1>2. \A m \in Unread("CLIENT")' : m.type = "START" => m \in Unread("CLIENT")
  BY <1>1, ConsumedUnread DEF Peer
<1>3. CASE /\ session[p].role = "SERVER" /\ session[p].startSent
           /\ session' = [session EXCEPT ![p] = s]
           /\ hist' = [hist EXCEPT ![p] = b.hist]
           /\ over' = [over EXCEPT ![p] = b.over]
           /\ snap' = [snap EXCEPT ![p] = Record(p, c, b.hist, b.over)]
  <2>1. p = "SERVER" /\ session[p] \in SessionType
    BY <1>3 DEF ColourInv, BaseInv, Locals, LocalTo, Peer
  <2>2. /\ pend[p].set /\ pend[p].color \in Color
    BY <1>3, <2>1 DEF ColourInv, Colours, StartFlags
  <2>3. /\ Record(p, c, b.hist, b.over) # NoSnapshot
        /\ Record(p, c, b.hist, b.over).white = White(p, c)
        /\ Record(p, c, b.hist, b.over).hist = b.hist
        /\ Record(p, c, b.hist, b.over).over = b.over
    <3>1. b.hist \in Seq(Moves) /\ b.over \in BOOLEAN
      BY SnapshotFields DEF ColourInv, BaseInv
    <3> HIDE DEF b, c
    <3> QED
      BY <3>1, RecordType
  <2>4. c \in Color /\ White("SERVER", c) = White("CLIENT", pend[p].color)
    BY <2>1, <2>2, WhiteOf DEF Peer, Other, Color, Opposite
  <2> HIDE DEF c, b
  <2>5. s.started /\ s.color = c /\ s.startSent = session[p].startSent
        /\ s.challengeDone = session[p].challengeDone
    BY <2>1, StartGameFields
  <2> HIDE DEF s
  <2>6. /\ session'["SERVER"] = s /\ session'["CLIENT"] = session["CLIENT"]
        /\ snap'["SERVER"] = Record(p, c, b.hist, b.over) /\ snap'["CLIENT"] = snap["CLIENT"]
        /\ hist'["SERVER"] = b.hist /\ over'["SERVER"] = b.over
    BY <1>3, <2>1 DEF ColourInv, BaseInv, SessionTypes, BoardTypes, Peer
  <2>7. PICK w \in Peer : Agreed(w)
    BY DEF ColourInv, Colours
  <2>8. White("SERVER", c) = w
    BY <2>1, <2>2, <2>4, <2>7 DEF Agreed
  <2>9. Agreed(w)'
    <3>1. \A q \in Peer : snap'[q] # NoSnapshot => snap'[q].white = w
      BY <2>1, <2>3, <2>6, <2>7, <2>8 DEF Agreed, Peer
    <3>2. \A q \in Peer : session'[q].started =>
            session'[q].color \in Color /\ White(q, session'[q].color) = w
      BY <2>4, <2>5, <2>6, <2>7, <2>8 DEF Agreed, Peer
    <3> QED
      BY <1>1, <1>2, <2>7, <3>1, <3>2 DEF Agreed
  <2>10. StartFlags' /\ Undrawn'
    BY <1>1, <2>1, <2>2, <2>5, <2>6 DEF ColourInv, Colours, StartFlags, Undrawn
  <2>11. ServerShows'
    BY <2>3, <2>6 DEF ServerShows
  <2> QED
    BY <2>7, <2>9, <2>10, <2>11 DEF Colours
<1>4. CASE UNCHANGED <<session, board, snap>>
  BY <1>1, <1>2, <1>4, SameColours
<1> QED
  BY <1>3, <1>4 DEF HandleAck, LoadedByAck

\* A resumed game keeps the colours of the file.
LEMMA ColoursHandleResumeRequest ==
  ASSUME ColourInv, NEW p \in Peer, HandleResumeRequest(p)
  PROVE  Colours'
<1> DEFINE known == snap[p] # NoSnapshot
<1>1. UNCHANGED <<board, snap>> /\ Receive(p, "RESUME_REQUEST") /\ Net
  BY DEF HandleResumeRequest, disk, ColourInv, BaseInv
<1>2. CASE Consume(p) /\ UNCHANGED <<session, pend>>
  BY <1>1, <1>2, ConsumedUnread, SameColours DEF Peer
<1>3. CASE HandlePeerDisconnect(p, over[p])
  <2>1. over[p] \in BOOLEAN
    BY DEF ColourInv, BaseInv, BoardTypes
  <2>2. PICK s : session' = [session EXCEPT ![p] = s] /\ (s.started => session[p].started)
    BY <1>3, <2>1, DisconnectParts DEF ColourInv
  <2>3. ServerShows'
    BY <1>1, <2>2, ShowsKept DEF board
  <2> QED
    BY <1>1, <1>3, <2>1, <2>3, DisconnectColours
<1>4. CASE /\ session[p].role = "SERVER" /\ ~session[p].startDone
           /\ session' = [session EXCEPT ![p] =
                      IF known THEN ResumeAccepted(@)
                      ELSE [@ EXCEPT !.syncPending = FALSE]]
           /\ pend' = IF known
                      THEN [pend EXCEPT ![p] =
                                   [set |-> TRUE, color |-> RequesterColor(p)]]
                      ELSE pend
           /\ Answer(p, ResponseMsg(known))
  <2>1. /\ p = "SERVER" /\ Other(p) = "CLIENT" /\ session[p] \in SessionType
        /\ ~session[p].started
    BY <1>4 DEF ColourInv, BaseInv, Locals, LocalTo, Peer, Other
  <2>2. \A m \in Unread("CLIENT")' : m.type = "START" => m \in Unread("CLIENT")
    <3>1. ResponseMsg(known) \in Packet /\ ResponseMsg(known).type # "START"
      BY DEF ResponseMsg, Packet
    <3>2. Unread("CLIENT")' \subseteq Unread("CLIENT") \cup {ResponseMsg(known)}
      BY <1>1, <1>4, <2>1, <3>1, AnsweredUnread
    <3> QED
      BY <3>1, <3>2
  <2>3. CASE known
    <3> DEFINE s == ResumeAccepted(session[p])
               c == RequesterColor(p)
    <3>1. s.challengeDone /\ ~s.startSent /\ s.started = session[p].started
      BY <2>1 DEF ResumeAccepted, SessionType
    <3>2. session' = [session EXCEPT ![p] = s]
          /\ pend' = [pend EXCEPT ![p] = [set |-> TRUE, color |-> c]]
      BY <1>4, <2>3
    <3>3. c \in Color /\ White("CLIENT", c) = snap["SERVER"].white
      <4>1. snap["SERVER"].white \in Peer
        BY <2>1, <2>3, SnapshotFields DEF ColourInv, BaseInv, Peer
      <4> QED
        BY <2>1, <4>1 DEF RequesterColor, Color, White, Other, Peer
    <3> HIDE DEF s, c
    <3>4. /\ session'["SERVER"] = s /\ session'["CLIENT"] = session["CLIENT"]
          /\ pend'["SERVER"].set /\ pend'["SERVER"].color = c
      BY <2>1, <3>2 DEF ColourInv, BaseInv, SessionTypes, Peer
    <3>5. PICK w \in Peer : Agreed(w)
      BY DEF ColourInv, Colours
    <3>6. Agreed(w)'
      <4>1. snap["SERVER"].white = w
        BY <2>1, <2>3, <3>5 DEF Agreed
      <4>2. \A q \in Peer : session'[q].started =>
              session'[q].color \in Color /\ White(q, session'[q].color) = w
        BY <2>1, <3>1, <3>4, <3>5 DEF Agreed, Peer
      <4>3. \A m \in Unread("CLIENT")' : m.type = "START" =>
              m.color \in Color /\ White("CLIENT", m.color) = w
        BY <2>2, <3>5 DEF Agreed
      <4> QED
        BY <1>1, <3>3, <3>4, <3>5, <4>1, <4>2, <4>3 DEF Agreed
    <3>7. StartFlags' /\ Undrawn' /\ ServerShows'
      BY <2>1, <3>1, <3>3, <3>4 DEF StartFlags, Undrawn, ServerShows
    <3> QED
      BY <3>5, <3>6, <3>7 DEF Colours
  <2>4. CASE ~known
    <3> DEFINE s == [session[p] EXCEPT !.syncPending = FALSE]
    <3>1. /\ s.challengeDone = session[p].challengeDone /\ s.startSent = session[p].startSent
          /\ s.started = session[p].started /\ s.color = session[p].color
      BY <2>1 DEF SessionType
    <3>2. session' = [session EXCEPT ![p] = s] /\ pend' = pend
      BY <1>4, <2>4
    <3> HIDE DEF s
    <3>3. s.startSent => s.challengeDone
      BY <2>1, <3>1 DEF ColourInv, Colours, StartFlags
    <3> QED
      BY <1>1, <2>1, <2>2, <3>1, <3>2, <3>3, QuietColours
  <2> QED
    BY <2>3, <2>4
<1> QED
  BY <1>2, <1>3, <1>4 DEF HandleResumeRequest

\* A step of the game: one board and its file, and no session.
LEMMA ColoursBoard ==
  ASSUME ColourInv, NEW p \in Peer, session[p].started,
         UNCHANGED <<session, pend>>,
         \A q \in Peer : snap'[q] = snap[q] \/
            /\ q = p /\ snap'[q] # NoSnapshot
            /\ snap'[q].white = White(p, session[p].color),
         ServerShows',
         \A m \in Unread("CLIENT")' : m.type = "START" => m \in Unread("CLIENT")
  PROVE  Colours'
<1> DEFINE s == session[p]
<1>1. session' = [session EXCEPT ![p] = s]
  BY DEF ColourInv, BaseInv, SessionTypes
<1>2. p = "SERVER" => (s.startSent => s.challengeDone)
  BY DEF ColourInv, Colours, StartFlags
<1>3. s.started /\ s = session[p]
  OBVIOUS
<1> HIDE DEF s
<1> QED
  BY <1>1, <1>2, <1>3, StepColours

LEMMA ColoursHandleStateSnapshot ==
  ASSUME ColourInv, NEW p \in Peer, HandleStateSnapshot(p)
  PROVE  Colours'
<1> DEFINE m == Head(inbox[p])
           f == Record(p, session[p].color, m.hist, m.over)
<1>1. /\ Receive(p, "STATE_SNAPSHOT") /\ Consume(p) /\ UNCHANGED <<session, pend>> /\ Net
  BY DEF HandleStateSnapshot, ColourInv, BaseInv
<1>2. \A n \in Unread("CLIENT")' : n.type = "START" => n \in Unread("CLIENT")
  BY <1>1, ConsumedUnread DEF Peer
<1>3. CASE /\ session[p].role = "CLIENT" /\ session[p].started
           /\ hist' = [hist EXCEPT ![p] = m.hist]
           /\ over' = [over EXCEPT ![p] = m.over]
           /\ snap' = [snap EXCEPT ![p] = f]
  <2>1. p = "CLIENT"
    BY <1>3 DEF ColourInv, BaseInv, Locals, LocalTo, Peer
  <2>2. f # NoSnapshot /\ f.white = White(p, session[p].color)
    <3>1. m.hist \in Seq(Moves) /\ m.over \in BOOLEAN
      BY <1>1, Received, Payloads
    <3> QED
      BY <3>1, RecordType
  <2> HIDE DEF f, m
  <2>3. /\ hist'["SERVER"] = hist["SERVER"] /\ over'["SERVER"] = over["SERVER"]
        /\ snap'["SERVER"] = snap["SERVER"] /\ snap'["CLIENT"] = f
    BY <1>3, <2>1 DEF ColourInv, BaseInv, BoardTypes, Peer
  <2>4. ServerShows'
    BY <1>1, <2>3 DEF ColourInv, Colours, ServerShows
  <2>5. \A q \in Peer : snap'[q] = snap[q] \/
            /\ q = p /\ snap'[q] # NoSnapshot
            /\ snap'[q].white = White(p, session[p].color)
    BY <2>1, <2>2, <2>3 DEF Peer
  <2> QED
    BY <1>1, <1>2, <1>3, <2>4, <2>5, ColoursBoard
<1>4. CASE UNCHANGED <<board, snap>>
  BY <1>1, <1>2, <1>4, SameColours
<1> QED
  BY <1>3, <1>4 DEF HandleStateSnapshot

\* What a move, or the end of the game, does to the files of two ends whose
\* server shows what its file holds.
LEMMA RecordedMove ==
  ASSUME ColourInv, NEW p \in Peer, NEW h \in Seq(Moves), session[p].started,
         hist' = [hist EXCEPT ![p] = h], snap' = RecordMove(p, h), UNCHANGED over
  PROVE  /\ \A q \in Peer : snap'[q] = snap[q] \/
              /\ q = p /\ snap'[q] # NoSnapshot
              /\ snap'[q].white = White(p, session[p].color)
         /\ p = "SERVER" => /\ snap'["SERVER"] # NoSnapshot
                            /\ snap'["SERVER"].white = White(p, session[p].color)
                            /\ snap'["SERVER"].hist = h
                            /\ snap'["SERVER"].over = over[p]
                            /\ hist'["SERVER"] = h
         /\ p = "CLIENT" => snap' = snap /\ hist'["SERVER"] = hist["SERVER"]
         /\ p = "SERVER" => snap'["CLIENT"] = snap["CLIENT"]
<1> DEFINE f == Record(p, session[p].color, h, over[p])
<1>1. session[p].role = p
  BY DEF ColourInv, BaseInv, Locals, LocalTo
<1>2. /\ f # NoSnapshot /\ f.white = White(p, session[p].color)
      /\ f.hist = h /\ f.over = over[p]
  <2>1. over[p] \in BOOLEAN
    BY DEF ColourInv, BaseInv, BoardTypes
  <2> QED
    BY <2>1, RecordType
<1> HIDE DEF f
<1>3. CASE p = "SERVER"
  <2>1. snap' = [snap EXCEPT ![p] = f]
    BY <1>1, <1>3 DEF RecordMove, f
  <2>2. snap'[p] = f /\ \A q \in Peer : q # p => snap'[q] = snap[q]
    BY <2>1 DEF ColourInv, BaseInv, BoardTypes
  <2>3. hist'[p] = h
    BY DEF ColourInv, BaseInv, BoardTypes
  <2> QED
    BY <1>2, <1>3, <2>2, <2>3 DEF Peer
<1>4. CASE p = "CLIENT"
  <2>1. snap' = snap /\ hist'["SERVER"] = hist["SERVER"]
    BY <1>1, <1>4 DEF RecordMove, ColourInv, BaseInv, BoardTypes, Peer
  <2> QED
    BY <1>4, <2>1
<1> QED
  BY <1>3, <1>4 DEF Peer

LEMMA MovedShows ==
  ASSUME ColourInv, NEW p \in Peer, NEW h \in Seq(Moves), session[p].started,
         hist' = [hist EXCEPT ![p] = h], snap' = RecordMove(p, h), UNCHANGED over,
         session'["SERVER"].started => session["SERVER"].started
  PROVE  ServerShows'
<1>1. CASE p = "SERVER"
  <2>1. /\ snap'["SERVER"] # NoSnapshot /\ hist'["SERVER"] = snap'["SERVER"].hist
        /\ snap'["SERVER"].over = over'["SERVER"]
    BY <1>1, RecordedMove
  <2> QED
    BY <2>1 DEF ServerShows
<1>2. CASE p = "CLIENT"
  <2>1. snap' = snap /\ hist'["SERVER"] = hist["SERVER"] /\ over' = over
    BY <1>2, RecordedMove
  <2> QED
    BY <2>1 DEF ColourInv, Colours, ServerShows
<1> QED
  BY <1>1, <1>2 DEF Peer

LEMMA ColoursHandleMove ==
  ASSUME ColourInv, NEW p \in Peer, HandleMove(p)
  PROVE  Colours'
<1> DEFINE m == Head(inbox[p]).move
           h == Append(hist[p], m)
<1>1. /\ Receive(p, "MOVE") /\ Consume(p) /\ UNCHANGED <<session, pend, over>> /\ Net
  BY DEF HandleMove, ColourInv, BaseInv
<1>2. \A n \in Unread("CLIENT")' : n.type = "START" => n \in Unread("CLIENT")
  BY <1>1, ConsumedUnread DEF Peer
<1>3. CASE /\ session[p].started
           /\ hist' = [hist EXCEPT ![p] = h] /\ snap' = RecordMove(p, h)
  <2>1. m \in Moves
    BY <1>1, Received, Payloads
  <2> HIDE DEF m
  <2>2. h \in Seq(Moves)
    BY <2>1 DEF ColourInv, BaseInv, BoardTypes
  <2> HIDE DEF h
  <2>3. ServerShows'
    BY <1>1, <1>3, <2>2, MovedShows
  <2>4. \A q \in Peer : snap'[q] = snap[q] \/
              /\ q = p /\ snap'[q] # NoSnapshot
              /\ snap'[q].white = White(p, session[p].color)
    BY <1>1, <1>3, <2>2, RecordedMove
  <2> QED
    BY <1>1, <1>2, <1>3, <2>3, <2>4, ColoursBoard
<1>4. CASE UNCHANGED <<hist, snap>>
  BY <1>1, <1>2, <1>4, SameColours DEF board
<1> QED
  BY <1>3, <1>4 DEF HandleMove

\* What the end of a game writes.
LEMMA OverRecorded ==
  ASSUME NEW p \in Peer, NEW c, NEW h \in Seq(Moves)
  PROVE  /\ Record(p, c, h, TRUE) # NoSnapshot /\ Record(p, c, h, TRUE).white = White(p, c)
         /\ Record(p, c, h, TRUE).hist = h /\ Record(p, c, h, TRUE).over
<1>1. Record(p, c, h, TRUE).white \in Peer
  BY Ends DEF White, Record, Peer
<1> QED
  BY <1>1 DEF Record, NoSnapshot, Peer

\* The end of the game is written with the moves on the board.
LEMMA RecordedEnd ==
  ASSUME ColourInv, NEW p \in Peer, session[p].started,
         over' = [over EXCEPT ![p] = TRUE],
         snap' = [snap EXCEPT ![p] = Record(p, session[p].color, hist[p], TRUE)],
         UNCHANGED <<hist, session>>
  PROVE  /\ \A q \in Peer : snap'[q] = snap[q] \/
              /\ q = p /\ snap'[q] # NoSnapshot
              /\ snap'[q].white = White(p, session[p].color)
         /\ snap'[p] # NoSnapshot /\ snap'[p].white = White(p, session[p].color)
         /\ snap'[p].hist = hist[p] /\ snap'[p].over /\ over'[p]
         /\ \A q \in Peer : q # p => snap'[q] = snap[q] /\ over'[q] = over[q]
         /\ ServerShows'
<1> DEFINE f == Record(p, session[p].color, hist[p], TRUE)
<1>1. f # NoSnapshot /\ f.white = White(p, session[p].color) /\ f.hist = hist[p] /\ f.over
  <2> DEFINE c == session[p].color
             h == hist[p]
  <2>1. h \in Seq(Moves)
    BY DEF ColourInv, BaseInv, BoardTypes
  <2>2. f = Record(p, c, h, TRUE)
    OBVIOUS
  <2> HIDE DEF c, h, f
  <2> USE DEF Record
  <2>3. f # NoSnapshot
    BY <2>1, <2>2, OverRecorded
  <2>4. f.white = White(p, c)
    BY <2>2
  <2>5. f.hist = h /\ f.over
    BY <2>2
  <2> QED
    BY <2>3, <2>4, <2>5 DEF c, h
<1>2. snap' = [snap EXCEPT ![p] = f]
  OBVIOUS
<1> HIDE DEF f
<1>3. /\ snap'[p] = f /\ over'[p]
      /\ \A q \in Peer : q # p => snap'[q] = snap[q] /\ over'[q] = over[q]
  BY <1>2 DEF ColourInv, BaseInv, BoardTypes
<1>4. ServerShows'
  <2>1. CASE p = "SERVER"
    BY <1>1, <1>3, <2>1 DEF ServerShows
  <2>2. CASE p # "SERVER"
    <3>1. snap'["SERVER"] = snap["SERVER"] /\ over'["SERVER"] = over["SERVER"]
      BY <1>3, <2>2 DEF Peer
    <3> QED
      BY <3>1 DEF ColourInv, Colours, ServerShows
  <2> QED
    BY <2>1, <2>2
<1> QED
  BY <1>1, <1>3, <1>4

LEMMA ColoursHandleResign ==
  ASSUME ColourInv, NEW p \in Peer, HandleResign(p)
  PROVE  Colours'
<1>1. /\ Receive(p, "RESIGN") /\ Consume(p) /\ UNCHANGED <<session, pend, hist>> /\ Net
  BY DEF HandleResign, ColourInv, BaseInv
<1>2. \A n \in Unread("CLIENT")' : n.type = "START" => n \in Unread("CLIENT")
  BY <1>1, ConsumedUnread DEF Peer
<1>3. CASE /\ session[p].started
           /\ over' = [over EXCEPT ![p] = TRUE]
           /\ snap' = [snap EXCEPT ![p] = Record(p, session[p].color, hist[p], TRUE)]
  <2>1. /\ ServerShows'
        /\ \A q \in Peer : snap'[q] = snap[q] \/
              /\ q = p /\ snap'[q] # NoSnapshot
              /\ snap'[q].white = White(p, session[p].color)
    BY <1>1, <1>3, RecordedEnd
  <2> QED
    BY <1>1, <1>2, <1>3, <2>1, ColoursBoard
<1>4. CASE UNCHANGED <<over, snap>>
  BY <1>1, <1>2, <1>4, SameColours DEF board
<1> QED
  BY <1>3, <1>4 DEF HandleResign

LEMMA ColoursTrySendLocalMove ==
  ASSUME ColourInv, NEW p \in Peer, NEW m \in Moves, TrySendLocalMove(p, m)
  PROVE  Colours'
<1> DEFINE h == Append(hist[p], m)
<1>1. /\ session[p].started /\ UNCHANGED over /\ Net
      /\ hist' = [hist EXCEPT ![p] = h] /\ snap' = RecordMove(p, h)
  BY DEF TrySendLocalMove, InPlay, ColourInv, BaseInv
<1>2. h \in Seq(Moves)
  BY DEF ColourInv, BaseInv, BoardTypes
<1> HIDE DEF h
<1>3. \A q \in Peer : snap'[q] = snap[q] \/
              /\ q = p /\ session[p].started /\ snap'[q] # NoSnapshot
              /\ snap'[q].white = White(p, session[p].color)
  BY <1>1, <1>2, RecordedMove
<1>4. CASE Send(p, MoveMsg(m)) /\ UNCHANGED <<session, pend, found>>
  <2>1. ServerShows'
    BY <1>1, <1>2, <1>4, MovedShows
  <2>2. \A n \in Unread("CLIENT")' : n.type = "START" => n \in Unread("CLIENT")
    <3>1. MoveMsg(m) \in Packet /\ MoveMsg(m).type # "START"
      BY DEF MoveMsg, Packet
    <3>2. \A q \in Peer : Unread(q)' \subseteq Unread(q) \cup {MoveMsg(m)}
      BY <1>1, <1>4, <3>1, SentUnread, Ends
    <3> QED
      BY <3>1, <3>2 DEF Peer
  <2> QED
    BY <1>1, <1>3, <1>4, <2>1, <2>2, ColoursBoard
<1>5. CASE HandlePeerDisconnect(p, FALSE)
  <2>1. PICK s : session' = [session EXCEPT ![p] = s] /\ (s.started => session[p].started)
    BY <1>5, DisconnectParts DEF ColourInv
  <2>2. session'["SERVER"].started => session["SERVER"].started
    BY <2>1 DEF ColourInv, BaseInv, SessionTypes, Peer
  <2>3. ServerShows'
    BY <1>1, <1>2, <2>2, MovedShows
  <2> QED
    BY <1>3, <1>5, <2>3, DisconnectColours
<1> QED
  BY <1>4, <1>5 DEF TrySendLocalMove

LEMMA ColoursResign ==
  ASSUME ColourInv, NEW p \in Peer, Resign(p)
  PROVE  Colours'
<1>1. /\ session[p].started /\ UNCHANGED hist /\ Net /\ over' = [over EXCEPT ![p] = TRUE]
  BY DEF Resign, InPlay, ColourInv, BaseInv
<1>2. CASE /\ Send(p, Bare("RESIGN"))
           /\ snap' = [snap EXCEPT ![p] = Record(p, session[p].color, hist[p], TRUE)]
           /\ UNCHANGED <<session, pend, found>>
  <2>1. /\ ServerShows'
        /\ \A q \in Peer : snap'[q] = snap[q] \/
              /\ q = p /\ snap'[q] # NoSnapshot
              /\ snap'[q].white = White(p, session[p].color)
    BY <1>1, <1>2, RecordedEnd
  <2>2. \A n \in Unread("CLIENT")' : n.type = "START" => n \in Unread("CLIENT")
    <3>1. Bare("RESIGN") \in Packet /\ Bare("RESIGN").type # "START"
      BY DEF Bare, Packet
    <3>2. \A q \in Peer : Unread(q)' \subseteq Unread(q) \cup {Bare("RESIGN")}
      BY <1>1, <1>2, <3>1, SentUnread, Ends
    <3> QED
      BY <3>1, <3>2 DEF Peer
  <2> QED
    BY <1>1, <1>2, <2>1, <2>2, ColoursBoard
<1>3. CASE HandlePeerDisconnect(p, TRUE) /\ UNCHANGED snap
  <2>1. PICK s : session' = [session EXCEPT ![p] = s] /\ (s.started => session[p].started)
    BY <1>3, DisconnectParts DEF ColourInv
  <2>2. over["SERVER"] => over'["SERVER"]
    BY <1>1 DEF ColourInv, BaseInv, BoardTypes, Peer
  <2>3. ServerShows'
    BY <1>1, <1>3, <2>1, <2>2, ShowsKept
  <2> QED
    BY <1>3, <2>3, DisconnectColours
<1> QED
  BY <1>2, <1>3 DEF Resign

LEMMA NextColours ==
  ColourInv /\ [Next]_vars => ColourInv'
<1> SUFFICES ASSUME ColourInv, [Next]_vars PROVE Colours'
  BY NextBase DEF ColourInv
<1>1. CASE UNCHANGED vars
  BY <1>1, SameColours DEF vars, board, Unread
<1>2. CASE Break
  BY <1>2, ColoursBreak
<1>3. ASSUME NEW p \in Peer,
             \/ Discover(p) \/ NetTick(p) \/ RetryStart(p) \/ PlayerInput(p)
             \/ Crash(p) \/ Restart(p)
      PROVE  Colours'
  <2>1. CASE NetTick(p)
    <3>1. CASE DispatchIncomingPacket(p)
      BY <3>1, ColoursFlags, ColoursHandleStart, ColoursHandleAck, ColoursHandleResumeRequest,
         ColoursResumeResponse, ColoursHandleStateSnapshot, ColoursHandleMove,
         ColoursHandleResign DEF DispatchIncomingPacket
    <3> QED
      BY <2>1, <3>1, ColoursConnect, ColoursFlags, ColoursReceiveError, ColoursSendStart
      DEF NetTick
  <2>2. CASE PlayerInput(p)
    BY <2>2, ColoursTrySendLocalMove, ColoursResign, ColoursReturnToLobby DEF PlayerInput
  <2> QED
    BY <1>3, <2>1, <2>2, ColoursDiscover, ColoursFlags, ColoursCrash, ColoursRestart
<1> QED
  BY <1>1, <1>2, <1>3 DEF Next

LEMMA ColourInvariance ==
  Spec => []ColourInv
BY InitColours, NextColours, PTL DEF Spec

LEMMA ColourInvGivesColoursKept ==
  ASSUME ColourInv
  PROVE  ColoursKept
<1> DEFINE files == {snap[p].white : p \in {q \in Peer : snap[q] # NoSnapshot}}
           games == {White(p, session[p].color) : p \in {q \in Peer : session[q].started}}
<1>1. PICK w \in Peer : Agreed(w)
  BY DEF ColourInv, Colours
<1>2. files \cup games \in SUBSET {w}
  BY <1>1 DEF Agreed
<1>3. IsFiniteSet({w}) /\ Cardinality({w}) = 1
  BY FS_Singleton
<1> HIDE DEF files, games
<1>4. /\ Cardinality(files \cup games) <= Cardinality({w})
      /\ IsFiniteSet(files \cup games)
  BY <1>2, <1>3, FS_Subset
<1>5. Cardinality(files \cup games) <= 1
  BY <1>3, <1>4
<1> QED
  BY <1>5 DEF ColoursKept, files, games

\* Both programs and both files agree on who plays white in every reachable
\* state, whatever connections break, programs crash and STARTs are repeated.
THEOREM ColoursNeverSwap == Spec => []ColoursKept
BY ColourInvariance, ColourInvGivesColoursKept, PTL

-----------------------------------------------------------------------------
(* The server's file *)

\* g is what file f may have become: the same game, with no move taken back and
\* no end undone.
Grown(f, g) ==
  f # NoSnapshot => /\ g # NoSnapshot /\ g.white = f.white
                    /\ IsPrefix(f.hist, g.hist) /\ (f.over => g.over)

LEMMA GrownSame ==
  ASSUME ColourInv, snap'["SERVER"] = snap["SERVER"]
  PROVE  Grown(snap["SERVER"], snap'["SERVER"])
<1>1. snap["SERVER"] # NoSnapshot => snap["SERVER"].hist \in Seq(Moves)
  BY SnapshotFields DEF ColourInv, BaseInv, Peer
<1> QED
  BY <1>1, PrefixRefl DEF Grown

\* A move made or received while the game is on.
LEMMA GrownMove ==
  ASSUME ColourInv, NEW p \in Peer, NEW m \in Moves, session[p].started,
         hist' = [hist EXCEPT ![p] = Append(hist[p], m)],
         snap' = RecordMove(p, Append(hist[p], m)), UNCHANGED over
  PROVE  Grown(snap["SERVER"], snap'["SERVER"])
<1> DEFINE h == Append(hist[p], m)
<1>1. h \in Seq(Moves) /\ IsPrefix(hist[p], h)
  BY PrefixAppend DEF ColourInv, BaseInv, BoardTypes
<1> HIDE DEF h
<1>2. hist' = [hist EXCEPT ![p] = h] /\ snap' = RecordMove(p, h)
  BY DEF h
<1>3. CASE p = "SERVER"
  <2>1. /\ snap'["SERVER"] # NoSnapshot
        /\ snap'["SERVER"].white = White(p, session[p].color)
        /\ snap'["SERVER"].hist = h /\ snap'["SERVER"].over = over[p]
    BY <1>1, <1>2, <1>3, RecordedMove
  <2>2. /\ snap["SERVER"] # NoSnapshot /\ hist["SERVER"] = snap["SERVER"].hist
        /\ snap["SERVER"].over => over["SERVER"]
    BY <1>3 DEF ColourInv, Colours, ServerShows
  <2>3. snap["SERVER"].white = White(p, session[p].color)
    BY <1>3, <2>2 DEF ColourInv, Colours, Agreed
  <2> QED
    BY <1>1, <1>3, <2>1, <2>2, <2>3 DEF Grown
<1>4. CASE p = "CLIENT"
  <2>1. snap'["SERVER"] = snap["SERVER"]
    BY <1>1, <1>2, <1>4, RecordedMove
  <2> QED
    BY <2>1, GrownSame
<1> QED
  BY <1>3, <1>4 DEF Peer

\* The end of a game.
LEMMA GrownEnd ==
  ASSUME ColourInv, NEW p \in Peer, session[p].started,
         over' = [over EXCEPT ![p] = TRUE],
         snap' = [snap EXCEPT ![p] = Record(p, session[p].color, hist[p], TRUE)],
         UNCHANGED <<hist, session>>
  PROVE  Grown(snap["SERVER"], snap'["SERVER"])
<1>1. snap'[p] # NoSnapshot /\ snap'[p].white = White(p, session[p].color)
  BY RecordedEnd
<1>4. snap'[p].hist = hist[p] /\ snap'[p].over
  BY RecordedEnd
<1>5. \A q \in Peer : q # p => snap'[q] = snap[q]
  BY RecordedEnd
<1>2. CASE p = "SERVER"
  <2>1. snap["SERVER"] # NoSnapshot /\ hist["SERVER"] = snap["SERVER"].hist
    BY <1>2 DEF ColourInv, Colours, ServerShows
  <2>2. snap["SERVER"].white = White(p, session[p].color)
    BY <1>2, <2>1 DEF ColourInv, Colours, Agreed
  <2>3. IsPrefix(hist[p], hist[p])
    BY PrefixRefl DEF ColourInv, BaseInv, BoardTypes
  <2> QED
    BY <1>1, <1>4, <1>2, <2>1, <2>2, <2>3 DEF Grown
<1>3. CASE p # "SERVER"
  <2>1. snap'["SERVER"] = snap["SERVER"]
    BY <1>5, <1>3 DEF Peer
  <2> QED
    BY <2>1, GrownSame
<1> QED
  BY <1>2, <1>3

\* A game that starts again from its file, with the colours it had.
LEMMA GrownAck ==
  ASSUME ColourInv, NEW p \in Peer, HandleAck(p)
  PROVE  Grown(snap["SERVER"], snap'["SERVER"])
<1> DEFINE c == Opposite(pend[p].color)
           b == LoadMatch(p)
           f == Record(p, c, b.hist, b.over)
<1>1. CASE /\ session[p].role = "SERVER" /\ session[p].startSent
           /\ snap' = [snap EXCEPT ![p] = f]
  <2>1. p = "SERVER"
    BY <1>1 DEF ColourInv, BaseInv, Locals, LocalTo, Peer
  <2>2. /\ pend[p].set /\ pend[p].color \in Color
    BY <1>1, <2>1 DEF ColourInv, Colours, StartFlags
  <2>3. White("SERVER", c) = White("CLIENT", pend[p].color)
    BY <2>1, <2>2, WhiteOf DEF Peer, Other, Color, Opposite
  <2>4. f # NoSnapshot /\ f.white = White(p, c) /\ f.hist = b.hist /\ f.over = b.over
    <3>1. b.hist \in Seq(Moves) /\ b.over \in BOOLEAN
      BY SnapshotFields DEF ColourInv, BaseInv
    <3> HIDE DEF b, c
    <3> QED
      BY <3>1, RecordType
  <2>5. snap'["SERVER"] = f
    BY <1>1, <2>1 DEF ColourInv, BaseInv, BoardTypes, Peer
  <2>6. snap["SERVER"] # NoSnapshot => /\ snap["SERVER"].white = White(p, c)
                                       /\ snap["SERVER"].hist = b.hist
                                       /\ snap["SERVER"].over = b.over
                                       /\ IsPrefix(b.hist, b.hist)
    <3>1. snap["SERVER"] # NoSnapshot => snap["SERVER"].white = White("CLIENT", pend[p].color)
      BY <2>1, <2>2 DEF ColourInv, Colours, Agreed
    <3>2. snap["SERVER"] # NoSnapshot => /\ snap["SERVER"].hist = b.hist
                                         /\ snap["SERVER"].over = b.over
                                         /\ b.hist \in Seq(Moves)
      BY <2>1, SnapshotFields DEF ColourInv, BaseInv
    <3> QED
      BY <2>1, <2>3, <3>1, <3>2, PrefixRefl
  <2> HIDE DEF f, b, c
  <2> QED
    BY <2>4, <2>5, <2>6 DEF Grown
<1>2. CASE UNCHANGED snap
  BY <1>2, GrownSame
<1> QED
  BY <1>1, <1>2 DEF HandleAck, LoadedByAck

\* Every step lets the server's file grow or leaves it alone.
LEMMA NextGrown ==
  ASSUME ColourInv, [Next]_vars
  PROVE  Grown(snap["SERVER"], snap'["SERVER"])
<1>1. CASE UNCHANGED snap
  BY <1>1, GrownSame
<1>2. ASSUME NEW p \in Peer, HandleStateSnapshot(p)
      PROVE  snap'["SERVER"] = snap["SERVER"]
  <2>1. CASE UNCHANGED snap
    BY <2>1
  <2>2. CASE /\ session[p].role = "CLIENT"
             /\ snap' = [snap EXCEPT ![p] = Record(p, session[p].color,
                           Head(inbox[p]).hist, Head(inbox[p]).over)]
    <3>1. p = "CLIENT"
      BY <2>2 DEF ColourInv, BaseInv, Locals, LocalTo, Peer
    <3> QED
      BY <2>2, <3>1 DEF ColourInv, BaseInv, BoardTypes, Peer
  <2> QED
    BY <1>2, <2>1, <2>2 DEF HandleStateSnapshot
<1>3. ASSUME NEW p \in Peer, HandleMove(p)
      PROVE  Grown(snap["SERVER"], snap'["SERVER"])
  <2> DEFINE m == Head(inbox[p]).move
  <2>1. Receive(p, "MOVE") /\ UNCHANGED over
    BY <1>3 DEF HandleMove
  <2>2. m \in Moves
    BY <2>1, Received, Payloads DEF ColourInv, BaseInv
  <2> HIDE DEF m
  <2> QED
    BY <1>1, <1>3, <2>1, <2>2, GrownMove DEF HandleMove, m
<1>4. ASSUME NEW p \in Peer, HandleResign(p)
      PROVE  Grown(snap["SERVER"], snap'["SERVER"])
  BY <1>1, <1>4, GrownEnd DEF HandleResign
<1>5. ASSUME NEW p \in Peer, NEW m \in Moves, TrySendLocalMove(p, m)
      PROVE  Grown(snap["SERVER"], snap'["SERVER"])
  BY <1>5, GrownMove DEF TrySendLocalMove, InPlay
<1>6. ASSUME NEW p \in Peer, Resign(p)
      PROVE  Grown(snap["SERVER"], snap'["SERVER"])
  BY <1>1, <1>6, GrownEnd DEF Resign, InPlay
<1>7. CASE UNCHANGED vars
  BY <1>1, <1>7 DEF vars
<1>8. CASE Break
  BY <1>1, <1>8 DEF Break, disk
<1>9. ASSUME NEW p \in Peer, \/ Discover(p) \/ RetryStart(p) \/ Crash(p) \/ Restart(p)
                             \/ ReturnToLobby(p)
      PROVE  UNCHANGED snap
  BY <1>9 DEF Discover, RetryStart, Crash, Restart, ReturnToLobby, disk
<1>10. ASSUME NEW p \in Peer, NetTick(p), ~DispatchIncomingPacket(p)
       PROVE  UNCHANGED snap
  BY <1>10 DEF NetTick, Dial, FinalizeConnect, Accept, AdvanceHelloClient, AdvanceHelloServer,
     SendResumeRequest, ReceiveError, SendStart, SendStateSnapshot, disk
<1>11. ASSUME NEW p \in Peer, \/ HandleHello(p) \/ HandleStart(p) \/ HandleResumeRequest(p)
                              \/ HandleResumeResponse(p)
       PROVE  UNCHANGED snap
  BY <1>11 DEF HandleHello, HandleStart, HandleResumeRequest, HandleResumeResponse, disk
<1>12. ASSUME NEW p \in Peer, DispatchIncomingPacket(p)
       PROVE  Grown(snap["SERVER"], snap'["SERVER"])
  BY <1>1, <1>2, <1>3, <1>4, <1>11, <1>12, GrownAck, GrownSame DEF DispatchIncomingPacket
<1>13. ASSUME NEW p \in Peer, PlayerInput(p)
       PROVE  Grown(snap["SERVER"], snap'["SERVER"])
  BY <1>1, <1>5, <1>6, <1>9, <1>13 DEF PlayerInput
<1> QED
  BY <1>1, <1>7, <1>8, <1>9, <1>10, <1>12, <1>13 DEF Next

\* The server's file is never cut short, recoloured or reopened: a resumption,
\* a repeated START, a crash between two writes only ever continue the game.
THEOREM RecordOnlyGrows == Spec => RecordGrows
<1>1. ColourInv /\ [Next]_vars =>
        [snap["SERVER"] # NoSnapshot =>
           /\ snap'["SERVER"] # NoSnapshot
           /\ snap'["SERVER"].white = snap["SERVER"].white
           /\ IsPrefix(snap["SERVER"].hist, snap'["SERVER"].hist)
           /\ snap["SERVER"].over => snap'["SERVER"].over]_vars
  BY NextGrown DEF Grown
<1> QED
  BY <1>1, ColourInvariance, PTL DEF Spec, RecordGrows
====
