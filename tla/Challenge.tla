---- MODULE Challenge ----
(***************************************************************************)
(* From the lobby to a game: programs that discover each other, players    *)
(* who challenge, cancel and accept, one TCP connection per challenge      *)
(* (handler_challenges.c, lobby_state.c), the connection a program accepts *)
(* (handler_connection.c, packet_handshake.c) and the START/ACK exchange.  *)
(*                                                                         *)
(* A program has one transport, its game connection, and in each lobby     *)
(* slot the connection of a challenge of its own.  A connection has two    *)
(* ends; an end reads what was written to it, then an error once the other *)
(* end is closed.  Steps are parts of chess_net_tick: what arrives may     *)
(* take any time on the way, so every order of the parts is one a tick     *)
(* could have met.  No token of an earlier game is pending (see Session).  *)
(***************************************************************************)
EXTENDS Naturals, FiniteSets, Sequences

CONSTANTS Program,
          None,          \* no program
          MayChallenge,  \* the pairs <<p, q>> whose player p may challenge q
          KnownAtFirst,  \* the pairs <<p, q>> with q in p's lobby at the start
          MayRefuse,     \* the pairs <<p, q>> where a connect of p to q may fail
          MaxSlots,      \* CHESS_MAX_DISCOVERED_PEERS
          MayFind,       \* the pairs <<p, q>> such that p may find q later on
          MaxConns,      \* bound on the connections that succeed
          MaxUnreadStarts, \* bound on the STARTs of a connection not read yet
          QuietRemovals, \* bound: peers leave only when no challenge is pending
          PatientPlayers \* bound: no challenge is accepted while a game is starting

ASSUME ProgramsAssumption ==
  /\ None \notin Program
  /\ MayChallenge \cup KnownAtFirst \cup MayFind \cup MayRefuse \subseteq Program \X Program
  /\ MaxSlots \in Nat /\ MaxConns \in Nat /\ MaxUnreadStarts \in Nat
  /\ {QuietRemovals, PatientPlayers} \subseteq BOOLEAN

\* A program neither lists nor challenges itself (its own profile is left out of
\* what it finds), and what it knows at first fits its lobby.
ASSUME LobbyAssumption ==
  /\ IsFiniteSet(Program)
  /\ \A p \in Program :
       /\ <<p, p>> \notin MayChallenge \cup KnownAtFirst \cup MayFind
       /\ Cardinality({q \in Program : <<p, q>> \in KnownAtFirst}) <= MaxSlots

VARIABLES
  slots,      \* discovered_peers: every slot, the unused ones too
  count,      \* discovered_peer_count
  session,    \* network_session
  transport,  \* the game connection: its number, or 0
  conns,      \* the connections, by number
  backlog,    \* listen queue of each program
  asked,      \* history: whom each player challenged or accepted, and stands by
  strayed     \* history: what has gone astray in some program so far

vars == <<slots, count, session, transport, conns, backlog, asked, strayed>>
lobby == <<slots, count>>
net == <<conns, backlog>>

-----------------------------------------------------------------------------
(* Data *)

ConnId == 1 .. MaxConns

ChallengeState == {"NONE", "OUTGOING_PENDING", "INCOMING_PENDING", "MATCHED",
                   "CONNECT_FAILED"}

\* hello: hello_sent and hello_completed; hello_received comes with the latter.
Slot == [peer : Program \cup {None}, state : ChallengeState, offerSent : BOOLEAN,
         fd : 0 .. MaxConns, connecting : BOOLEAN,
         hello : {"no", "sent", "completed"}, failures : 0 .. 3]

EmptySlot == [peer |-> None, state |-> "NONE", offerSent |-> FALSE, fd |-> 0,
              connecting |-> FALSE, hello |-> "no", failures |-> 0]

Phase == {"IDLE", "TCP_CONNECTING", "AUTHENTICATED", "GAME_STARTING", "IN_GAME",
          "DISCONNECTED"}

\* remote is None when peer_available is false; offer is the profile of a
\* buffered OFFER (pending_incoming_offer).
SessionType ==
  [phase : Phase, role : {"UNKNOWN", "SERVER", "CLIENT"}, remote : Program \cup {None},
   helloSent : BOOLEAN, helloReceived : BOOLEAN, hello : BOOLEAN,
   challengeDone : BOOLEAN, startSent : BOOLEAN, startDone : BOOLEAN,
   offer : Program \cup {None}]

NewSession ==
  [phase |-> "IDLE", role |-> "UNKNOWN", remote |-> None, helloSent |-> FALSE,
   helloReceived |-> FALSE, hello |-> FALSE, challengeDone |-> FALSE,
   startSent |-> FALSE, startDone |-> FALSE, offer |-> None]

Message == [type : {"HELLO", "OFFER", "ACCEPT"}, from : Program]
             \cup [type : {"START", "ACK"}]

\* An end is "free" before it is used, "open" and then "closed"; the acceptor's
\* is "queued" until it is accepted.
Connection ==
  [ends : [{"dialer", "acceptor"} -> Program \cup {None}],
   state : [{"dialer", "acceptor"} -> {"free", "queued", "open", "closed"}],
   toRead : [{"dialer", "acceptor"} -> Seq(Message)]]

Unused(state) ==
  [ends |-> [e \in {"dialer", "acceptor"} |-> None],
   state |-> [e \in {"dialer", "acceptor"} |-> state],
   toRead |-> [e \in {"dialer", "acceptor"} |-> <<>>]]

NoConnection == Unused("free")

\* FREED_PENDING: the slot that a removal leaves unused still holds a challenge.
\* MOVED_PENDING: a peer with a challenge, or one above such a peer, is removed.
\* SECOND_ACCEPT: a player accepts a challenge while a game is starting.
\* STALE_OFFER: a kept OFFER is applied to which its sender awaits no answer.
Straying == {"FREED_PENDING", "MOVED_PENDING", "SECOND_ACCEPT", "STALE_OFFER"}

\* What has gone astray once `kind` has, provided it does happen.
Strays(kind, happens) == IF happens THEN strayed \cup {kind} ELSE strayed

Opposite(e) == IF e = "dialer" THEN "acceptor" ELSE "dialer"

\* p's end of connection c.  Nobody connects to itself.
End(c, p) == IF conns[c].ends["dialer"] = p THEN "dialer" ELSE "acceptor"
Partner(c, p) == conns[c].ends[Opposite(End(c, p))]

Known(p) == {slots[p][i].peer : i \in 1 .. count[p]}
SlotOf(p, q) == CHOOSE i \in 1 .. count[p] : slots[p][i].peer = q

\* Mutant: selecting the remote again starts its handshake again.
SetRemoteAfresh(s, q) ==
  [s EXCEPT !.remote = q, !.hello = FALSE, !.challengeDone = FALSE,
            !.phase = "TCP_CONNECTING"]

\* chess_network_session_set_remote
SetRemote(s, q) ==
  IF s.remote = q THEN s
  ELSE [s EXCEPT !.remote = q, !.hello = FALSE, !.challengeDone = FALSE,
                 !.phase = "TCP_CONNECTING"]

-----------------------------------------------------------------------------
(* Connections *)

Hung(c, e) == conns[c].state[Opposite(e)] = "closed"

Written(cs, c, e, msg) ==
  IF cs[c].state[Opposite(e)] = "closed" THEN cs
  ELSE [cs EXCEPT ![c].toRead[Opposite(e)] = Append(@, msg)]

Read(cs, c, e) == [cs EXCEPT ![c].toRead[e] = Tail(@)]

\* Only a connection that never succeeded leaves its number to the next.
Closed(cs, c, e) ==
  IF c = 0 THEN cs
  ELSE IF cs[c].state[Opposite(e)] \in {"free", "closed"}
  THEN [cs EXCEPT ![c] = Unused(cs[c].state[Opposite(e)])]
  ELSE [cs EXCEPT ![c].state[e] = "closed", ![c].toRead[e] = <<>>]

\* close() of a set of challenge connections, all dialed by their program.
AllClosed(cs, fds) ==
  [c \in ConnId |-> IF c \in fds THEN Closed(cs, c, "dialer")[c] ELSE cs[c]]

Fds(p) == {slots[p][i].fd : i \in 1 .. count[p]} \ {0}

-----------------------------------------------------------------------------
(* Lobby slots *)

\* chess_lobby_set_challenge_state
WithState(slot, state) ==
  [slot EXCEPT !.state = state, !.offerSent = IF state = "NONE" THEN FALSE ELSE @]

\* chess_lobby_close_challenge_connection, on the slot
Disconnected(slot) ==
  [slot EXCEPT !.fd = 0, !.connecting = FALSE, !.hello = "no", !.failures = 0]

\* Mutant: the lobby keeps its challenges when the connection breaks.
ClearedNot(p) ==
  [i \in 1 .. MaxSlots |->
     IF i <= count[p] THEN Disconnected(slots[p][i]) ELSE slots[p][i]]

\* app_clear_challenges
Cleared(p) ==
  [i \in 1 .. MaxSlots |->
     IF i <= count[p] THEN WithState(Disconnected(slots[p][i]), "NONE") ELSE slots[p][i]]

\* chess_lobby_close_all_challenge_connections: the states are left alone.
AllDisconnected(p) ==
  [i \in 1 .. MaxSlots |->
     IF i <= count[p] THEN Disconnected(slots[p][i]) ELSE slots[p][i]]

\* Other challenges end when one is answered.
OthersWithdrawn(ss, n, i) ==
  [j \in 1 .. MaxSlots |->
     IF j <= n /\ j # i /\ ss[j].state = "OUTGOING_PENDING"
     THEN WithState(ss[j], "NONE") ELSE ss[j]]

Init ==
  /\ count = [p \in Program |-> Cardinality({q \in Program : <<p, q>> \in KnownAtFirst})]
  /\ slots \in [Program -> [1 .. MaxSlots -> {[EmptySlot EXCEPT !.peer = q] :
                                                q \in Program \cup {None}}]]
  /\ \A p \in Program :
       /\ Known(p) = {q \in Program : <<p, q>> \in KnownAtFirst}
       /\ \A i \in 1 .. MaxSlots : i > count[p] => slots[p][i] = EmptySlot
  /\ session = [p \in Program |-> NewSession]
  /\ transport = [p \in Program |-> 0]
  /\ conns = [c \in ConnId |-> NoConnection]
  /\ backlog = [p \in Program |-> <<>>]
  /\ asked = [p \in Program |-> {}]
  /\ strayed = {}

-----------------------------------------------------------------------------
(* Discovery, as the lobby sees it.  Programs in a game neither look nor     *)
(* advertise (chess_discovery_stop in HandleStart and HandleAck).            *)

InGame(p) == session[p].phase \in {"IN_GAME", "DISCONNECTED"}

\* chess_lobby_add_or_update_peer: a new peer gets the first unused slot; of
\* what the slot held before only the descriptor is reset.
AddedTo(slot, q) == [slot EXCEPT !.peer = q, !.fd = 0]

\* q has sent an OFFER on p's game connection and awaits the answer.
AwaitsAnswer(q, p) ==
  /\ transport[p] # 0
  /\ \E i \in 1 .. count[q] : slots[q][i].fd = transport[p] /\ slots[q][i].offerSent

\* A buffered OFFER is applied when its sender is found, or dropped if the lobby is
\* full and does not take the sender.
DiscoverPeer(p, q) ==
  LET n        == count[p] + 1
      room     == count[p] < MaxSlots
      added    == [slots[p] EXCEPT ![n] = AddedTo(@, q)]
      buffered == session[p].offer = q
  IN  /\ <<p, q>> \in MayFind /\ ~InGame(p) /\ ~InGame(q)
      /\ q \notin Known(p) /\ (room \/ buffered)
      /\ count' = IF room THEN [count EXCEPT ![p] = n] ELSE count
      /\ slots' = IF ~room THEN slots
                  ELSE IF buffered
                  THEN [slots EXCEPT ![p] = [added EXCEPT ![n] = WithState(@, "INCOMING_PENDING")]]
                  ELSE [slots EXCEPT ![p] = added]
      /\ session' = IF ~buffered THEN session
                    ELSE IF room
                    THEN [session EXCEPT ![p] = [SetRemote(@, q) EXCEPT !.offer = None]]
                    ELSE [session EXCEPT ![p].offer = None]
      /\ strayed' = Strays("STALE_OFFER", room /\ buffered /\ ~AwaitsAnswer(q, p))
      /\ UNCHANGED <<transport, net, asked>>

\* chess_lobby_remove_peer_by_profile_id: later slots move down, and the last
\* one keeps what it held but for the descriptor; the challenge's connection is
\* closed, and its state left alone.
RemovePeer(p, q) ==
  /\ ~InGame(p) /\ q \in Known(p)
  /\ LET i       == SlotOf(p, q)
         pending == {j \in i .. count[p] : slots[p][j].state # "NONE"}
     IN  /\ QuietRemovals => pending = {} /\ InGame(q)
         /\ strayed' = strayed
              \cup (IF pending # {} THEN {"MOVED_PENDING"} ELSE {})
              \cup (IF count[p] \in pending THEN {"FREED_PENDING"} ELSE {})
         /\ conns' = AllClosed(conns, {slots[p][i].fd} \ {0})
         /\ slots' = [slots EXCEPT ![p] = [j \in 1 .. MaxSlots |->
              IF j \in i .. count[p] - 1 THEN slots[p][j + 1]
              ELSE IF j = i THEN Disconnected(slots[p][j])
              ELSE IF j = count[p] THEN [slots[p][j] EXCEPT !.fd = 0]
              ELSE slots[p][j]]]
  /\ count' = [count EXCEPT ![p] = @ - 1]
  /\ UNCHANGED <<session, transport, backlog, asked>>

-----------------------------------------------------------------------------
(* Clicks in the lobby (handle_lobby_click), possible until a game has begun *)

Listed(p) == 1 .. count[p]

ClickChallenge(p, i) ==
  /\ ~InGame(p) /\ i \in Listed(p) /\ slots[p][i].state = "NONE"
  /\ <<p, slots[p][i].peer>> \in MayChallenge
  /\ slots' = [slots EXCEPT ![p][i] = WithState(@, "OUTGOING_PENDING")]
  /\ asked' = [asked EXCEPT ![p] = @ \cup {slots[p][i].peer}]
  /\ UNCHANGED <<count, session, transport, net, strayed>>

\* The challenge is withdrawn: its connection is closed.
Withdraw(p, i, state) ==
  /\ slots' = [slots EXCEPT ![p][i] = WithState(Disconnected(@), state)]
  /\ conns' = Closed(conns, slots[p][i].fd, "dialer")
  /\ UNCHANGED <<count, session, transport, backlog>>

ClickCancel(p, i) ==
  /\ ~InGame(p) /\ i \in Listed(p) /\ slots[p][i].state = "OUTGOING_PENDING"
  /\ Withdraw(p, i, "NONE")
  /\ asked' = [asked EXCEPT ![p] = @ \ {slots[p][i].peer}]
  /\ UNCHANGED strayed

ClickRetry(p, i) ==
  /\ ~InGame(p) /\ i \in Listed(p) /\ slots[p][i].state = "CONNECT_FAILED"
  /\ Withdraw(p, i, "OUTGOING_PENDING")
  /\ UNCHANGED <<asked, strayed>>

\* A session that has accepted q's challenge, as its server.
Accepting(s, q) ==
  [SetRemote([s EXCEPT !.challengeDone = TRUE, !.role = "SERVER"], q)
     EXCEPT !.phase = "GAME_STARTING"]

\* Without a transport the ACCEPT cannot be written and nothing happens.  The
\* states of other challenges are left as they are.
ClickAccept(p, i) ==
  LET q == slots[p][i].peer
  IN  /\ ~InGame(p) /\ i \in Listed(p) /\ slots[p][i].state = "INCOMING_PENDING"
      /\ PatientPlayers => session[p].phase # "GAME_STARTING"
      /\ transport[p] # 0
      /\ conns' = AllClosed(Written(conns, transport[p], End(transport[p], p),
                                    [type |-> "ACCEPT", from |-> p]), Fds(p))
      /\ slots' = [slots EXCEPT ![p] = [AllDisconnected(p) EXCEPT ![i].state = "MATCHED"]]
      /\ session' = [session EXCEPT ![p] = Accepting(@, q)]
      /\ asked' = [asked EXCEPT ![p] = @ \cup {q}]
      /\ strayed' = Strays("SECOND_ACCEPT", session[p].phase = "GAME_STARTING")
      /\ UNCHANGED <<count, transport, backlog>>

-----------------------------------------------------------------------------
(* chess_net_advance_outgoing_challenges, one stage of one challenge         *)

\* The loop is not entered once a challenge is won or a game is starting.
Advancing(p, i) ==
  /\ ~session[p].challengeDone
  /\ session[p].phase \notin {"GAME_STARTING", "IN_GAME", "DISCONNECTED"}
  /\ i \in Listed(p) /\ slots[p][i].state = "OUTGOING_PENDING"

Connected(p, i) == slots[p][i].fd # 0 /\ ~slots[p][i].connecting

Connect(p, i) ==
  /\ Advancing(p, i) /\ slots[p][i].fd = 0
  /\ \E c \in ConnId :
       /\ conns[c] = NoConnection /\ \A d \in 1 .. c - 1 : conns[d] # NoConnection
       /\ conns' = [conns EXCEPT
            ![c].ends = [e \in {"dialer", "acceptor"} |->
                           IF e = "dialer" THEN p ELSE slots[p][i].peer],
            ![c].state["dialer"] = "open"]
       /\ slots' = [slots EXCEPT ![p][i].fd = c, ![p][i].connecting = TRUE]
  /\ UNCHANGED <<count, session, transport, backlog, asked, strayed>>

\* The other program's listen queue takes the connection here: it cannot tell
\* the difference.
FinishConnect(p, i) ==
  LET c == slots[p][i].fd
      q == slots[p][i].peer
  IN  /\ Advancing(p, i) /\ c # 0 /\ slots[p][i].connecting
      /\ slots' = [slots EXCEPT ![p][i].connecting = FALSE, ![p][i].failures = 0]
      /\ conns' = [conns EXCEPT ![c].state["acceptor"] = "queued"]
      /\ backlog' = [backlog EXCEPT ![q] = Append(@, c)]
      /\ UNCHANGED <<count, session, transport, asked, strayed>>

\* Mutant: the challenge fails one connect too late.
FailedLate(slot) ==
  [slot EXCEPT !.fd = 0, !.connecting = FALSE,
               !.failures = @ + 1,
               !.state = IF slot.failures + 1 > 3 THEN "CONNECT_FAILED" ELSE @]

\* A refused connect; the third in a row ends the challenge.
Failed(slot) ==
  [slot EXCEPT !.fd = 0, !.connecting = FALSE,
               !.failures = @ + 1,
               !.state = IF slot.failures + 1 >= 3 THEN "CONNECT_FAILED" ELSE @]

ConnectRefused(p, i) ==
  /\ Advancing(p, i) /\ slots[p][i].fd # 0 /\ slots[p][i].connecting
  /\ <<p, slots[p][i].peer>> \in MayRefuse
  /\ slots' = [slots EXCEPT ![p][i] = Failed(@)]
  /\ conns' = Closed(conns, slots[p][i].fd, "dialer")
  /\ UNCHANGED <<count, session, transport, backlog, asked, strayed>>

\* A connection that is hung up, at any stage, ends the challenge: the write or
\* the read that finds out fails.
ChallengeLost(p, i) ==
  /\ Advancing(p, i) /\ Connected(p, i) /\ Hung(slots[p][i].fd, "dialer")
  /\ Withdraw(p, i, "NONE")
  /\ UNCHANGED <<asked, strayed>>

SayHello(p, i) ==
  /\ Advancing(p, i) /\ Connected(p, i) /\ slots[p][i].hello = "no"
  /\ slots' = [slots EXCEPT ![p][i].hello = "sent"]
  /\ conns' = Written(conns, slots[p][i].fd, "dialer", [type |-> "HELLO", from |-> p])
  /\ UNCHANGED <<count, session, transport, backlog, asked, strayed>>

\* Any packet but HELLO ends the challenge.
HearHello(p, i) ==
  LET c == slots[p][i].fd
  IN  /\ Advancing(p, i) /\ Connected(p, i) /\ slots[p][i].hello = "sent"
      /\ conns[c].toRead["dialer"] # <<>>
      /\ IF Head(conns[c].toRead["dialer"]).type = "HELLO"
         THEN /\ slots' = [slots EXCEPT ![p][i].hello = "completed"]
              /\ conns' = Read(conns, c, "dialer")
              /\ UNCHANGED <<count, session, transport, backlog>>
         ELSE Withdraw(p, i, "NONE")
      /\ UNCHANGED <<asked, strayed>>

SendOffer(p, i) ==
  /\ Advancing(p, i) /\ Connected(p, i) /\ slots[p][i].hello = "completed"
  /\ ~slots[p][i].offerSent
  /\ slots' = [slots EXCEPT ![p][i].offerSent = TRUE]
  /\ conns' = Written(conns, slots[p][i].fd, "dialer", [type |-> "OFFER", from |-> p])
  /\ UNCHANGED <<count, session, transport, backlog, asked, strayed>>

\* Mutant: promotion leaves the role it finds.
PromotedInRole(s, q) ==
  [SetRemote([s EXCEPT !.challengeDone = TRUE, !.helloSent = TRUE,
                       !.helloReceived = TRUE, !.hello = TRUE], q)
     EXCEPT !.phase = "GAME_STARTING"]

\* A new remote clears hello and challengeDone again (SetRemote).
Promoted(s, q) ==
  [SetRemote([s EXCEPT !.challengeDone = TRUE, !.role = "CLIENT", !.helloSent = TRUE,
                       !.helloReceived = TRUE, !.hello = TRUE], q)
     EXCEPT !.phase = "GAME_STARTING"]

\* Mutant: only the promoted challenge is looked after.
OthersClosedNot(p, i) == [slots[p] EXCEPT ![i].fd = 0, ![i].state = "MATCHED"]

\* The slots once challenge i has become the game: the others are closed.
OthersClosed(p, i) ==
  [OthersWithdrawn([AllDisconnected(p) EXCEPT
                      ![i] = [slots[p][i] EXCEPT !.fd = 0]], count[p], i)
     EXCEPT ![i].state = "MATCHED"]

\* net_promote_challenge_to_game: the challenge's descriptor becomes the
\* transport, whatever the transport was is closed.  The code also answers an
\* OFFER that it reads here with an ACCEPT, and ignores any other packet; both
\* are left out because they are not reached: the program that was dialed sends
\* no OFFER on that connection, and its ACCEPT comes before its START (ByAcceptor
\* in the invariant of ChallengeGameProofs).
HearAccept(p, i) ==
  LET c   == slots[p][i].fd
      t   == transport[p]
      cs  == IF t = 0 THEN Read(conns, c, "dialer")
             ELSE Closed(Read(conns, c, "dialer"), t, End(t, p))
  IN  /\ Advancing(p, i) /\ Connected(p, i) /\ slots[p][i].offerSent
      /\ slots[p][i].hello = "completed"
      /\ conns[c].toRead["dialer"] # <<>>
      /\ Head(conns[c].toRead["dialer"]).type = "ACCEPT"
      /\ conns' = AllClosed(cs, Fds(p) \ {c})
      /\ slots' = [slots EXCEPT ![p] = OthersClosed(p, i)]
      /\ session' = [session EXCEPT ![p] = Promoted(@, slots[p][i].peer)]
      /\ transport' = [transport EXCEPT ![p] = c]
      /\ UNCHANGED <<count, backlog, asked, strayed>>

-----------------------------------------------------------------------------
(* The game connection (handler_connection.c, packet_handlers.c)             *)

\* chess_net_reset_transport_progress and what both ways of hanging up share.
HungUp(s) ==
  [s EXCEPT !.helloSent = FALSE, !.helloReceived = FALSE, !.hello = FALSE,
            !.challengeDone = FALSE, !.startSent = FALSE, !.remote = None]

Accept(p) ==
  /\ transport[p] = 0 /\ ~session[p].hello /\ session[p].phase # "DISCONNECTED"
  /\ backlog[p] # <<>>
  /\ transport' = [transport EXCEPT ![p] = Head(backlog[p])]
  /\ conns' = [conns EXCEPT ![Head(backlog[p])].state["acceptor"] = "open"]
  /\ backlog' = [backlog EXCEPT ![p] = Tail(@)]
  /\ UNCHANGED <<lobby, session, asked, strayed>>

\* chess_net_advance_hello_handshake, for a program that did not dial.
AdvanceHello(p) ==
  LET s == session[p]
      t == transport[p]
  IN  /\ t # 0 /\ ~s.hello /\ s.role # "CLIENT"
      /\ s.role = "UNKNOWN" \/ s.helloReceived
      /\ session' = [session EXCEPT ![p] =
           IF s.helloReceived
           THEN [s EXCEPT !.role = "SERVER", !.helloSent = TRUE, !.hello = TRUE,
                          !.phase = "AUTHENTICATED"]
           ELSE [s EXCEPT !.role = "SERVER"]]
      /\ conns' = IF s.helloReceived /\ ~s.helloSent
                  THEN Written(conns, t, End(t, p), [type |-> "HELLO", from |-> p])
                  ELSE conns
      /\ UNCHANGED <<lobby, transport, backlog, asked, strayed>>

\* The next packet of the game connection, of one of the given types.
Incoming(p, types) ==
  /\ transport[p] # 0
  /\ conns[transport[p]].toRead[End(transport[p], p)] # <<>>
  /\ Head(conns[transport[p]].toRead[End(transport[p], p)]).type \in types

Packet(p) == Head(conns[transport[p]].toRead[End(transport[p], p)])
Consumed(p) == Read(conns, transport[p], End(transport[p], p))
Answered(p, type) ==
  Written(Consumed(p), transport[p], End(transport[p], p),
          IF type = "ACK" THEN [type |-> "ACK"] ELSE [type |-> type, from |-> p])

\* chess_pkt_handle_hello, chess_pkt_handle_accept and chess_pkt_handle_ack:
\* the session they leave.
AfterPacket(s, msg) ==
  CASE msg.type = "HELLO" ->
         [s EXCEPT !.helloReceived = TRUE,
                   !.remote = IF @ = None THEN msg.from ELSE @]
    [] msg.type = "ACCEPT" ->
         IF s.challengeDone THEN s
         ELSE [s EXCEPT !.challengeDone = TRUE, !.phase = "GAME_STARTING"]
    [] msg.type = "ACK" ->
         IF s.role = "SERVER" /\ s.startSent /\ ~s.startDone
         THEN [s EXCEPT !.startDone = TRUE, !.phase = "IN_GAME"] ELSE s

\* The slots an ACCEPT from q may mark: q's, or if q is not listed the one of
\* selected_peer_idx, any or none here.
MayMatch(p, q) == IF q \in Known(p) THEN {SlotOf(p, q)} ELSE {0} \cup 1 .. count[p]

\* An ACCEPT that counts marks a slot too.
HandlePacket(p) ==
  /\ Incoming(p, {"HELLO", "ACCEPT", "ACK"})
  /\ session' = [session EXCEPT ![p] = AfterPacket(@, Packet(p))]
  /\ IF Packet(p).type = "ACCEPT" /\ ~session[p].challengeDone
     THEN \E i \in MayMatch(p, Packet(p).from) :
            slots' = IF i = 0 THEN slots
                     ELSE [slots EXCEPT ![p][i].state = "MATCHED"]
     ELSE slots' = slots
  /\ conns' = Consumed(p)
  /\ UNCHANGED <<count, transport, backlog, asked, strayed>>

\* Mutant: every OFFER is taken for an answer to a challenge of one's own.
CrossingAlways(p, q) == q \in Known(p)

\* An OFFER from a program p has challenged itself: a crossed offer.
Crossing(p, q) ==
  q \in Known(p) /\ slots[p][SlotOf(p, q)].state = "OUTGOING_PENDING"

\* chess_pkt_handle_offer: the OFFER is answered at once if it crosses one of
\* p's own, shown in its sender's slot, or buffered until the sender is found.
\* An answer to a program that has hung up may fail: the OFFER is shown then.
HandleOffer(p) ==
  LET t == transport[p]
      q == Packet(p).from
      i == SlotOf(p, q)
      answerable == q \in Known(p) /\ ~session[p].challengeDone
  IN  /\ Incoming(p, {"OFFER"})
      /\ \/ /\ session[p].challengeDone
            /\ conns' = Consumed(p) /\ UNCHANGED <<slots, session>>
         \/ /\ answerable /\ Crossing(p, q)
            /\ conns' = AllClosed(Answered(p, "ACCEPT"), Fds(p))
            /\ slots' = [slots EXCEPT ![p] =
                 [OthersWithdrawn(AllDisconnected(p), count[p], i)
                    EXCEPT ![i].state = "MATCHED"]]
            /\ session' = [session EXCEPT ![p] = Accepting([@ EXCEPT !.hello = TRUE], q)]
         \/ /\ answerable /\ (~Crossing(p, q) \/ Hung(t, End(t, p)))
            /\ conns' = Consumed(p)
            /\ slots' = [slots EXCEPT ![p][i] = WithState(@, "INCOMING_PENDING")]
            /\ session' = [session EXCEPT ![p] = SetRemote(@, q)]
         \/ /\ ~session[p].challengeDone /\ q \notin Known(p)
            /\ conns' = Consumed(p)
            /\ session' = [session EXCEPT ![p].offer = q]
            /\ UNCHANGED slots
      /\ UNCHANGED <<count, transport, backlog, asked, strayed>>

SendStart(p) ==
  LET s == session[p]
      t == transport[p]
  IN  /\ t # 0 /\ s.role = "SERVER" /\ s.hello /\ s.challengeDone
      /\ ~s.startSent /\ ~s.startDone
      /\ conns' = Written(conns, t, End(t, p), [type |-> "START"])
      /\ session' = [session EXCEPT ![p].startSent = TRUE]
      /\ UNCHANGED <<lobby, transport, backlog, asked, strayed>>

UnreadStarts(c) ==
  Cardinality({k \in DOMAIN conns[c].toRead["dialer"] :
                 conns[c].toRead["dialer"][k].type = "START"})

\* The ACK has not come for three seconds: START is due again.  An ACK that is
\* read before START is sent again is passed over.
RetryStart(p) ==
  /\ session[p].startSent /\ ~session[p].startDone
  /\ transport[p] # 0 => UnreadStarts(transport[p]) < MaxUnreadStarts
  /\ session' = [session EXCEPT ![p].startSent = FALSE]
  /\ UNCHANGED <<lobby, transport, net, asked, strayed>>

HandleStart(p) ==
  LET s == session[p]
  IN  /\ Incoming(p, {"START"})
      /\ IF s.role = "CLIENT" /\ ~s.startDone
         THEN /\ conns' = Answered(p, "ACK")
              /\ session' = [session EXCEPT ![p].startDone = TRUE, ![p].phase = "IN_GAME"]
         ELSE conns' = Consumed(p) /\ UNCHANGED session
      /\ UNCHANGED <<lobby, transport, backlog, asked, strayed>>

\* app_handle_peer_disconnect.  A game that breaks off is taken for a finished
\* one here (Session has the other case): its result stays on the screen.
ReceiveError(p) ==
  LET t == transport[p]
  IN  /\ t # 0 /\ Hung(t, End(t, p))
      /\ transport' = [transport EXCEPT ![p] = 0]
      /\ IF session[p].startDone
         THEN /\ session' = [session EXCEPT ![p] = [HungUp(@) EXCEPT !.phase = "DISCONNECTED"]]
              /\ conns' = Closed(conns, t, End(t, p))
              /\ UNCHANGED <<slots, asked, strayed>>
         ELSE /\ session' = [session EXCEPT ![p] =
                   [HungUp(@) EXCEPT !.role = "UNKNOWN", !.phase = "IDLE"]]
              /\ conns' = AllClosed(Closed(conns, t, End(t, p)), Fds(p))
              /\ slots' = [slots EXCEPT ![p] = Cleared(p)]
              /\ asked' = [asked EXCEPT ![p] = {}]
  /\ UNCHANGED <<count, backlog, strayed>>

\* app_return_to_lobby
ReturnToLobby(p) ==
  LET t == transport[p]
  IN  /\ InGame(p)
      /\ conns' = AllClosed(IF t = 0 THEN conns ELSE Closed(conns, t, End(t, p)), Fds(p))
      /\ transport' = [transport EXCEPT ![p] = 0]
      /\ session' = [session EXCEPT ![p] = NewSession]
      /\ slots' = [slots EXCEPT ![p] = [i \in 1 .. MaxSlots |-> EmptySlot]]
      /\ count' = [count EXCEPT ![p] = 0]
      /\ asked' = [asked EXCEPT ![p] = {}]
      /\ UNCHANGED <<backlog, strayed>>

-----------------------------------------------------------------------------

\* The parts of chess_net_tick: one challenge, and the game connection.
Stage(p, i) ==
  \/ Connect(p, i)    \/ FinishConnect(p, i) \/ ConnectRefused(p, i)
  \/ SayHello(p, i)   \/ HearHello(p, i)     \/ SendOffer(p, i)
  \/ HearAccept(p, i) \/ ChallengeLost(p, i)

GamePart(p) ==
  \/ Accept(p)       \/ AdvanceHello(p) \/ HandlePacket(p) \/ HandleOffer(p)
  \/ HandleStart(p)  \/ SendStart(p)    \/ RetryStart(p)   \/ ReceiveError(p)

Click(p) ==
  \/ \E i \in 1 .. MaxSlots : \/ ClickChallenge(p, i) \/ ClickCancel(p, i)
                              \/ ClickRetry(p, i)     \/ ClickAccept(p, i)
  \/ ReturnToLobby(p)

Discovery(p) == \E q \in Program : DiscoverPeer(p, q) \/ RemovePeer(p, q)

Next == \E p \in Program : \/ GamePart(p) \/ Click(p) \/ Discovery(p)
                           \/ \E i \in 1 .. MaxSlots : Stage(p, i)

Spec == Init /\ [][Next]_vars

-----------------------------------------------------------------------------
(* Properties *)

TypeOK ==
  /\ slots \in [Program -> [1 .. MaxSlots -> Slot]]
  /\ count \in [Program -> 0 .. MaxSlots]
  /\ session \in [Program -> SessionType]
  /\ transport \in [Program -> 0 .. MaxConns]
  /\ DOMAIN conns = ConnId /\ \A c \in ConnId : conns[c] \in Connection
  /\ \A p \in Program : Cardinality(Known(p)) = count[p]
  /\ backlog \in [Program -> Seq(ConnId)]
  /\ asked \in [Program -> SUBSET Program]
  /\ strayed \subseteq Straying

\* A connection both of its ends have made their game connection.
GameBetween(c, p, q) ==
  /\ transport[p] = c /\ transport[q] = c
  /\ conns[c].ends["dialer"] = p /\ conns[c].ends["acceptor"] = q

\* Two programs whose challenge is settled on one connection agree which of
\* them is the server: START and the clock depend on there being one.
OneServer ==
  \A p, q \in Program, c \in ConnId :
    GameBetween(c, p, q) =>
      /\ session[p].phase \in {"GAME_STARTING", "IN_GAME"} => session[p].role = "CLIENT"
      /\ session[q].role # "CLIENT"

\* Two programs that play each other do so because both players asked for it,
\* each by a challenge or by accepting one, and each shows the right opponent.
ConsentedGame ==
  \A p, q \in Program, c \in ConnId :
    GameBetween(c, p, q) /\ "IN_GAME" \in {session[p].phase, session[q].phase} =>
      /\ session[p].remote = q /\ session[q].remote = p
      /\ q \in asked[p] /\ p \in asked[q]

\* A program that goes into a game leaves no challenge connection open behind
\* it: nobody would read it any more.
NoChallengeLeftOpen ==
  \A p \in Program :
    session[p].phase \in {"GAME_STARTING", "IN_GAME", "DISCONNECTED"} => Fds(p) = {}

\* A challenge is on its way, or shown as pending, only if the player made it:
\* slots that move, are cleared or are filled again bring none back.
NoUnaskedChallenge ==
  \A p \in Program, i \in 1 .. MaxSlots :
    i <= count[p] /\ slots[p][i].state = "OUTGOING_PENDING" =>
      slots[p][i].peer \in asked[p]

\* A program whose game is starting has something to come: the next step of the
\* exchange is on its way or due at the other end, or the connection is hung up
\* and the read that says so sends it back to the lobby; and an ACCEPT has a
\* challenge that waits for it, or a program that is about to give all its own up.
\* The one exception is a server whose client is in the game already: the ACK may
\* have come between a retry and the START it sends, which passes it over.
StartUnderWay ==
  \A p \in Program :
    session[p].phase = "GAME_STARTING" =>
      LET c     == transport[p]
          q     == Partner(c, p)
          to(r, type) == \E k \in DOMAIN conns[c].toRead[End(c, r)] :
                           conns[c].toRead[End(c, r)][k].type = type
          due(r) == /\ session[r].hello /\ session[r].challengeDone
                    /\ ~session[r].startSent
      IN  /\ c # 0
          /\ \/ Hung(c, End(c, p))
             \/ /\ session[p].role = "CLIENT" /\ transport[q] = c
                /\ session[q].role = "SERVER" /\ ~session[q].startDone
                /\ due(q) \/ to(p, "START")
             \/ /\ session[p].role = "SERVER"
                /\ \/ to(q, "ACCEPT") \/ due(p) \/ to(q, "START")
                   \/ transport[q] = c /\ session[q].startDone
                /\ to(q, "ACCEPT") =>
                     \/ \E i \in Listed(q) : Advancing(q, i) /\ slots[q][i].fd = c
                     \/ transport[q] # 0 /\ Hung(transport[q], End(transport[q], q))
====
