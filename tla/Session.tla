---- MODULE Session ----
(***************************************************************************)
(* One game between two programs across broken connections, crashes and    *)
(* restarts: the START/ACK exchange, the game, and its resumption from the *)
(* files each program keeps.                                               *)
(*                                                                         *)
(* A program is named after its role in the first connection; session.role *)
(* is what it believes at each moment.  A step is one part of              *)
(* chess_net_tick (a packet handler, a due send, one advance of the        *)
(* connection), a discovery result, or an input event, run to its end.     *)
(* The resume token stands for the game: only one is ever drawn here, so   *)
(* no packet or file needs to carry it.  Moves here do not end the game    *)
(* (see Match); a resignation does.                                        *)
(***************************************************************************)
EXTENDS ChessDefs, FiniteSets, SequencesExt

CONSTANTS Moves,           \* what a MOVE packet may carry
          Legal(_, _),     \* Legal(h, m): chess_gs_is_legal_move after the moves h
          MaxPlies,        \* bound: no player moves once the game is this long
          Crashing,        \* the programs that may crash
          MaxCrashes,      \* bound on the crashes
          MaxBreaks,       \* bound on the connections broken by the network
          MaxUnreadStarts, \* bound on the STARTs the client has not read yet
          QuickPlayer      \* a player may act between START and STATE_SNAPSHOT

ASSUME BoundsAssumption == /\ {MaxPlies, MaxCrashes, MaxBreaks} \subseteq Nat
                           /\ MaxUnreadStarts \in Nat
                           /\ Crashing \subseteq Peer
                           /\ QuickPlayer \in BOOLEAN

VARIABLES
  session,  \* network_session of each program
  pend,     \* pending_start_payload: a game is set, the colour it assigns
  hist,     \* the moves on each program's board
  over,     \* game_state.outcome # CHESS_OUTCOME_NONE
  conn,     \* transport: "none", or a descriptor "live" or "dead"
  inbox,    \* packets sent on the connection and not yet read by its end
  dialing,  \* programs whose connection waits in the other's listen queue
  queued,   \* packets written to such a connection
  snap,     \* matches/<game_id>.json of each program
  rfile,    \* programs that have a resume_state.json
  target,   \* programs with resume_state_loaded
  found,    \* programs that have the other in their lobby list
  up,       \* programs that run
  crashes, breaks

vars == <<session, pend, hist, over, conn, inbox, dialing, queued, snap,
          rfile, target, found, up, crashes, breaks>>
board == <<hist, over>>
net   == <<conn, inbox, dialing, queued>>
disk  == <<snap, rfile>>
env   == <<up, crashes, breaks>>

-----------------------------------------------------------------------------
(* Data *)

Phase == {"IDLE", "TCP_CONNECTING", "AUTHENTICATED", "GAME_STARTING",
          "IN_GAME", "DISCONNECTED"}

SessionType ==
  [phase : Phase, role : {"UNKNOWN"} \cup Peer, color : {"UNASSIGNED"} \cup Color,
   available : BOOLEAN, connected : BOOLEAN, helloSent : BOOLEAN,
   helloReceived : BOOLEAN, hello : BOOLEAN, challengeDone : BOOLEAN,
   startSent : BOOLEAN, startDone : BOOLEAN, started : BOOLEAN,
   resumeSent : BOOLEAN, syncPending : BOOLEAN]

\* chess_network_session_init
NewSession ==
  [phase |-> "IDLE", role |-> "UNKNOWN", color |-> "UNASSIGNED",
   available |-> FALSE, connected |-> FALSE, helloSent |-> FALSE,
   helloReceived |-> FALSE, hello |-> FALSE, challengeDone |-> FALSE,
   startSent |-> FALSE, startDone |-> FALSE, started |-> FALSE,
   resumeSent |-> FALSE, syncPending |-> FALSE]

Pending == [set : BOOLEAN, color : {"UNASSIGNED"} \cup Color]
NoPending == [set |-> FALSE, color |-> "UNASSIGNED"]
TokenOnly == [set |-> TRUE, color |-> "UNASSIGNED"]

NoSnapshot == [white |-> "none"]
Snapshot == [white : Peer, hist : Seq(Moves), over : BOOLEAN]

Bare(t) == [type |-> t]
StartMsg(c) == [type |-> "START", color |-> c]
ResponseMsg(ok) == [type |-> "RESUME_RESPONSE", accepted |-> ok]
SnapshotMsg(h, o) == [type |-> "STATE_SNAPSHOT", hist |-> h, over |-> o]
MoveMsg(m) == [type |-> "MOVE", move |-> m]

\* chess_network_session_set_remote: the other program is the only remote, so
\* it is a new one exactly when none is available.
SetRemote(s) ==
  IF s.available THEN s
  ELSE [s EXCEPT !.available = TRUE, !.connected = FALSE, !.hello = FALSE,
                 !.challengeDone = FALSE, !.started = FALSE,
                 !.phase = "TCP_CONNECTING"]

\* chess_network_session_start_game and what both its callers set after it.
StartGame(s, c) == [s EXCEPT !.color = c, !.started = TRUE, !.startDone = TRUE,
                             !.phase = "IN_GAME"]

\* chess_net_reset_transport_progress
ResetTransportProgress(s) ==
  [s EXCEPT !.helloSent = FALSE, !.helloReceived = FALSE, !.hello = FALSE,
            !.challengeDone = FALSE, !.startSent = FALSE,
            !.resumeSent = FALSE, !.syncPending = FALSE]

-----------------------------------------------------------------------------
(* The connection *)

\* What p writes reaches the other end in order; a write to a dead connection
\* is lost, whether or not it reports an error.
Reached(p, box, msg) ==
  IF conn[p] = "live" /\ p \notin dialing
  THEN [box EXCEPT ![Other(p)] = Append(@, msg)] ELSE box

Send(p, msg) == inbox' = Reached(p, inbox, msg) /\ UNCHANGED <<conn, dialing, queued>>

\* Mutant: the descriptor is forgotten, not closed; the other end lives on.
HangUpUnclosed(p) ==
  /\ conn' = [conn EXCEPT ![p] = "none"]
  /\ inbox' = [inbox EXCEPT ![p] = <<>>]
  /\ dialing' = dialing \ {p}
  /\ queued' = [queued EXCEPT ![p] = <<>>]

\* p's descriptor goes: the other end of its connection, if any, is dead.
HangUp(p) ==
  /\ conn' = [q \in Peer |-> IF q = p THEN "none"
                             ELSE IF conn[q] = "live" /\ q \notin dialing
                             THEN "dead" ELSE conn[q]]
  /\ inbox' = [inbox EXCEPT ![p] = <<>>]
  /\ dialing' = dialing \ {p}
  /\ queued' = [queued EXCEPT ![p] = <<>>]

\* app_handle_peer_disconnect: a finished game stays on the screen, an
\* unfinished one is left with its token kept for a resumption.
HandlePeerDisconnect(p, ended) ==
  LET s    == session[p]
      stay == s.started /\ ended
      r    == ResetTransportProgress(s)
  IN  /\ HangUp(p)
      /\ session' = [session EXCEPT ![p] =
           IF stay
           THEN [r EXCEPT !.connected = FALSE, !.available = FALSE,
                          !.phase = "DISCONNECTED"]
           ELSE [r EXCEPT !.startDone = FALSE, !.available = FALSE,
                          !.started = FALSE, !.role = "UNKNOWN",
                          !.phase = "IDLE"]]
      /\ pend' = [pend EXCEPT ![p] =
           IF stay THEN @
           ELSE IF s.started /\ @.set THEN TokenOnly ELSE NoPending]
      /\ found' = IF s.started /\ ~ended THEN found \ {p} ELSE found

-----------------------------------------------------------------------------
(* A challenge has just been accepted: the acceptor is the server, the      *)
(* challenger's connection has been promoted and set_remote has cleared     *)
(* its flags unless the acceptor was already its remote.                    *)

Init ==
  /\ \E known \in BOOLEAN :
       session = [p \in Peer |->
         IF p = "SERVER"
         THEN [NewSession EXCEPT !.phase = "GAME_STARTING", !.role = p,
                 !.available = TRUE, !.helloSent = TRUE,
                 !.helloReceived = TRUE, !.hello = TRUE,
                 !.challengeDone = TRUE]
         ELSE [SetRemote([NewSession EXCEPT !.role = p, !.available = known,
                 !.connected = TRUE, !.helloSent = TRUE,
                 !.helloReceived = TRUE, !.hello = TRUE,
                 !.challengeDone = TRUE])
                 EXCEPT !.phase = "GAME_STARTING"]]
  /\ pend = [p \in Peer |-> NoPending]
  /\ hist = [p \in Peer |-> <<>>] /\ over = [p \in Peer |-> FALSE]
  /\ conn = [p \in Peer |-> "live"] /\ inbox = [p \in Peer |-> <<>>]
  /\ dialing = {} /\ queued = [p \in Peer |-> <<>>]
  /\ snap = [p \in Peer |-> NoSnapshot] /\ rfile = {} /\ target = {}
  /\ found = Peer /\ up = Peer /\ crashes = 0 /\ breaks = 0

-----------------------------------------------------------------------------
(* Discovery and the connection (app_poll_discovery_and_update_lobby, then    *)
(* chess_net_advance_transport_connection and _hello_handshake).              *)

HasResumeTarget(p) == p \in target /\ pend[p].set

\* A program is advertised, and looks for others, except while in a game.
Discover(p) ==
  /\ {p, Other(p)} \subseteq up
  /\ \A q \in Peer : ~session[q].started
  /\ found' = found \cup {p}
  /\ session' = IF HasResumeTarget(p)
                THEN [session EXCEPT ![p] = [SetRemote(@) EXCEPT !.role = "CLIENT"]]
                ELSE session
  /\ UNCHANGED <<pend, board, net, disk, target, env>>

\* The connection can be advanced before the HELLO exchange is over.
Connecting(p) ==
  p \in up /\ ~session[p].hello /\ session[p].phase # "DISCONNECTED"

Redialing(p) ==
  Connecting(p) /\ session[p].role = "CLIENT"
    /\ session[p].phase = "TCP_CONNECTING"

Dial(p) ==
  /\ Redialing(p) /\ conn[p] = "none"
  /\ p \in found /\ Other(p) \in up
  /\ conn' = [conn EXCEPT ![p] = "live"]
  /\ dialing' = dialing \cup {p}
  /\ UNCHANGED <<session, pend, board, inbox, queued, disk, target, found, env>>

\* A connection lost this early may be reported by the connect, which is then
\* retried, or by the first read.
FinalizeConnect(p) ==
  /\ Redialing(p) /\ conn[p] # "none" /\ ~session[p].connected
  /\ \/ /\ session' = [session EXCEPT ![p].connected = TRUE]
        /\ UNCHANGED net
     \/ /\ conn[p] = "dead"
        /\ HangUp(p)
        /\ UNCHANGED session
  /\ UNCHANGED <<pend, board, disk, target, found, env>>

Accept(p) ==
  /\ Connecting(p) /\ conn[p] = "none" /\ Other(p) \in dialing
  /\ conn' = [conn EXCEPT ![p] = "live"]
  /\ dialing' = dialing \ {Other(p)}
  /\ inbox' = [inbox EXCEPT ![p] = queued[Other(p)]]
  /\ queued' = [queued EXCEPT ![Other(p)] = <<>>]
  /\ UNCHANGED <<session, pend, board, disk, target, found, env>>

Authenticated(s) == [s EXCEPT !.hello = TRUE, !.phase = "AUTHENTICATED"]

AdvanceHelloClient(p) ==
  LET s == session[p]
  IN  /\ p \in up /\ conn[p] # "none" /\ ~s.hello
      /\ s.role = "CLIENT" /\ s.connected
      /\ ~s.helloSent \/ s.helloReceived
      /\ session' = [session EXCEPT ![p] =
           IF s.helloReceived THEN Authenticated([s EXCEPT !.helloSent = TRUE])
           ELSE [s EXCEPT !.helloSent = TRUE]]
      /\ IF s.helloSent THEN UNCHANGED net
         ELSE /\ inbox' = Reached(p, inbox, Bare("HELLO"))
              /\ queued' = IF p \in dialing
                           THEN [queued EXCEPT ![p] = Append(@, Bare("HELLO"))]
                           ELSE queued
              /\ UNCHANGED <<conn, dialing>>
      /\ UNCHANGED <<pend, board, disk, target, found, env>>

AdvanceHelloServer(p) ==
  LET s == session[p]
  IN  /\ p \in up /\ conn[p] # "none" /\ ~s.hello /\ s.role # "CLIENT"
      /\ IF s.helloReceived
         THEN /\ session' = [session EXCEPT ![p] =
                   Authenticated([s EXCEPT !.role = "SERVER", !.helloSent = TRUE])]
              /\ IF s.helloSent THEN UNCHANGED net ELSE Send(p, Bare("HELLO"))
         ELSE /\ session' = [session EXCEPT ![p].role = "SERVER"]
              /\ UNCHANGED net
      /\ UNCHANGED <<pend, board, disk, target, found, env>>

-----------------------------------------------------------------------------
(* What the end of a tick sends *)

SendResumeRequest(p) ==
  LET s == session[p]
  IN  /\ p \in up /\ conn[p] # "none"
      /\ s.role = "CLIENT" /\ s.hello
      /\ ~s.resumeSent /\ ~s.startDone /\ pend[p].set
      /\ session' = [session EXCEPT ![p].resumeSent = TRUE]
      /\ Send(p, Bare("RESUME_REQUEST"))
      /\ UNCHANGED <<pend, board, disk, target, found, env>>

StartDue(p) ==
  LET s == session[p]
  IN  /\ conn[p] # "none" /\ s.role = "SERVER"
      /\ s.hello /\ s.challengeDone /\ ~s.startDone /\ ~s.startSent

\* The first START draws the colours; later ones repeat what is pending.
SendStart(p) ==
  /\ p \in up /\ StartDue(p)
  /\ \E c \in IF pend[p].set THEN {pend[p].color} ELSE Color :
       /\ pend' = [pend EXCEPT ![p] = [set |-> TRUE, color |-> c]]
       /\ Send(p, StartMsg(c))
  /\ session' = [session EXCEPT ![p].startSent = TRUE]
  /\ UNCHANGED <<board, disk, target, found, env>>

UnreadStarts(q) == Len(SelectSeq(inbox[q], LAMBDA m : m.type = "START"))

\* Three seconds without an ACK: the START is due again.
RetryStart(p) ==
  /\ p \in up /\ session[p].startSent /\ ~session[p].startDone
  /\ UnreadStarts(Other(p)) < MaxUnreadStarts
  /\ session' = [session EXCEPT ![p].startSent = FALSE]
  /\ UNCHANGED <<pend, board, net, disk, target, found, env>>

SnapshotDue(p) ==
  LET s == session[p]
  IN  conn[p] # "none" /\ s.role = "SERVER" /\ s.syncPending /\ s.startDone

SendStateSnapshot(p) ==
  /\ p \in up /\ SnapshotDue(p)
  /\ session' = [session EXCEPT ![p].syncPending = FALSE]
  /\ Send(p, SnapshotMsg(hist[p], over[p]))
  /\ UNCHANGED <<pend, board, disk, target, found, env>>

-----------------------------------------------------------------------------
(* The files of a game *)

\* Who is white, by the colour a program has in the game.
White(p, c) == IF c = "WHITE" THEN p ELSE Other(p)

Record(p, c, h, o) == [white |-> White(p, c), hist |-> h, over |-> o]

\* What START or ACK puts on the board: the file of this game or a new board.
LoadMatch(p) == IF snap[p] = NoSnapshot THEN [hist |-> <<>>, over |-> FALSE]
                ELSE [hist |-> snap[p].hist, over |-> snap[p].over]

\* Mutant: a moved piece is not written to the server's file.
RecordMoveNever(p, h) == snap

\* After a move only the server writes its file.
RecordMove(p, h) ==
  IF session[p].role = "SERVER"
  THEN [snap EXCEPT ![p] = Record(p, session[p].color, h, over[p])] ELSE snap

-----------------------------------------------------------------------------
(* The packet handlers.  A packet is consumed whether or not it is obeyed.   *)
(* A connect that is not finalized yet reads nothing.                        *)

Reading(p) == /\ p \in up /\ conn[p] # "none"
              /\ ~(Redialing(p) /\ ~session[p].connected)

Receive(p, t) == Reading(p) /\ inbox[p] # <<>> /\ Head(inbox[p]).type = t

Consumed(p) == [inbox EXCEPT ![p] = Tail(@)]
Consume(p) == inbox' = Consumed(p) /\ UNCHANGED <<conn, dialing, queued>>

Answer(p, msg) == /\ inbox' = Reached(p, Consumed(p), msg)
                  /\ UNCHANGED <<conn, dialing, queued>>

HandleHello(p) ==
  /\ Receive(p, "HELLO")
  /\ session' = [session EXCEPT ![p].helloReceived = TRUE, ![p].available = TRUE]
  /\ Consume(p)
  /\ UNCHANGED <<pend, board, disk, target, found, env>>

\* Mutant: a game already started is not a reason to ignore START.
StartAcceptableAgain(p) == session[p].role = "CLIENT"

StartAcceptable(p) == session[p].role = "CLIENT" /\ ~session[p].startDone

HandleStart(p) ==
  LET c == Head(inbox[p]).color
  IN  /\ Receive(p, "START")
      /\ \/ /\ StartAcceptable(p)
            /\ Answer(p, Bare("ACK"))
            /\ session' = [session EXCEPT ![p] = StartGame(@, c)]
            /\ pend' = [pend EXCEPT ![p] = [set |-> TRUE, color |-> c]]
            /\ hist' = [hist EXCEPT ![p] = LoadMatch(p).hist]
            /\ over' = [over EXCEPT ![p] = LoadMatch(p).over]
            /\ rfile' = rfile \cup {p} /\ target' = target \cup {p}
         \/ /\ StartAcceptable(p) => conn[p] = "dead"
            /\ Consume(p)
            /\ UNCHANGED <<session, pend, board, rfile, target>>
      /\ UNCHANGED <<snap, found, env>>

\* Mutant: an accepted START always begins a new board.
LoadedByAckNew(p) == [hist |-> <<>>, over |-> FALSE]

LoadedByAck(p) == LoadMatch(p)

HandleAck(p) ==
  LET s == session[p]
      c == Opposite(pend[p].color)
      b == LoadedByAck(p)
  IN  /\ Receive(p, "ACK")
      /\ Consume(p)
      /\ IF s.role = "SERVER" /\ s.startSent /\ ~s.startDone
         THEN /\ session' = [session EXCEPT ![p] = StartGame(@, c)]
              /\ hist' = [hist EXCEPT ![p] = b.hist]
              /\ over' = [over EXCEPT ![p] = b.over]
              /\ snap' = [snap EXCEPT ![p] = Record(p, c, b.hist, b.over)]
         ELSE UNCHANGED <<session, board, snap>>
      /\ UNCHANGED <<pend, rfile, target, found, env>>

\* Mutant: the colours of the file are read the wrong way round.
RequesterColorSwapped(p) == IF snap[p].white = Other(p) THEN "BLACK" ELSE "WHITE"

\* requester_is_white
RequesterColor(p) == IF snap[p].white = Other(p) THEN "WHITE" ELSE "BLACK"

\* Mutant: the resumed game is not sent to the client.
ResumeAcceptedUnsynced(s) ==
  [s EXCEPT !.challengeDone = TRUE, !.startDone = FALSE, !.startSent = FALSE,
            !.phase = "GAME_STARTING"]

ResumeAccepted(s) ==
  [s EXCEPT !.challengeDone = TRUE, !.startDone = FALSE, !.startSent = FALSE,
            !.syncPending = TRUE, !.phase = "GAME_STARTING"]

\* A RESUME_RESPONSE that cannot be written undoes everything.
HandleResumeRequest(p) ==
  LET known == snap[p] # NoSnapshot
  IN  /\ Receive(p, "RESUME_REQUEST")
      /\ IF session[p].role # "SERVER" \/ session[p].startDone
         THEN Consume(p) /\ UNCHANGED <<session, pend, found>>
         ELSE \/ /\ session' = [session EXCEPT ![p] =
                      IF known THEN ResumeAccepted(@)
                      ELSE [@ EXCEPT !.syncPending = FALSE]]
                 /\ pend' = IF known
                            THEN [pend EXCEPT ![p] =
                                   [set |-> TRUE, color |-> RequesterColor(p)]]
                            ELSE pend
                 /\ Answer(p, ResponseMsg(known))
                 /\ UNCHANGED found
              \/ conn[p] = "dead" /\ HandlePeerDisconnect(p, over[p])
      /\ UNCHANGED <<board, disk, target, env>>

HandleResumeResponse(p) ==
  LET refused == /\ session[p].role = "CLIENT" /\ session[p].resumeSent
                 /\ ~Head(inbox[p]).accepted
  IN  /\ Receive(p, "RESUME_RESPONSE")
      /\ Consume(p)
      /\ IF refused
         THEN /\ rfile' = rfile \ {p} /\ target' = target \ {p}
              /\ pend' = [pend EXCEPT ![p].set = FALSE]
         ELSE UNCHANGED <<rfile, target, pend>>
      /\ UNCHANGED <<session, board, snap, found, env>>

HandleStateSnapshot(p) ==
  LET m == Head(inbox[p])
      s == session[p]
  IN  /\ Receive(p, "STATE_SNAPSHOT")
      /\ Consume(p)
      /\ IF s.role = "CLIENT" /\ s.started
         THEN /\ hist' = [hist EXCEPT ![p] = m.hist]
              /\ over' = [over EXCEPT ![p] = m.over]
              /\ snap' = [snap EXCEPT ![p] = Record(p, s.color, m.hist, m.over)]
         ELSE UNCHANGED <<board, snap>>
      /\ UNCHANGED <<session, pend, rfile, target, found, env>>

HandleMove(p) ==
  LET m == Head(inbox[p]).move
      h == Append(hist[p], m)
  IN  /\ Receive(p, "MOVE")
      /\ Consume(p)
      /\ IF /\ session[p].started /\ SideToMove(hist[p]) = Opposite(session[p].color)
            /\ Legal(hist[p], m)
         THEN /\ hist' = [hist EXCEPT ![p] = h]
              /\ snap' = RecordMove(p, h)
         ELSE UNCHANGED <<hist, snap>>
      /\ UNCHANGED <<session, pend, over, rfile, target, found, env>>

HandleResign(p) ==
  /\ Receive(p, "RESIGN")
  /\ Consume(p)
  /\ IF session[p].started /\ ~over[p]
     THEN /\ over' = [over EXCEPT ![p] = TRUE]
          /\ snap' = [snap EXCEPT ![p] =
                       Record(p, session[p].color, hist[p], TRUE)]
     ELSE UNCHANGED <<over, snap>>
  /\ UNCHANGED <<session, pend, hist, rfile, target, found, env>>

\* The next read fails: what was still unread is lost.
ReceiveError(p) ==
  /\ Reading(p) /\ conn[p] = "dead"
  /\ HandlePeerDisconnect(p, over[p])
  /\ UNCHANGED <<board, disk, target, env>>

-----------------------------------------------------------------------------
(* The player *)

\* The tick that starts a game sends its START and STATE_SNAPSHOT before the
\* next input is read, unless the connection refuses them.
TickDone(p) == conn[p] = "live" => ~StartDue(p) /\ ~SnapshotDue(p)

\* The game resumed has been sent to the client and read.
Synced(p) == /\ ~session[Other(p)].syncPending
             /\ \A i \in 1..Len(inbox[p]) : inbox[p][i].type # "STATE_SNAPSHOT"

InPlay(p) == /\ p \in up /\ conn[p] # "none" /\ session[p].started /\ ~over[p]
             /\ TickDone(p)
             /\ QuickPlayer \/ Synced(p)

TrySendLocalMove(p, m) ==
  LET h == Append(hist[p], m)
  IN  /\ InPlay(p)
      /\ SideToMove(hist[p]) = session[p].color /\ Legal(hist[p], m)
      /\ Len(hist[p]) < MaxPlies
      /\ hist' = [hist EXCEPT ![p] = h]
      /\ snap' = RecordMove(p, h)
      /\ \/ Send(p, MoveMsg(m)) /\ UNCHANGED <<session, pend, found>>
         \/ conn[p] = "dead" /\ HandlePeerDisconnect(p, FALSE)
      /\ UNCHANGED <<over, rfile, target, env>>

Resign(p) ==
  /\ InPlay(p)
  /\ over' = [over EXCEPT ![p] = TRUE]
  /\ \/ /\ Send(p, Bare("RESIGN"))
        /\ snap' = [snap EXCEPT ![p] =
                     Record(p, session[p].color, hist[p], TRUE)]
        /\ UNCHANGED <<session, pend, found>>
     \/ /\ conn[p] = "dead" /\ HandlePeerDisconnect(p, TRUE)
        /\ UNCHANGED snap
  /\ UNCHANGED <<hist, rfile, target, env>>

ReturnToLobby(p) ==
  /\ p \in up /\ session[p].started /\ over[p]
  /\ HangUp(p)
  /\ session' = [session EXCEPT ![p] = NewSession]
  /\ pend' = [pend EXCEPT ![p] = NoPending]
  /\ hist' = [hist EXCEPT ![p] = <<>>] /\ over' = [over EXCEPT ![p] = FALSE]
  /\ rfile' = rfile \ {p} /\ target' = target \ {p} /\ found' = found \ {p}
  /\ UNCHANGED <<snap, env>>

-----------------------------------------------------------------------------
(* The environment *)

Break ==
  /\ breaks < MaxBreaks
  /\ \E p \in Peer : conn[p] = "live"
  /\ conn' = [p \in Peer |-> IF conn[p] = "live" THEN "dead" ELSE conn[p]]
  /\ dialing' = {} /\ queued' = [p \in Peer |-> <<>>]
  /\ breaks' = breaks + 1
  /\ UNCHANGED <<session, pend, board, inbox, disk, target, found, up, crashes>>

\* Everything but the files is gone; the other finds no one at the address.
Crash(p) ==
  /\ p \in up \cap Crashing /\ crashes < MaxCrashes
  /\ conn' = [q \in Peer |-> IF q = p THEN "none"
                             ELSE IF conn[q] = "live" THEN "dead" ELSE conn[q]]
  /\ dialing' = {} /\ queued' = [q \in Peer |-> <<>>]
  /\ session' = [session EXCEPT ![p] = NewSession]
  /\ pend' = [pend EXCEPT ![p] = NoPending]
  /\ hist' = [hist EXCEPT ![p] = <<>>] /\ over' = [over EXCEPT ![p] = FALSE]
  /\ target' = target \ {p} /\ found' = {}
  /\ up' = up \ {p} /\ crashes' = crashes + 1
  /\ \/ inbox' = [inbox EXCEPT ![p] = <<>>]
     \/ \* in HandleStart, between the ACK and the resume file
        /\ Receive(p, "START") /\ StartAcceptable(p)
        /\ inbox' = [Reached(p, inbox, Bare("ACK")) EXCEPT ![p] = <<>>]
     \/ \* in Resign, between the RESIGN and the match file
        /\ InPlay(p)
        /\ inbox' = [Reached(p, inbox, Bare("RESIGN")) EXCEPT ![p] = <<>>]
  /\ UNCHANGED <<disk, breaks>>

\* Mutant: the resume file is not read.
PendingAtRestartNone(p) == NoPending

PendingAtRestart(p) == IF p \in rfile THEN TokenOnly ELSE NoPending

Restart(p) ==
  /\ p \notin up
  /\ up' = up \cup {p}
  /\ pend' = [pend EXCEPT ![p] = PendingAtRestart(p)]
  /\ target' = target \cup (rfile \cap {p})
  /\ UNCHANGED <<session, board, net, disk, found, crashes, breaks>>

-----------------------------------------------------------------------------
DispatchIncomingPacket(p) ==
  \/ HandleHello(p)
  \/ HandleStart(p)
  \/ HandleAck(p)
  \/ HandleResumeRequest(p)
  \/ HandleResumeResponse(p)
  \/ HandleStateSnapshot(p)
  \/ HandleMove(p)
  \/ HandleResign(p)

NetTick(p) ==
  \/ Dial(p)
  \/ FinalizeConnect(p)
  \/ Accept(p)
  \/ AdvanceHelloClient(p)
  \/ AdvanceHelloServer(p)
  \/ SendResumeRequest(p)
  \/ DispatchIncomingPacket(p)
  \/ ReceiveError(p)
  \/ SendStart(p)
  \/ SendStateSnapshot(p)

PlayerInput(p) ==
  \/ \E m \in Moves : TrySendLocalMove(p, m)
  \/ Resign(p)
  \/ ReturnToLobby(p)

Next == \/ \E p \in Peer : \/ Discover(p)
                           \/ NetTick(p)
                           \/ RetryStart(p)
                           \/ PlayerInput(p)
                           \/ Crash(p)
                           \/ Restart(p)
        \/ Break

Spec == Init /\ [][Next]_vars

\* A running program never stops ticking, mDNS keeps answering and time
\* passes; the players owe nothing and nothing has to fail.
Fairness == \A p \in Peer : /\ WF_vars(NetTick(p))
                            /\ WF_vars(Discover(p))
                            /\ WF_vars(RetryStart(p))

FairSpec == Spec /\ Fairness

-----------------------------------------------------------------------------
(* Properties *)

Packet == [type : {"HELLO", "ACK", "RESUME_REQUEST", "RESIGN"}]
            \cup [type : {"START"}, color : {"UNASSIGNED"} \cup Color]
            \cup [type : {"RESUME_RESPONSE"}, accepted : BOOLEAN]
            \cup [type : {"STATE_SNAPSHOT"}, hist : Seq(Moves), over : BOOLEAN]
            \cup [type : {"MOVE"}, move : Moves]

\* The shape of the state; a connection has two live ends, or one that waits
\* to be accepted.
TypeOK ==
  /\ session \in [Peer -> SessionType] /\ pend \in [Peer -> Pending]
  /\ hist \in [Peer -> Seq(Moves)] /\ over \in [Peer -> BOOLEAN]
  /\ conn \in [Peer -> {"none", "live", "dead"}]
  /\ inbox \in [Peer -> Seq(Packet)] /\ queued \in [Peer -> Seq(Packet)]
  /\ snap \in [Peer -> {NoSnapshot} \cup Snapshot]
  /\ {dialing, rfile, target, found, up} \subseteq SUBSET Peer
  /\ crashes \in 0..MaxCrashes /\ breaks \in 0..MaxBreaks
  /\ \A p \in Peer :
       conn[p] = "live" => (conn[Other(p)] = "live") = (p \notin dialing)

\* Every program and every file agrees on who plays white, over any number of
\* connections, crashes and repeated STARTs.
ColoursKept ==
  Cardinality({snap[p].white : p \in {q \in Peer : snap[q] # NoSnapshot}}
                \cup {White(p, session[p].color) :
                        p \in {q \in Peer : session[q].started}}) <= 1

ServerRecord == IF snap["SERVER"] = NoSnapshot THEN <<>> ELSE snap["SERVER"].hist

\* A crash of the server loses no move the client shows, but perhaps the last
\* one of its own; and the server never shows what it would lose.
NothingShownIsLost ==
  LET h    == hist["CLIENT"]
      last == [i \in 1..Len(h) - 1 |-> h[i]]
  IN  /\ session["SERVER"].started => hist["SERVER"] = ServerRecord
      /\ session["CLIENT"].started =>
           \/ IsPrefix(h, ServerRecord)
           \/ /\ h # <<>> /\ IsPrefix(last, ServerRecord)
              /\ SideToMove(last) = session["CLIENT"].color

\* The server's file only ever gains moves, keeps its colours and stays final
\* once the game is over: resuming never starts a game again.
RecordGrows ==
  [][snap["SERVER"] # NoSnapshot =>
       /\ snap'["SERVER"] # NoSnapshot
       /\ snap'["SERVER"].white = snap["SERVER"].white
       /\ IsPrefix(snap["SERVER"].hist, snap'["SERVER"].hist)
       /\ snap["SERVER"].over => snap'["SERVER"].over]_vars

\* No move disappears from a board while its game is on the screen: neither a
\* repeated START nor a STATE_SNAPSHOT takes one back.
NeverRewound ==
  [][\A p \in Peer :
       session[p].started /\ ~over[p] /\ session'[p].started =>
         IsPrefix(hist[p], hist'[p])]_vars

AtRest == /\ up = Peer /\ dialing = {}
          /\ \A p \in Peer : /\ session[p].started /\ TickDone(p)
                             /\ conn[p] = "live" /\ inbox[p] = <<>>

\* "Game state re-synchronized." (packet_game_init.c): with both programs in
\* the game and nothing left to read, both show the same game.
InStepAtRest == AtRest => hist["SERVER"] = hist["CLIENT"]
                            /\ over["SERVER"] = over["CLIENT"]

InGame(p) == session[p].started

\* A client that comes back with its resume file finds its game again, however
\* often it crashed, unless the game ended.
ClientResumes ==
  ("CLIENT" \in up \cap rfile /\ snap["SERVER"] # NoSnapshot)
    ~> ((\A p \in Peer : InGame(p)) \/ "CLIENT" \notin up
          \/ \E p \in Peer : over[p])

\* "retry START after 3 seconds if ACK never arrived" (handler.c): a START sent
\* gets the game going unless the connection is lost.
StartCompletes ==
  (session["SERVER"].startSent /\ conn["SERVER"] = "live")
    ~> (InGame("SERVER") \/ conn["SERVER"] # "live")
====
