---- MODULE Match ----
(***************************************************************************)
(* One game between two connected programs, from the moment both are in    *)
(* CHESS_PHASE_IN_GAME until the connection is gone: moves, resignation,   *)
(* draw offers and the server's chess clock.                               *)
(*                                                                         *)
(* Each program is single threaded: an action is one input event, one      *)
(* packet handler or the clock check of chess_net_tick, run to its end.    *)
(* The board is the sequence of moves applied to it; what the rules say of *)
(* that sequence is left to the constants Legal and Result.  Time is left  *)
(* to TLC: a turn may take any amount of it.                               *)
(***************************************************************************)
EXTENDS ChessDefs, FiniteSets

CONSTANTS Moves,         \* what a MOVE packet may carry
          Legal(_, _),   \* Legal(h, m): chess_gs_is_legal_move after the moves h
          Result(_),     \* outcome chess_gs_apply_move sets after h, or "NONE"
          TimeControl,   \* clock units each side starts with
          MaxPlies       \* bound: no player moves once the game is this long

ASSUME BoundsAssumption == /\ TimeControl \in Nat \ {0}
                           /\ MaxPlies \in Nat

ASSUME ResultAssumption ==
  \A n \in 0..MaxPlies : \A h \in [1..n -> Moves] :
     Result(h) \in BoardResult \cup {"NONE"}

ASSUME OpeningAssumption == Result(<<>>) = "NONE"

VARIABLES
  color,      \* network_session.local_color
  hist,       \* moves applied to game_state, side_to_move being their parity
  outcome,    \* game_state.outcome
  pending,    \* network_session.draw_offer_pending
  received,   \* network_session.draw_offer_received
  clock,      \* white_remaining_ms and black_remaining_ms, in clock units
  ticking,    \* server: turn_started_at_ms > 0
  inbox,      \* packets sent to a program and not yet read by it
  conn,       \* the game connection's descriptor is open
  started,    \* network_session.game_started
  link        \* the TCP connection between the two

vars == <<color, hist, outcome, pending, received, clock, ticking, inbox,
          conn, started, link>>

-----------------------------------------------------------------------------
(* Packets *)

Clock == [Color -> 0..TimeControl]
BareType == {"RESIGN", "DRAW_OFFER", "DRAW_ACCEPT", "DRAW_DECLINE"}

Bare(t) == [type |-> t]
MoveMsg(m) == [type |-> "MOVE", move |-> m]
SyncMsg(ck) == [type |-> "TIME_SYNC", clock |-> ck]

Msg == [type : BareType] \cup [type : {"MOVE"}, move : Moves]
         \cup [type : {"TIME_SYNC"}, clock : Clock]

\* A packet written while the connection is up reaches the other end in
\* order; written after the break it is lost, the write itself succeeding.
Sent(box, p, msg) ==
  IF link = "up" THEN [box EXCEPT ![p] = Append(@, msg)] ELSE box

Ended(p) == outcome[p] # "NONE"

-----------------------------------------------------------------------------
(* chess_net_tick has just completed START/ACK for a new game. *)

Init ==
  /\ color \in {f \in [Peer -> Color] : f["SERVER"] = Opposite(f["CLIENT"])}
  /\ hist = [p \in Peer |-> <<>>]
  /\ outcome = [p \in Peer |-> "NONE"]
  /\ pending = [p \in Peer |-> FALSE]
  /\ received = [p \in Peer |-> FALSE]
  /\ clock = [p \in Peer |-> [c \in Color |-> TimeControl]]
  /\ ticking = TRUE
  /\ inbox = [p \in Peer |-> <<>>]
  /\ conn = [p \in Peer |-> TRUE]
  /\ started = [p \in Peer |-> TRUE]
  /\ link = "up"

-----------------------------------------------------------------------------
(* app_handle_peer_disconnect: the descriptor and the receive buffer go; a *)
(* finished game stays on the screen, an unfinished one is left.           *)

HandlePeerDisconnect(p, over) ==
  /\ conn' = [conn EXCEPT ![p] = FALSE]
  /\ inbox' = [inbox EXCEPT ![p] = <<>>]
  /\ started' = [started EXCEPT ![p] = over]

\* A packet the caller must get through: a failed write is a disconnection.
SendOrDisconnect(p, box, over) ==
  \/ /\ inbox' = box
     /\ UNCHANGED <<conn, started>>
  \/ /\ link = "down"
     /\ HandlePeerDisconnect(p, over)

\* Mutant: the elapsed time is subtracted without the clamp.
DeductedUnclamped(p, c) ==
  IF p = "SERVER" /\ ticking
  THEN {[clock[p] EXCEPT ![c] = @ - spent] : spent \in 0..TimeControl}
  ELSE {clock[p]}

\* Mutant: both programs deduct, not only the server.
DeductedByBoth(p, c) ==
  IF ticking THEN {[clock[p] EXCEPT ![c] = left] : left \in 0..clock[p][c]}
  ELSE {clock[p]}

\* Clocks the server may hold once the mover's elapsed time is deducted; the
\* remaining time is clamped to 0.
Deducted(p, c) ==
  IF p = "SERVER" /\ ticking
  THEN {[clock[p] EXCEPT ![c] = left] : left \in 0..clock[p][c]}
  ELSE {clock[p]}

\* Mutant: a result already decided is kept.
OutcomeIfUndecided(h, old) == IF old # "NONE" THEN old ELSE Result(h)

\* What chess_gs_apply_move leaves in outcome: it does not look at the old one.
OutcomeAfter(h, old) == IF Result(h) = "NONE" THEN old ELSE Result(h)

-----------------------------------------------------------------------------
(* The player: a move on the board, the buttons of the game panel. *)

InPlay(p) == conn[p] /\ started[p] /\ ~Ended(p)

\* Mutant: the turn is not checked.
CanMoveAnyTurn(p, m) == Legal(hist[p], m) /\ Len(hist[p]) < MaxPlies

\* What chess_game_try_local_move accepts, within the bound MaxPlies.
CanMove(p, m) == /\ SideToMove(hist[p]) = color[p]
                 /\ Legal(hist[p], m)
                 /\ Len(hist[p]) < MaxPlies

TrySendLocalMove(p, m) ==
  LET h    == Append(hist[p], m)
      o    == OutcomeAfter(h, outcome[p])
      box1 == IF received[p] THEN Sent(inbox, Other(p), Bare("DRAW_DECLINE"))
                             ELSE inbox
      box2 == Sent(box1, Other(p), MoveMsg(m))
  IN  /\ InPlay(p)
      /\ CanMove(p, m)
      /\ hist' = [hist EXCEPT ![p] = h]
      /\ outcome' = [outcome EXCEPT ![p] = o]
      /\ received' = [received EXCEPT ![p] = FALSE]
      /\ \E ck \in Deducted(p, color[p]) :
           /\ clock' = [clock EXCEPT ![p] = ck]
           /\ SendOrDisconnect(p,
                IF p = "SERVER" /\ ticking
                THEN Sent(box2, Other(p), SyncMsg(ck)) ELSE box2,
                o # "NONE")
      /\ UNCHANGED <<color, pending, ticking, link>>

Resign(p) ==
  /\ InPlay(p) /\ ~received[p]
  /\ outcome' = [outcome EXCEPT ![p] = Resigned(color[p])]
  /\ SendOrDisconnect(p, Sent(inbox, Other(p), Bare("RESIGN")), TRUE)
  /\ UNCHANGED <<color, hist, pending, received, clock, ticking, link>>

\* Mutant: the button stays active while an offer waits for its answer.
OfferButtonAlways(p) == ~received[p]

\* The panel shows an active "Draw" button.
OfferButton(p) == ~received[p] /\ ~pending[p]

OfferDraw(p) ==
  /\ InPlay(p) /\ OfferButton(p)
  /\ pending' = [pending EXCEPT ![p] = TRUE]
  /\ SendOrDisconnect(p, Sent(inbox, Other(p), Bare("DRAW_OFFER")), FALSE)
  /\ UNCHANGED <<color, hist, outcome, received, clock, ticking, link>>

AcceptDraw(p) ==
  /\ InPlay(p) /\ received[p]
  /\ outcome' = [outcome EXCEPT ![p] = "DRAW_AGREED"]
  /\ received' = [received EXCEPT ![p] = FALSE]
  /\ SendOrDisconnect(p, Sent(inbox, Other(p), Bare("DRAW_ACCEPT")), TRUE)
  /\ UNCHANGED <<color, hist, pending, clock, ticking, link>>

DeclineDraw(p) ==
  /\ InPlay(p) /\ received[p]
  /\ received' = [received EXCEPT ![p] = FALSE]
  /\ SendOrDisconnect(p, Sent(inbox, Other(p), Bare("DRAW_DECLINE")), FALSE)
  /\ UNCHANGED <<color, hist, outcome, pending, clock, ticking, link>>

-----------------------------------------------------------------------------
(* The packet handlers.  A packet is consumed whether or not it is obeyed. *)

Receive(p, t) == /\ conn[p]
                 /\ inbox[p] # <<>>
                 /\ Head(inbox[p]).type = t

Consumed(p) == [inbox EXCEPT ![p] = Tail(@)]

\* Mutant: a move that arrives after the end is refused.
AcceptableUntilEnd(p, m) == /\ started[p] /\ ~Ended(p)
                            /\ SideToMove(hist[p]) = Opposite(color[p])
                            /\ Legal(hist[p], m)

\* chess_game_apply_remote_move would apply m: the outcome is not consulted.
Acceptable(p, m) == /\ started[p]
                    /\ SideToMove(hist[p]) = Opposite(color[p])
                    /\ Legal(hist[p], m)

HandleMove(p) ==
  LET m == Head(inbox[p]).move
      h == Append(hist[p], m)
  IN  /\ Receive(p, "MOVE")
      /\ IF Acceptable(p, m)
         THEN /\ hist' = [hist EXCEPT ![p] = h]
              /\ outcome' = [outcome EXCEPT ![p] = OutcomeAfter(h, @)]
              /\ \E ck \in Deducted(p, Opposite(color[p])) :
                   /\ clock' = [clock EXCEPT ![p] = ck]
                   /\ inbox' = IF p = "SERVER" /\ ticking
                               THEN Sent(Consumed(p), Other(p), SyncMsg(ck))
                               ELSE Consumed(p)
         ELSE /\ inbox' = Consumed(p)
              /\ UNCHANGED <<hist, outcome, clock>>
      /\ UNCHANGED <<color, pending, received, ticking, conn, started, link>>

\* Mutant: the handlers do not look at the outcome.
StartedOnly(p) == started[p]

Undecided(p) == started[p] /\ ~Ended(p)

HandleResign(p) ==
  /\ Receive(p, "RESIGN")
  /\ inbox' = Consumed(p)
  /\ outcome' = IF Undecided(p)
                THEN [outcome EXCEPT ![p] = Resigned(Opposite(color[p]))]
                ELSE outcome
  /\ UNCHANGED <<color, hist, pending, received, clock, ticking, conn,
                 started, link>>

HandleDrawOffer(p) ==
  /\ Receive(p, "DRAW_OFFER")
  /\ inbox' = Consumed(p)
  /\ received' = IF Undecided(p)
                 THEN [received EXCEPT ![p] = TRUE] ELSE received
  /\ UNCHANGED <<color, hist, outcome, pending, clock, ticking, conn,
                 started, link>>

HandleDrawAccept(p) ==
  /\ Receive(p, "DRAW_ACCEPT")
  /\ inbox' = Consumed(p)
  /\ IF Undecided(p) /\ pending[p]
     THEN /\ outcome' = [outcome EXCEPT ![p] = "DRAW_AGREED"]
          /\ pending' = [pending EXCEPT ![p] = FALSE]
     ELSE UNCHANGED <<outcome, pending>>
  /\ UNCHANGED <<color, hist, received, clock, ticking, conn, started, link>>

HandleDrawDecline(p) ==
  /\ Receive(p, "DRAW_DECLINE")
  /\ inbox' = Consumed(p)
  /\ pending' = [pending EXCEPT ![p] = FALSE]
  /\ UNCHANGED <<color, hist, outcome, received, clock, ticking, conn,
                 started, link>>

\* Mutant: the colours are swapped.
OutcomeAfterSyncSwapped(ck, old) ==
  IF old # "NONE" THEN old
  ELSE IF ck["WHITE"] = 0 THEN TimedOut("BLACK")
  ELSE IF ck["BLACK"] = 0 THEN TimedOut("WHITE")
  ELSE old

\* Mutant: a TIME_SYNC only moves the clocks.
OutcomeUntouchedBySync(ck, old) == old

\* White's clock is looked at first.
OutcomeAfterSync(ck, old) ==
  IF old # "NONE" THEN old
  ELSE IF ck["WHITE"] = 0 THEN TimedOut("WHITE")
  ELSE IF ck["BLACK"] = 0 THEN TimedOut("BLACK")
  ELSE old

HandleTimeSync(p) ==
  LET ck == Head(inbox[p]).clock
  IN  /\ Receive(p, "TIME_SYNC")
      /\ inbox' = Consumed(p)
      /\ IF started[p]
         THEN /\ clock' = [clock EXCEPT ![p] = ck]
              /\ outcome' = [outcome EXCEPT ![p] = OutcomeAfterSync(ck, @)]
         ELSE UNCHANGED <<clock, outcome>>
      /\ UNCHANGED <<color, hist, pending, received, ticking, conn, started,
                     link>>

DispatchIncomingPacket(p) ==
  \/ HandleMove(p)
  \/ HandleResign(p)
  \/ HandleDrawOffer(p)
  \/ HandleDrawAccept(p)
  \/ HandleDrawDecline(p)
  \/ HandleTimeSync(p)

-----------------------------------------------------------------------------
(* The clock check that ends chess_net_tick, and the connection. *)

\* Mutant: the timeout is not sent to the client.
ClockTimeoutUnsent ==
  LET c == SideToMove(hist["SERVER"])
  IN  /\ Undecided("SERVER") /\ ticking
      /\ clock' = [clock EXCEPT !["SERVER"][c] = 0]
      /\ ticking' = FALSE
      /\ outcome' = [outcome EXCEPT !["SERVER"] = TimedOut(c)]
      /\ UNCHANGED <<color, hist, pending, received, inbox, conn, started,
                     link>>

ClockTimeout ==
  LET c  == SideToMove(hist["SERVER"])
      ck == [clock["SERVER"] EXCEPT ![c] = 0]
  IN  /\ Undecided("SERVER") /\ ticking
      /\ clock' = [clock EXCEPT !["SERVER"] = ck]
      /\ ticking' = FALSE
      /\ outcome' = [outcome EXCEPT !["SERVER"] = TimedOut(c)]
      /\ inbox' = Sent(inbox, "CLIENT", SyncMsg(ck))
      /\ UNCHANGED <<color, hist, pending, received, conn, started, link>>

LinkBreak ==
  /\ link = "up"
  /\ link' = "down"
  /\ UNCHANGED <<color, hist, outcome, pending, received, clock, ticking,
                 inbox, conn, started>>

\* The read of the next packet fails: what was still in flight is lost.
ReceiveError(p) ==
  /\ conn[p] /\ link = "down"
  /\ HandlePeerDisconnect(p, Ended(p))
  /\ UNCHANGED <<color, hist, outcome, pending, received, clock, ticking,
                 link>>

-----------------------------------------------------------------------------
PlayerInput(p) ==
  \/ \E m \in Moves : TrySendLocalMove(p, m)
  \/ Resign(p)
  \/ OfferDraw(p)
  \/ AcceptDraw(p)
  \/ DeclineDraw(p)

NetTick(p) == DispatchIncomingPacket(p) \/ ReceiveError(p)

Next == \/ \E p \in Peer : PlayerInput(p) \/ NetTick(p)
        \/ ClockTimeout
        \/ LinkBreak

Spec == Init /\ [][Next]_vars

\* The main loop of each program never stops ticking and time passes; the
\* players owe nothing.
Fairness == /\ \A p \in Peer : WF_vars(NetTick(p))
            /\ WF_vars(ClockTimeout)

FairSpec == Spec /\ Fairness

-----------------------------------------------------------------------------
(* Properties *)

\* The state every handler relies on has the shape the code gives it.
TypeOK ==
  /\ color \in [Peer -> Color] /\ color["SERVER"] = Opposite(color["CLIENT"])
  /\ hist \in [Peer -> Seq(Moves)]
  /\ outcome \in [Peer -> Outcome]
  /\ pending \in [Peer -> BOOLEAN] /\ received \in [Peer -> BOOLEAN]
  /\ clock \in [Peer -> Clock] /\ ticking \in BOOLEAN
  /\ inbox \in [Peer -> Seq(Msg)]
  /\ conn \in [Peer -> BOOLEAN] /\ started \in [Peer -> BOOLEAN]
  /\ link \in {"up", "down"}

\* q's board is one move of q's ahead of p's.
Ahead(q, p) == \E m \in Moves : /\ hist[q] = Append(hist[p], m)
                               /\ SideToMove(hist[p]) = color[q]

InStep == \/ hist["SERVER"] = hist["CLIENT"]
          \/ Ahead("SERVER", "CLIENT")
          \/ Ahead("CLIENT", "SERVER")

\* The two boards are the same, or differ by the last move of the player
\* whose turn it was; a MOVE on its way is that move, and the only one.
BoardsInStep ==
  /\ InStep
  /\ \A p \in Peer : \A i \in 1..Len(inbox[p]) :
       inbox[p][i].type = "MOVE" =>
         /\ hist[Other(p)] = Append(hist[p], inbox[p][i].move)
         /\ \A j \in 1..Len(inbox[p]) : inbox[p][j].type = "MOVE" => j = i

\* No MOVE is ever answered with "ignoring invalid remote MOVE payload": the
\* reader's board is the one the sender checked the move on, whatever
\* resignations, offers and timeouts crossed it.
NoMoveRefused ==
  \A p \in Peer : \A i \in 1..Len(inbox[p]) :
    inbox[p][i].type = "MOVE" => Acceptable(p, inbox[p][i].move)

\* A result the board shows is the result each program records, whatever
\* decision of a player or of the clock it raced with.
BoardResultPrevails ==
  \A p \in Peer : Result(hist[p]) # "NONE" => outcome[p] = Result(hist[p])

\* No program believes in a decision the other did not take: an opponent's
\* resignation was the opponent's last word, a draw was offered by the other
\* and accepted, a player out of time has no time left on that clock.
NoInventedEnding ==
  \A p \in Peer :
    /\ outcome[p] = Resigned(color[Other(p)]) => outcome[Other(p)] = outcome[p]
    /\ outcome[p] = "DRAW_AGREED" =>
         pending[Other(p)] \/ outcome[Other(p)] = "DRAW_AGREED"
    /\ \A c \in Color : outcome[p] = TimedOut(c) => clock[p][c] = 0

InFlight(p, T) == {i \in 1..Len(inbox[p]) : inbox[p][i].type \in T}

\* An offer is in flight, waiting for the player, or being answered: never two
\* of these at once, and then the one who made it still has it pending.  So an
\* answer always answers the offer it was given for, never a later one.
OneOfferOutstanding ==
  \A p \in Peer :
    LET offers  == InFlight(Other(p), {"DRAW_OFFER"})
        answers == InFlight(p, {"DRAW_ACCEPT", "DRAW_DECLINE"})
    IN  /\ Cardinality(offers) + Cardinality(answers)
             + (IF received[Other(p)] THEN 1 ELSE 0)
            <= (IF pending[p] THEN 1 ELSE 0)

\* The clocks the client shows only run down towards the server's, one TIME_SYNC
\* after the other, and once everything is read they are the server's.
ClocksRunTogether ==
  LET box   == inbox["CLIENT"]
      syncs == InFlight("CLIENT", {"TIME_SYNC"})
  IN  /\ \A c \in Color : clock["SERVER"][c] <= clock["CLIENT"][c]
      /\ \A i \in syncs, c \in Color :
           /\ clock["SERVER"][c] <= box[i].clock[c]
           /\ box[i].clock[c] <= clock["CLIENT"][c]
           /\ \A j \in syncs : i < j => box[j].clock[c] <= box[i].clock[c]
      /\ link = "up" =>
           IF syncs = {} THEN clock["CLIENT"] = clock["SERVER"]
           ELSE \E i \in syncs : /\ \A j \in syncs : j <= i
                                 /\ box[i].clock = clock["SERVER"]

AtRest == /\ \A p \in Peer : conn[p] /\ inbox[p] = <<>>
          /\ link = "up"

\* The client took a clock at 0 for a timeout, which the server had not called
\* when it wrote that clock.
ClientCalledTime ==
  \E c \in Color : outcome["CLIENT"] = TimedOut(c) /\ clock["SERVER"][c] = 0

\* With everything read: if the server's game is over so is the client's, the
\* client alone may be over only by a timeout it called itself, and programs
\* that show different results do not show a result of the board.
SettledAtRest ==
  AtRest =>
    /\ Ended("SERVER") => Ended("CLIENT")
    /\ Ended("CLIENT") /\ ~Ended("SERVER") => ClientCalledTime
    /\ Ended("SERVER") /\ outcome["SERVER"] # outcome["CLIENT"] =>
         \A p \in Peer : outcome[p] \notin BoardResult

\* A decision of q's is on its way to p.
UnreadDecision(p, q) ==
  \/ InFlight(p, {"RESIGN", "DRAW_ACCEPT"}) # {}
  \/ InFlight(p, {"MOVE"}) # {} /\ Result(hist[q]) # "NONE"
  \/ \E i \in InFlight(p, {"TIME_SYNC"}), c \in Color : inbox[p][i].clock[c] = 0

\* The step that makes the results of the two programs differ is a decision
\* that crosses the other's, still unread, or the client called a timeout.
DecisionsCross ==
  \A p \in Peer :
    LET q == Other(p)
    IN  /\ link = "up" /\ outcome'[p] # outcome[p]
        /\ Ended(q)' /\ outcome'[p] # outcome'[q]
        => (UnreadDecision(p, q) \/ ClientCalledTime)'

\* While the connection is up, the two programs come to show different results
\* only by decisions that cross on it, or by a clock at 0 which the client takes
\* for a timeout (packet_gameplay.c:226-231): then the two may even name
\* opposite losers with nothing crossed.  Once everything is read both are over
\* or neither is, but for that timeout, and a result of the board is common.
AgreeAtRest == []SettledAtRest /\ [][DecisionsCross]_vars

\* A result shown to the player is never taken back, except by the move that
\* was on its way and ends the game on the board.
ResultFinal ==
  [][\A p \in Peer : Ended(p) /\ outcome'[p] # outcome[p] =>
        hist'[p] # hist[p] /\ outcome'[p] = Result(hist'[p])]_vars

\* With both programs running, every game ends on both sides or the
\* connection is lost: the server's clock is enough for that.
GameEnds == <>((\A p \in Peer : Ended(p)) \/ link = "down")

\* A game over on one side is soon over on the other, or the link is lost.
EndSpreads == \A p \in Peer : Ended(p) ~> (Ended(Other(p)) \/ link = "down")

\* "Detect timeout signaled by server" (packet_gameplay.c): when the client
\* shows a timeout, the server has ended the game.
TimeoutIsTheServers ==
  outcome["CLIENT"] \in {TimedOut(c) : c \in Color} => Ended("SERVER")

\* The two boards are views of one game: a move is made by the player who has
\* seen all of it, and is shown to the other in order (module AgreedGame).
LongerOf(a, b) == IF Len(a) >= Len(b) THEN a ELSE b

Agreed == INSTANCE AgreedGame WITH
            game <- LongerOf(hist["SERVER"], hist["CLIENT"]),
            seen <- [p \in Peer |-> Len(hist[p])]

AgreedSpec == Agreed!Spec
====
