# A verification of Chaturanga

Chaturanga is a peer-to-peer chess program: two instances find each other by
mDNS on a local network, one challenges the other over TCP, and they play a
game with a chess clock. A game survives a lost connection or a crash: each
program keeps files from which it is resumed.

This directory holds TLA+ models of that program, the TLC configurations that
check them on small instances, and TLAPS proofs about them. Source references
are to the repository (`src/…` is its `src` directory).

## The system

Every program is **single threaded**. `app_run` (`app.c`) repeats: input
events, `chess_net_tick`, discovery results, drawing. Nothing in it blocks for
long, so the unit of interleaving is one input event, one packet handler or one
step of the tick, run to its end. What is concurrent is the *other* program,
the network, the mDNS daemon, the player and time.

| Component | State | Operations | Interacts through |
|---|---|---|---|
| Game protocol (`packet_gameplay.c`, `input_board.c`, `input_handler.c`) | board, outcome, draw flags, clocks | move, resign, offer/accept/decline a draw, one handler per packet, clock check | packets MOVE, RESIGN, DRAW_*, TIME_SYNC |
| Session (`packet_game_init.c`, `handler.c`, `handler_connection.c`, `session.c`, `packet_handshake.c`) | `network_session`: phase, role, progress flags; `pending_start_payload` | HELLO, START/ACK and its retry, RESUME_REQUEST/RESPONSE, STATE_SNAPSHOT, disconnect, return to the lobby | the game connection; the files |
| Persistence (`persistence*.c`) | `matches/<id>.json`, `resume_state.json` | save, load, clear | called by the handlers |
| Challenges and lobby (`handler_challenges.c`, `lobby_state.c`) | a slot per peer: challenge state, its own connection | OFFER, ACCEPT, cross-offer, promotion to the game connection, add/remove a peer | one connection per challenge; discovery |
| Chess rules (`game_state*.c`) | board, castling rights, en passant, half-move clock | legality, apply, result | called by the game protocol |
| TCP framing (`tcp.c`) | receive buffer and its state | non-blocking receive, `writev` send | sockets |
| Discovery (`discovery*.c`) | resolve queue, removal queue, one result slot | browse, resolve, time out, remove | Avahi/DNS-SD callbacks run inside the tick |
| Notation (`game_notation.c`), profile, window, drawing | – | naming a move | called by the game protocol and the drawing |

What makes each of them correct, and what is hard about it:

* **Game protocol.** The two boards are one game; the two programs agree how it
  ended. Hard: decisions of both players, a mating move and the server's clock
  cross on the wire; a lost connection cuts the exchange anywhere; the client's
  clocks are copies.
* **Session.** A game that was shown is found again with its moves and its
  colours, whoever crashed and when; a handshake that starts ends. Hard: what is
  unread when a connection goes is lost, an ACK races its retry, one end may
  still hold the old connection when the other dials again, a crash falls
  between two effects of one handler.
* **Challenges.** Two programs that end up in a game agree on the connection and
  on who serves. Hard: crossing offers, promotion while a resumption is pending,
  slots that move when a peer disappears.
* **Rules.** A move is accepted exactly when chess allows it, and the result is
  the one the position has. Hard: castling through check, en passant, pins.
* **Framing.** What is read is what was written, packet by packet. Hard: partial
  reads and writes, a buffer reset between them.
* **Discovery.** A peer that stays advertised is eventually in the lobby, one
  that left is not. Hard: bounded queues, a late answer after a timeout,
  removal before resolution.

## Modules

| Module | Models |
|---|---|
| `ChessDefs` | colours, outcomes, programs (`Peer == {"SERVER", "CLIENT"}`), the side to move |
| `Match` | one game between two connected programs |
| `AgreedGame` | what two programs promise their players: one game, seen in order |
| `MatchProofs` | proofs about `Match`: the boards, that it implements `AgreedGame`, and how a game ends: draw offers, clocks, endings, and that the two endings agree once everything is read |
| `MCMatch` | a small game for TLC: legality that depends on the board, a mating and a drawing move |
| `Session` | one game across connections, crashes, restarts and resumption |
| `SessionProofs` | proofs about `Session`: what every state looks like, the colours and the server's file |
| `SessionSyncProofs` | proofs that no move is lost and that the boards are in step |
| `MCSession` | its small instance |
| `Challenge` | several programs from the lobby to a game: slots, challenges, the connections they use |
| `ChallengeProofs` | proofs about `Challenge`: lobbies, and who asked for a challenge |
| `ChallengeGameProofs` | proofs about the game a challenge becomes: its server, its players, its start |
| `MCChallenge` | two players who may challenge each other and a third; a lobby whose peers come and go |
| `Discovery` | from mDNS to the lobby: browse, resolve, time out, remove |
| `DiscoveryProofs` | proofs about `Discovery` |
| `MCDiscovery` | three programs, one on two interfaces, queues of one and two entries |
| `Framing` | packets on a stream of bytes, written and read in parts |
| `PacketPipe` | what the handlers count on: whole packets in order |
| `FramingProofs` | proofs that whole packets come out in order, and that nothing overflows |
| `MCFraming` | packets of two to four bytes over a socket buffer of four |
| `Rules` | the rules of chess as the code applies them, and as chess states them |
| `RulesProofs` | proofs that the two agree in every game: moves, rights, results, promotions, names |
| `MCRules` | the initial position and five endings |

How they fit together: `Rules` is what `Match` and `Session` take as the
constants `Legal` and `Result`; `PacketPipe` is why their channels are sequences
of whole packets, and `Framing` implements it; `Challenge` begins with the peers
`Discovery` lists and ends where `Session` begins, with an accepted challenge;
`Session` contains the play of `Match`, reduced to what the files record.

### Match

A board is the sequence of moves applied to it (`hist`); its parity is
`side_to_move`. `Legal` and `Result` are constants: what `chess_gs_is_legal_move`
allows and what `chess_gs_apply_move` puts in `outcome`. Each packet sent and
not yet read is in `inbox`, in order; a send after the connection broke is lost
although the call may succeed, or fails and is handled as a disconnection
(`SendOrDisconnect`), as the code does.

| Code | Action |
|---|---|
| `chess_input_try_send_local_move` (the implicit DRAW_DECLINE, the deduction, MOVE, TIME_SYNC) | `TrySendLocalMove` |
| `handle_game_button` | `Resign`, `OfferDraw`, `AcceptDraw`, `DeclineDraw` |
| `chess_pkt_handle_move` … `_time_sync` | `HandleMove`, `HandleResign`, `HandleDrawOffer`, `HandleDrawAccept`, `HandleDrawDecline`, `HandleTimeSync` |
| end of `chess_net_tick` | `ClockTimeout` |
| `app_handle_peer_disconnect` | `ReceiveError`, and a failed send |

Time is a choice: a turn takes any amount of the mover's clock, in units
(`TimeControl` of them), 0 included. The game is a new one, both clocks full; a
resumed game goes on from the clocks in its file and is left to `Session`.

### Session

Begins where a challenge has been accepted: the acceptor is the server. The
state is the code's flags, field by field (`session`), the pending START, the
board, the connection, and the two files of each program. A connection is a
descriptor at each end, `"live"` or `"dead"`; `dialing` and `queued` stand for
the listen queue, where a new connection and its first packets wait while the
other end still holds the old one. One action per packet handler and per step
of the tick (`Dial`, `FinalizeConnect`, `Accept`, `AdvanceHelloClient`,
`AdvanceHelloServer`, `SendResumeRequest`, `SendStart`, `RetryStart`,
`SendStateSnapshot`), the player's (`TrySendLocalMove`, `Resign`,
`ReturnToLobby`), and the environment's (`Discover`, `Break`, `Crash`,
`Restart`).

A crash loses everything but the files. It falls between handlers, or inside one
of the two that send before they write: `HandleStart`, between the ACK and
`resume_state.json`, and `Resign`, between the RESIGN and the match file. The
others write before they send or do only one of the two, so a crash inside
them leaves what a crash before or after them leaves.

What `Session` leaves out, and why that is sound for what it claims: clocks
(played in `Match`; their persistence is not modelled); draw offers and results on
the board (for a file, all ends are alike: a resignation stands for them); game
identifiers and tokens (only one is ever drawn, because the pending START is
repeated and not redrawn); the contents of HELLO (each program knows one
other). A connection that stays half open with no traffic is not modelled: the
program has no keepalive, so neither end would act until the kernel reports an
error, which is when `Break` is taken to happen.

### Challenge

Programs, their players, and the connections between them. A program has one
`transport`, the game connection, and in each lobby slot a descriptor of its
own for a challenge it makes (`slots[p][i].fd`). The slots are an array: `count`
of them are in use, removal moves the later ones down, and what an unused slot
holds is part of the state. A connection has two ends, each with the packets it
has still to read; a connection not yet accepted is in the `backlog` of the
other program.

| Code | Action |
|---|---|
| `chess_lobby_add_or_update_peer` and the buffered OFFER (`app.c:264`) | `DiscoverPeer` |
| `chess_lobby_remove_peer_by_profile_id` | `RemovePeer` |
| `handle_lobby_click` | `ClickChallenge`, `ClickCancel`, `ClickRetry`, `ClickAccept` |
| `chess_net_advance_outgoing_challenges`, one stage of one challenge | `Connect`, `FinishConnect`, `ConnectRefused`, `SayHello`, `HearHello`, `SendOffer`, `HearAccept` (promotion), `ChallengeLost` |
| accepting a connection, HELLO | `Accept`, `AdvanceHello`, `HandlePacket` |
| `chess_pkt_handle_offer` | `HandleOffer`: answered, shown, or buffered |
| `chess_pkt_handle_accept`, `_ack`, `_start` | `HandlePacket`, `HandleStart` |
| sending START, and its retry after three seconds without an ACK (`handler.c:311`) | `SendStart`, `RetryStart` |
| `app_handle_peer_disconnect`, `app_return_to_lobby` | `ReceiveError`, `ReturnToLobby` |

The stages of a tick are separate actions. A tick runs them in a fixed order,
but each of them waits for a packet that may come at any time, so any order of
stages is that of some sequence of ticks. `asked` is a history variable: whom a
player challenged or accepted and has not withdrawn. `strayed` is another: which
of the four things have happened so far that the code does not guard against
(*Bounds of the Challenge runs* below); the theorems speak of the states before them. Neither is
read by a guard.

An ACCEPT whose sender is not listed marks the slot of `selected_peer_idx`, which
is any slot or none here (`MayMatch`). One branch of the code is left out: an OFFER
or another packet than ACCEPT read on a challenge's own descriptor
(`handler_challenges.c:232`). It is not reached: a program sends OFFER only on
connections it dialed itself, and its ACCEPT before its START (`ByAcceptor` in
the invariant of `ChallengeGameProofs`).

### Discovery

The Avahi backend. A browser reports announcements (`heard`); the first service
found is resolved at once, others wait in `queue`; the answer waits in `ready`
(`pending_peer`) until the main loop polls it; removals take the `removals`
queue. A resolve that times out is given up and not cancelled, so `resolvers`
counts those in flight for each program and a late answer still arrives.

| Code | Action |
|---|---|
| `avahi_browse_callback` | `ServiceNew`, `ServiceRemoved` |
| `avahi_resolver_callback` | `Answer`, `AnswerFailed` |
| `app_poll_discovery_and_update_lobby`, `chess_discovery_avahi_check_result` | `Poll`, `PollTimedOut` |
| `chess_discovery_stop`/`_start` around a game, after a broken connection | `GameBegins`, `ReturnToLobby`, `PeerDisconnects` |
| the network | `Advertise`, `Withdraw` |

`lost` and `unsure` are history variables. They record each way in which the
code lets an announcement come to nothing, or a removal go unseen; the
invariants say there is no other.

### Framing

One direction of a connection. `sending` is what `writev` has still to write,
`wire` the socket buffer, `buf`, `rstate` and `announced` the receive buffer. A
byte is known by its packet and its place. A send that finds the buffer full
gives up where it is (`WriteFails`); what the reader makes of the bytes after
that is left open, so a header may announce any size or none.

| Code | Action |
|---|---|
| `chess_tcp_send_packet` | `Send`, then `Write` or `WriteFails` |
| `chess_tcp_send_packet_pair` | `SendPair`, then the same |
| `chess_tcp_recv_nonblocking` | `Receive` (`ReadHeader`, `ReadPayload`) |
| `chess_tcp_recv_reset`, `tcp_transport_init_from_fd` | `RecvReset`, `Reconnect` |
| `close`, the network | `Close`, `Break` |

### Rules

`ApplyMove` and `IsLegalMove` follow `game_state.c` and `game_state_moves.c`,
square by square, on the 8x8 board with the code's flags (`castle`, `ep`,
`halfmove`). Beside them stands a second statement of the rules that uses none
of those flags: `ChessMoves` works from the lines a piece sees, from the
history of touched squares and from the last move. `Notation` is what
`chess_move_format_algebraic_notation` says of a move: piece, target, capture,
the file or rank that tells it apart, promotion, check or mate.

## Runs

| Run | Question | Bounds |
|---|---|---|
| `match_safety` | Do boards, results, offers and clocks agree in every interleaving? Does the game refine `AgreedGame`? | 3 plies, 3 moves (one mates), 2 clock units, one break |
| `match_live` | Does every game end, and does an end reach the other side? | 2 plies, 1 clock unit |
| `match_timeout` | Is a timeout the client shows always the server's? **No** | 2 plies, 1 clock unit |
| `session_safety` | Does a resumed game keep its moves, colours and result? | 2 crashes of either, 1 break, a repeated START, 2 plies |
| `session_resume` | Does a client that crashed find its game again? | 2 crashes of the client |
| `session_start` | Does the START retry get the game going? **No** | no failure at all, 1 unread START |
| `session_quick` | Do the boards agree if a player moves at once after a resumption? **No** | 1 crash of the client |
| `challenge_lobby` | Whatever challenges cross, is the game that comes of them the one both asked for, with one server, and does its start have something to come? | 3 programs, 2 slots, 2 connections, one peer found late, one that may refuse connections |
| `challenge_reuse` | Does a freed lobby slot forget its challenge? **No** | 2 peers that come and go |
| `discovery` | Does the lobby list who is there, but for the losses the code accepts? | 3 programs, 4 announcements, a queue of 1, 2 removals, 2 listed, 5 outside changes |
| `framing` | Do packets come out as they went in, however they are cut? | 2-byte headers, payloads to 2, socket buffer of 4, 4 packets, 2 connections |
| `rules` | Are the code's moves, results and names those of chess? | every position 2 plies from 6 openings |

Why the bounds are enough. Three plies let each side move, a move be answered,
and a mating move be in flight against a resignation, an agreed draw or a
timeout; no handler looks further back than the side to move and the legality
of the next move. Two clock units tell "some time used", "all used" and
"nothing used" apart. Two crashes cover a crash during the recovery from
another, of the same program or of the other; the break adds a connection lost
while both run. Two plies give both programs a move to lose.

In `challenge_lobby` two connections are what crossing offers need, one each
way, and what one challenger with two challenges needs; `ann` may challenge
both others, `bob` may challenge `ann` once it has found it, `cid` may refuse. A number
freed by a failed connect is used again, so three refusals in a row happen. In
`discovery` the queue of one and the two removals fill up, the lobby of two is
too small for three programs, and five changes allow a service to leave and
come back while another waits. In `framing` a packet of full length fills the
socket buffer, a header alone half of it, and a pair never fits: every send can
stop at every byte, and a read can end at every byte of a header or payload;
four packets let two be sent after one that was torn. In `rules` two plies are a
move and every answer to it; each opening puts one hard rule within reach (see
`MCRules`), and the hundredth half-move is two plies from one of them.

Deadlock is not checked: a game ends, a lobby comes to rest, bounds run out.

What the properties say:

* `BoardsInStep`, `NoMoveRefused`: the boards differ by at most one move, the one
  in flight, and that one is always accepted, also after a resignation or
  timeout crossed it.
* `BoardResultPrevails`, `ResultFinal`: a result on the board is the result
  recorded, and nothing but the move in flight changes a recorded result.
* `NoInventedEnding`: a result comes from a decision its maker still stands by.
* `AgreeAtRest`: while the connection is up, the step that makes the two results
  differ is a decision that crosses the other's, which is still unread
  (`DecisionsCross`); the exception is the timeout a client calls itself when it
  reads a clock at 0 (`ClientCalledTime`): the server goes on, and may name the
  other player the loser later, with nothing crossed (finding 1 below). Once
  everything is read both have ended or neither has, but for that timeout, and a
  result of the board is the result of both (`SettledAtRest`).
* `OneOfferOutstanding`: an answer to a draw offer can only answer the offer it
  was given for.
* `ClocksRunTogether`: the client's clocks, and every TIME_SYNC on its way to it,
  only run down towards the server's; with all of them read the clocks are equal.
* `GameEnds`, `EndSpreads`: the server's clock ends an abandoned game, on both
  sides.
* `ColoursKept`, `RecordGrows`, `NothingShownIsLost`, `NeverRewound`,
  `InStepAtRest`: over any crash or reconnection, everyone agrees on who is
  white; the server's file never loses a move or a result; at most the client's
  own last move can be lost by a crash; no board goes back while it is shown;
  and with everything read both show the same game.
* `ClientResumes`: a restarted client reaches its game again.
* `OneServer`, `ConsentedGame`: two programs that have made one connection their
  game agree who serves; both players asked for that game and each program
  shows the right opponent.
* `NoChallengeLeftOpen`, `NoUnaskedChallenge`: whichever challenge becomes the
  game, the connections of the others are closed; no slot shows a challenge its
  player did not make.
* `StartUnderWay`: a program whose game is starting is not stuck: the next
  packet of the exchange is on its way or due, or the other end has hung up and
  reading that takes it back to the lobby. The exception is a server whose client
  is in the game already: an ACK read between a retry and its START is passed
  over, and START goes out for ever (finding 2 below).
* `NobodyVanishes`, `GhostsExplained`, `QueueMoves`, `AnswerKept`: see Discovery.
* `KeepsPackets`, `LastWordsHeard`: `Framing` implements `PacketPipe`, with
  delivery; a program that hangs up in good order has been heard to the end.
* `LegalMovesAreChess`, `ResultIsChess`, `RightsFollowHistory`,
  `PiecesAccounted`: the code's flags against the rules. `ResultIsChess` follows
  the code in one point where chess differs: a mate on the hundredth half-move
  is recorded as a draw.
* `PromotionAskedWhenNeeded`: the dialog opens exactly for moves that need it.
* `NotationUnique`: no two legal moves have one name, with at most two pieces of
  a kind (with three, the code's search stops too early).

The type invariants say more than types in two places: `Challenge` lists no peer
twice, and the receive buffer of `Framing` never outgrows its room although the
bytes after a torn packet may announce any size.

### Fairness

`Match`: weak fairness of each program's network tick and of the server's clock
check: the main loop never stops, and time passes. Weak fairness of `NetTick` is
of the whole tick, not of each handler: packets are read in order, so any
progress is progress on the next one. The players owe nothing.
`Session`: in addition mDNS keeps answering (`Discover`) and the retry timer
expires (`RetryStart`). Crashes, breaks and restarts are never owed.
`Framing`: weak fairness of `Receive`: the tick reads what `poll` reports. The
sender owes nothing, so only what was written whole must arrive.
`Discovery`: weak fairness of `Poll` and `PollTimedOut`: the main loop polls in
every frame and the resolve timeout passes. The daemon may never answer.
`Challenge` and `Rules` state safety only.

### Assumptions of the Session runs

* `QuickPlayer = FALSE`: the player does not act in the moments between the START
  and the STATE_SNAPSHOT of a resumption. `session_quick` drops the assumption
  and shows why it is one. It is also the one hypothesis of the theorems about
  moves and boards below.
* `MaxUnreadStarts = 0` in `session_resume`: an answer arrives within the three
  seconds of the START retry. `session_start` drops it.
* `session_resume` has no broken connection: a connection that breaks while a
  resumption is negotiated makes the client forget the token until it is
  restarted (`app_handle_peer_disconnect` keeps it only if the game was
  started). This is listed as a hazard.

### Bounds of the Challenge runs

Four things can happen in the code after which properties of `Challenge` may fail.
The history variable `strayed` records them. The main run leaves out the first
three, by two constants; the fourth happens in it, without harm on an instance
of its size.

* `FREED_PENDING`, `MOVED_PENDING`: a peer leaves the lobby while a challenge is
  pending in the slot that becomes free, or in its own slot or a later one. With
  `QuietRemovals` a peer leaves only once it is in a game and while no challenge
  at or after its slot is pending. `challenge_reuse` drops it and shows what
  happens of the first (finding 4). Of the second: the peer of a game that is
  starting is removed and found again; the new slot knows nothing of that game,
  so its player can challenge the peer and withdraw the challenge, and the game
  starts all the same (`ConsentedGame` fails, 20 steps).
* `SECOND_ACCEPT`: a player accepts a challenge while the game of another one is
  starting, which clears the `hello_completed` and `challenge_done` of the start
  that is under way. With `PatientPlayers` players do not; without it TLC
  finds `StartUnderWay` violated, and `OneServer`, each after some 26 steps.
* `STALE_OFFER`: an OFFER kept for a program that is not in the lobby yet is
  applied when that program is found (`app.c:264`), however long ago it was
  withdrawn and whatever has happened since; nothing clears it. In the run only
  one player challenges a program that has not found it yet. With a second, known
  challenger the kept OFFER can be applied to the wrong connection: an instance
  with `MayChallenge` = {a→b, c→b} and a found by b late violates `ConsentedGame`
  after some 27 steps (a's OFFER is kept, a withdraws, b finds a and shows the
  challenge, c connects, b accepts "a" and the ACCEPT goes to c). With four
  programs `OneServer` and `NoChallengeLeftOpen` have counterexamples of some 26
  steps.

`MaxUnreadStarts` is 2: one START and its retry may be unread at once.
`MaxConns`, `MaxSlots` and the sets of pairs bound the instance. No token of an
earlier game is pending.

What the run does cover: when offers cross, both programs may answer the other's
and both become the server, on two connections. Each then hangs up on the other
and both return to the lobby. That no game starts then is a loss for the
players, and no property forbids it; what `OneServer` and `StartUnderWay` say is
that the two never share a connection in that state and never wait for ever.

## Disagreements with what the code says of itself

1. **A timeout that is only the client's** (`TimeoutIsTheServers`). A move that
   takes all of the remaining time leaves the server's game on with a clock at
   0; the TIME_SYNC makes the client declare a timeout, "signaled by server"
   (`packet_gameplay.c:226`).
2. **The START retry can miss the ACK for good** (`StartCompletes`). The retry
   clears `start_sent` before the tick reads its packets; an ACK read in that
   tick is dropped, and the client ignores further STARTs. The server repeats
   START every three seconds while the client is in the game
   (`handler.c:311`).
3. **A move made too early after a resumption is taken back on one side**
   (`InStepAtRest` with `QuickPlayer`). The STATE_SNAPSHOT built before the
   server read the MOVE replaces the client's board after it
   (`packet_game_init.c:260`).
4. **A freed lobby slot keeps its challenge** (`NoUnaskedChallenge` without
   `QuietRemovals`). Of a slot freed by a removal only the descriptor is reset
   (`lobby_state.c:170`); the next peer added takes it with the
   `challenge_state` it held and is sent an OFFER nobody asked for, while
   `tests/test_suite.c:830` expects `CHESS_CHALLENGE_NONE` of a new peer.

## Proofs

TLC checks small instances; the theorems hold for every value of the constants.
Proved are the safety invariants and action properties of `Match`, `Session`,
`Discovery` and `Framing`, the refinement of `AgreedGame`, the safety part of that
of `PacketPipe`, all the safety invariants of `Challenge`, for any number of
programs, and all properties of `Rules`, from any opening. The assumptions on constants are the named ones of each module,
evaluated by every run. Where a theorem needs more, its statement
says so, as an assumption (`~QuickPlayer`) or as what has not happened yet (`strayed`),
and a run or an instance described above shows what happens without it.

Each argument has the same form: an inductive invariant, a lemma per action, and
lemmas about the operators the actions share (queues, connections, slots).

### The game (`Match`)

Any moves, rules, time control and length of the game. Assumptions:
`BoundsAssumption`, `ResultAssumption`, `OpeningAssumption` (the clock starts
above 0, the rules return outcomes, the opening position has none).

| Theorem | Module | Statement |
|---|---|---|
| `Invariance` | `MatchProofs` | `Spec => []IInv` |
| `TypeCorrect` | | `Spec => []TypeOK` |
| `BoardsStayInStep` | | `Spec => []BoardsInStep` |
| `MovesAlwaysAccepted` | | `Spec => []NoMoveRefused` |
| `BoardResultRecorded` | | `Spec => []BoardResultPrevails` |
| `ResultsAreFinal` | | `Spec => ResultFinal` |
| `ImplementsAgreedGame` | | `Spec => AgreedSpec` |
| `EndInvariance` | | `Spec => []EndInv` |
| `OffersOneAtATime` | | `Spec => []OneOfferOutstanding` |
| `ClocksFollow` | | `Spec => []ClocksRunTogether` |
| `EndingsAreReal` | | `Spec => []NoInventedEnding` |
| `RestInvariance` | | `Spec => []RestInv` |
| `EndingsAgree` | | `Spec => AgreeAtRest` |

Three invariants, each on top of the one before:

    IInv    == TypeOK /\ Bounded /\ InStep /\ OpenMeansStarted /\ MovesOnTheirWay
    EndInv  == IInv /\ BoardResultPrevails /\ OneOffer /\ ClocksInStep
                    /\ (\A p : Explained(p)) /\ ZeroAtTimeout
    RestInv == EndInv /\ Level /\ MovePastEnd /\ BoardOutcome /\ (\A p : ToldOf(p))

*Boards.* `BoardsInStep` alone is not inductive: it does not say that a MOVE in
flight is legal on its reader's board or that it was its sender's turn, nor that
a program whose connection is closed has nothing to read. `MovesOnTheirWay` adds
the first (a MOVE leads from the reader's board to the sender's, was legal and
on turn, and is the only one), `OpenMeansStarted` the second. `Bounded` is what
makes `ResultAssumption` applicable. The key lemma is `MoverIsLevel`: the player
to move has read everything that matters, so the boards are equal and no MOVE is
in flight. The refinement maps `game` to the longer of the two boards and `seen`
to their lengths; a local move is `Play`, a remote one `See`, everything else
stutters.

*Endings.* `OneOffer` follows an offer through its life: in the queue, before the
player or on its way back as an answer, in one of these places only, and pending
all along. `ClocksInStep` orders the TIME_SYNCs in the queue: each is at most the
one before, and the last is the server's clock. `Explained` says why a program
shows what it shows also while the explanation is still on its way: an
acceptance or a resignation in the queue was its sender's last word.

*Rest.* At rest nothing is in the queues, so what the queues owe must be said
before: `Telling` lists what is on its way when one program alone has ended (a
resignation, an acceptance the offerer still waits for, the move that ends the
game, a TIME_SYNC with a clock at 0), and the one case in which nothing is, the
client's own timeout. `MovePastEnd` and `BoardOutcome` tie results to boards. The
same `Telling` is what a decision crosses: when a program decides by itself while
the other has ended, what tells it so is in its queue and stays there
(`StillUnread`), and every other way to a result copies the other's
(`CrossingStep`).

### A game over crashes and connections (`Session`)

Any moves, legality and any bounds on plies, crashes, breaks and unread STARTs
(`BoundsAssumption`), crashes of either program or both.

| Theorem | Module | Statement |
|---|---|---|
| `SessionsWellFormed` | `SessionProofs` | `Spec => []TypeOK` |
| `ColoursNeverSwap` | | `Spec => []ColoursKept` |
| `RecordOnlyGrows` | | `Spec => RecordGrows` |
| `ShownMovesKept` | `SessionSyncProofs` | `~QuickPlayer`: `Spec => []NothingShownIsLost` |
| `InStepWhenRead` | | `~QuickPlayer`: `Spec => []InStepAtRest` |
| `BoardsNeverRewound` | | `~QuickPlayer`: `Spec => NeverRewound` |

    BaseInv   == SessionTypes /\ BoardTypes /\ SetTypes /\ Net /\ Locals
    ColourInv == BaseInv /\ StartFlags /\ (\E w : Agreed(w)) /\ Undrawn /\ ServerShows
    OpenInv   == ColourInv /\ ServerConn /\ Opening /\ Acks
    SyncInv   == OpenInv /\ Trailing /\ InStep

* `BaseInv` is what a state looks like: only the client of the first connection
  ever has a resume file and dials; which packets travel in which direction; a
  connection has two open ends or waits in the server's listen queue.
* `ColourInv`: one program `w` is white in both files, in every game that is
  shown, in every START unread and in the pending START; before the colour is
  drawn (`Undrawn`) there is nothing it could contradict. That the server shows
  what its file holds (`ServerShows`) makes its file only grow.
* `OpenInv` is how a connection begins, whatever was going on before: until the
  client has read START nothing of the game is sent, the one ACK comes before
  the moves, and a server that holds a file resumes instead of starting anew. It
  needs no hypothesis about the player.
* `SyncInv` compares the client with the server's file. `Trailing`: file and
  board of the client are prefixes of the server's file, or one move of its own
  ahead; of the queue to the client the snapshot comes before a move. `InStep`:
  nothing of the game is sent before the snapshot (`Resuming`); then the board
  the client will show once its mail is read differs from the server's file by
  the one move in flight, which is legal where it arrives (`OneMove`), and an end
  that one side shows is on its way to the other (`OneEnd`).

With `QuickPlayer` the theorems of the last module are false: `Resuming` fails,
and `session_quick` shows `InStepAtRest` violated.

### The lobby (`Challenge`)

Any finite set of programs, any players and any number of slots and connections.
Assumptions: `ProgramsAssumption` and `LobbyAssumption` (nobody knows, finds or
challenges itself; what a program knows at first fits its lobby).

| Theorem | Module | Statement |
|---|---|---|
| `LobbiesWellFormed` | `ChallengeProofs` | `Spec => []TypeOK`, also when peers leave at any time |
| `NothingUnasked` | | `Spec => []("FREED_PENDING" \notin strayed => NoUnaskedChallenge)` |
| `GameInvariance` | `ChallengeGameProofs` | `Spec => [](strayed = {} => GameInv)` |
| `GamesHaveOneServer` | | `Spec => [](strayed = {} => OneServer)` |
| `GamesAreConsented` | | `Spec => [](strayed = {} => ConsentedGame)` |
| `ChallengesAreClosed` | | `Spec => [](strayed = {} => NoChallengeLeftOpen)` |
| `StartsAreUnderWay` | | `Spec => [](strayed = {} => StartUnderWay)` |

Nothing is assumed of players, removals or offers: every behaviour of the code is
covered up to the first of the four events in `strayed`, all programs together.
`QuietRemovals` and `PatientPlayers` are arbitrary here.

    LobbyInv == Types /\ Lobbies
    AskedInv == LobbyInv /\ Quiet
    GameInv  == /\ AskedInv
                /\ \A c \in ConnId : ConnInv(c)
                /\ \A p \in Program : ProgInv(p) /\ Waiting(p, backlog[p], conns)

`Lobbies` carries what `TypeOK` says beyond types (no peer listed twice) and
what removal and reuse need of the slots beyond `count`. `NoUnaskedChallenge`
looks at the slots in use; it is not inductive because a peer that is added takes
a slot as it was left. `Quiet` says of every slot, used or not, that without a
challenge it holds nothing of an earlier one, and that the unused ones have no
challenge. A removal that frees a slot with a challenge in it ends that
(`FREED_PENDING`), and the property with it (`challenge_reuse`).

The other properties are about the game a challenge becomes. Each relates two
programs, and neither knows anything of the other but what it has read; so none
of them is inductive, and the invariant says what the packets between them can
be. Each end of a connection writes three packets in a fixed order: HELLO,
OFFER, ACK the one that dialed (`ByDialer`), HELLO, ACCEPT, START the other
(`ByAcceptor`), the START as often as it is retried (`Repeats`). How many of them
a program has read and written is no variable of the code but is spread over what
it keeps: the flags of a lobby slot before the challenge is promoted, those of
the session after (`ReadBy`, `WrittenBy`). A retry makes the acceptor forget that
it has sent START, and the ACK it then reads changes nothing, so its flags only
bound what it has written and read (`HasAnswered`, `HasRead`).

* `ConnInv`: a connection is unused, or joins two different programs, and what
  is in the queue of an open end is what the other end has written and it has
  not read (`Stream`, `Repeats`). An end that is open is one its program knows of, in a
  slot or as its game connection. An end that is not accepted yet has written
  nothing; no OFFER is followed by an ACK before the START it answers.
* `ProgInv` is what one program makes of its connections. A slot with a
  connection dialed it to the peer it shows, is undecided, and its program is in
  no game (`SlotInv`); one without has forgotten the connection it had. A
  session is alone, the client of the challenge it dialed and promoted, or the
  server of the connection it accepted, with the flags and phases each may have
  (`SessionInv`); in the last two cases its player has asked for the game once
  it is settled (`Matched`).
* `Waiting`: what is in a listen queue waits to be accepted, once.

An action of one program changes one connection at its own end, or hangs up on
several, and reaches of the other program only what that connection says; this
is `OwnStep` with `Respects`, and the lemma on each action shows that the rest
of `GameInv` cannot tell the difference. The properties follow by comparing the
two ends of one connection: a START that was read was written by a program that
had read the OFFER, hence by a server whose player accepted, and so on.
`SECOND_ACCEPT` must not have happened where a player accepts (`SessionInv` fails
for a server whose flags are cleared under it), `STALE_OFFER` where a kept OFFER
is applied (its slot must be that of the program at the other end), `MOVED_PENDING`
where a peer is removed (`Matched` fails when the slot of the game that is
starting goes).

### Discovery

Any programs (infinitely many, if one likes), announcements, and sizes of the
two queues and of the lobby. Assumption: `DiscoveryAssumption` (sizes are natural
numbers, announcements name programs).

| Theorem | Statement |
|---|---|
| `Invariance` | `Spec => []IInv` |
| `TypeCorrect` | `Spec => []TypeOK` |
| `NobodyLost` | `Spec => []NobodyVanishes` |
| `GhostsAccountedFor` | `Spec => []GhostsExplained` |
| `AnswersWait` | `Spec => AnswerKept` |

    IInv == TypeOK /\ IsFiniteSet(lobby) /\ Delivered /\ Vouched /\ GhostsExplained

`NobodyVanishes` is not inductive: a program may be listed with its removal
queued, be announced again, and be removed from the lobby by the next poll.
`Delivered` says that such a program is on its way again or recorded as lost.
`GhostsExplained` needs `Vouched`: what is on its way will be listed, so it must
be announced or known to have been removed unseen already. `Listed` and
`StartNext` enter the proof only through what `ListedEffect` and
`StartNextEffect` say of them; both polls are instances of `PollKeepsInv`.
`AnswersWait` needs in addition that nothing waits while discovery is stopped
(`StoppedIdle`).

### Framing

Headers, payloads and socket buffers of any size, any number of packets and
connections. Assumption: `FramingAssumption` (a header and the socket buffer have
a byte at least, `Garbled` is no packet number).

| Theorem | Statement |
|---|---|
| `Invariance` | `Spec => []IInv` |
| `TypesHold` | `Spec => []TypeOK` |
| `LastWordsAlwaysHeard` | `Spec => []LastWordsHeard` |
| `ImplementsPipe` | `Spec => Pipe!Safety` |

    IInv == Types /\ Buffered /\ InProgress /\ InOrder /\ Stream /\ LastWordsHeard

That the packets received are a prefix of those written whole (`InOrder`) says
nothing of the bytes on their way. `Stream` does: there is a function from
packets to offsets such that the packets not yet received lie, each with all its
bytes, between their offsets in `buf \o wire` (`Laid`), and until something is
torn they are followed by the bytes written of the packet in progress and by
nothing else (`Ends`). A function of offsets stands for what one would define by
induction over the packets: a packet is added at the end (`Completed`) or taken
at the front (`Taken`) without one. `InProgress` is what the sender has left:
the rest of a packet, and the whole of the next if it sent a pair. `Buffered`
ties the size the buffer waits for to the packet whose header it holds.

`RestOfSending` says which packets a `writev` of n bytes finishes, `Advanced`
what that makes of the stream; `FirstOfStream` says that a whole header in the
buffer is that of the next packet, or, when something is torn and all others are
received, anything. `ReceiveStep` then has one case per outcome of the receive:
the same bytes in other hands, the next packet delivered, or a failure with
nothing left to hear.

### Rules (`Rules`)

Any openings, either colour on this program, games of any length. Assumptions:
`RulesAssumption` (a colour, a bound) and `OpeningsAssumption`: a game starts
undecided, with king and rook at home for every castling right, at most one king
of a colour, no king that could be taken at once, at most 16 men counting the
captured ones, and an en passant flag that says what the last move says. The
initial position of `chess_game_state_init` satisfies it, and so does, by
`RulesInvariance`, every position of a game that a snapshot restores; TLC
evaluates it on the openings of `MCRules`.

| Theorem | Module | Statement |
|---|---|---|
| `RulesInvariance` | `RulesProofs` | `Spec => []RInv` |
| `RulesTypeOK` | | `Spec => []TypeOK` |
| `LegalMovesAreTheMovesOfChess` | | `Spec => []LegalMovesAreChess` |
| `RightsAreHistory` | | `Spec => []RightsFollowHistory` |
| `ResultsAreChess` | | `Spec => []ResultIsChess` |
| `PromotionIsAsked` | | `Spec => []PromotionAskedWhenNeeded` |
| `NamesOfMovesAreUnique` | | `Spec => []NotationUnique` |
| `PiecesAreAccounted` | | `Spec => PiecesAccounted` |

The invariant:

    RInv == Sound(pos) /\ Counted /\ Decided /\ OwnSelected
              /\ pos.castle = Untouched(touched)
              /\ touched \subseteq Square /\ plies \in 0 .. MaxPlies

*Lines.* `StraightIsSeen` and `DiagonalIsSeen` say that the code's loop between
two squares sees what a piece sees along a direction; with the steps of knight,
king and pawn, `AttackIsCommand` and `CheckIsCheck` follow: an attack is a
command, and check is check.

*Moves.* `TargetsArePseudoLegal` compares what a piece may reach, pawns and en
passant included; `AfterIsMoved` says that the board the code tries a move on and
the board after it in chess look the same to the opponent (`SameToOthers`: they
differ at most in which piece a pawn became), and `SameCheck` that this is enough
for check. Castling is apart: the code tests the board after castling as well,
chess only the squares of the king, so `CastlingIsSafe` shows that neither the
king nor the rook was hiding it from anything. `LegalIsChess` puts them together. It needs
more than the types: the en passant flag is that of the last move (`Chased`), king
and rook stand at home for every right (`Homes`), there is one king.

*Play.* `Sound` collects those. That a legal move keeps it (`MoveSound`) rests on
`NoKingTaken`, since a king that could be taken would have been in check after the
move before, and on `MoveEffect`, the three ways a move changes the board.
`RightIsLeft` is where the flags and the history of squares meet, `MoveChased`
where the en passant flag and the last move do, `MoveCounted` counts the men.

*Names.* `CastlingNames`, `PawnNames` and `OfficerNames` say for each piece what
its name tells apart; `OnlyTwo` is why two pieces of a kind are the limit.

### Only model-checked

* Liveness: `GameEnds`, `EndSpreads`, `ClientResumes`, `QueueMoves`, and the
  delivery that `Framing` owes `PacketPipe` (`KeepsPackets` is its safety part,
  which is proved, and that). Fairness and ENABLED are beyond the
  prover.

## Not modelled

* Discovery over DNS-SD (macOS): the same promise over other callbacks; the Avahi
  backend stands for it. Of the Avahi backend, ports, TXT records, renaming and
  re-registration of the program's own service, and the skipping of it.
* Resume tokens across two games: a token left over from an interrupted game when
  another challenge is accepted, a rejected resumption that keeps the connection,
  two programs that both dial. They need `Session` and `Challenge` together; the
  hazards are listed.
* Clocks in the files: `Match` has the clocks, `Session` the files.
* The blocking receive with a timeout (`tcp.c`), which the program does not use,
  and the IP address lookup.
* The text of moves and of the move history, with its 300 entries; `Notation`
  models what a name says. The peer profile: read or created once at start-up.
* JSON text: the files are records; a file is whole or absent.
* The window, drawing, fonts, animation: no state the protocol depends on. Which
  buttons are active is in `Match`, which squares can be clicked in `Rules`.

## Plan

1. Tokens in `Challenge`: two games in a row, with the hazards above.
2. `Session` with clocks in the files, and a connection that breaks during a
   resumption.
