---- MODULE MatchProofs ----
(***************************************************************************)
(* Proofs about the game protocol of module Match, for any moves, rules of *)
(* the game, time control and number of plies.  First the two boards and   *)
(* the refinement of AgreedGame; then how a game ends: the draw offers,    *)
(* the clocks, the endings each program shows and the packets that         *)
(* announce them, and that the two endings agree once everything is read.  *)
(***************************************************************************)
EXTENDS Match, FiniteSetTheorems, TLAPS

-----------------------------------------------------------------------------
(* The inductive invariant *)

\* No board is longer than the bound.
Bounded == \A p \in Peer : Len(hist[p]) <= MaxPlies

\* An open connection belongs to a game; a closed one was lost at both ends and
\* has nothing to read.
OpenMeansStarted ==
  \A p \in Peer : /\ conn[p] => started[p]
                  /\ ~conn[p] => link = "down" /\ inbox[p] = <<>>

\* If the queue s of a program with board h holds a MOVE, it is the only one,
\* it was legal on h when it was c's turn, and it leads to the board g.
Carries(s, h, g, c) ==
  \A i \in 1..Len(s) :
    s[i].type = "MOVE" =>
      /\ g = Append(h, s[i].move)
      /\ SideToMove(h) = c
      /\ Legal(h, s[i].move)
      /\ \A j \in 1..Len(s) : s[j].type = "MOVE" => j = i

MovesOnTheirWay ==
  \A p \in Peer : Carries(inbox[p], hist[p], hist[Other(p)], color[Other(p)])

IInv == TypeOK /\ Bounded /\ InStep /\ OpenMeansStarted /\ MovesOnTheirWay

-----------------------------------------------------------------------------
(* Lemmas on the operators *)

\* A ply passes the turn.
LEMMA TurnPasses ==
  ASSUME NEW S, NEW h \in Seq(S), NEW m \in S
  PROVE  /\ SideToMove(h) \in Color
         /\ SideToMove(Append(h, m)) = Opposite(SideToMove(h))
         /\ SideToMove(Append(h, m)) # SideToMove(h)
<1>1. Len(h) \in Nat /\ Len(Append(h, m)) = Len(h) + 1
  OBVIOUS
<1>2. CASE Len(h) % 2 = 0
  <2>1. (Len(h) + 1) % 2 # 0
    BY <1>1, <1>2
  <2> QED
    BY <1>1, <1>2, <2>1 DEF SideToMove, Opposite, Color
<1>3. CASE Len(h) % 2 # 0
  <2>1. (Len(h) + 1) % 2 = 0
    BY <1>1, <1>3
  <2> QED
    BY <1>1, <1>3, <2>1 DEF SideToMove, Opposite, Color
<1> QED
  BY <1>2, <1>3

\* The two colours, and the two ends, swap.
LEMMA Swaps ==
  /\ \A c \in Color : Opposite(c) \in Color /\ Opposite(c) # c /\ Opposite(Opposite(c)) = c
  /\ \A p \in Peer : Other(p) \in Peer /\ Other(p) # p /\ Other(Other(p)) = p
  /\ \A p, q \in Peer : q = p \/ q = Other(p)
BY DEF Color, Opposite, Peer, Other

\* The rules give a board no longer than the bound a result the program knows.
LEMMA ResultType ==
  ASSUME NEW h \in Seq(Moves), Len(h) <= MaxPlies
  PROVE  Result(h) \in BoardResult \cup {"NONE"}
<1>1. Len(h) \in 0..MaxPlies
  BY BoundsAssumption
<1>2. h \in [1..Len(h) -> Moves]
  OBVIOUS
<1> QED
  BY <1>1, <1>2, ResultAssumption

\* A move leaves a result of the game, or none, in outcome.
LEMMA OutcomeAfterType ==
  ASSUME NEW h \in Seq(Moves), Len(h) <= MaxPlies, NEW old \in Outcome
  PROVE  OutcomeAfter(h, old) \in Outcome
BY ResultType DEF OutcomeAfter, Outcome

\* Packets are messages.
LEMMA MsgTypes ==
  /\ \A t \in BareType : Bare(t) \in Msg /\ Bare(t).type = t /\ t # "MOVE"
  /\ \A m \in Moves : /\ MoveMsg(m) \in Msg
                      /\ MoveMsg(m).type = "MOVE"
                      /\ MoveMsg(m).move = m
  /\ \A ck \in Clock : SyncMsg(ck) \in Msg /\ SyncMsg(ck).type = "TIME_SYNC"
BY DEF Bare, MoveMsg, SyncMsg, Msg, BareType

\* What a received packet carries.
LEMMA Payloads ==
  ASSUME NEW msg \in Msg
  PROVE  /\ msg.type = "MOVE" => msg.move \in Moves
         /\ msg.type = "TIME_SYNC" => msg.clock \in Clock
BY DEF Msg, BareType

\* A write changes at most the end of the reader's queue.
LEMMA SentBox ==
  ASSUME NEW box \in [Peer -> Seq(Msg)], NEW p \in Peer, NEW msg \in Msg
  PROVE  /\ Sent(box, p, msg) \in [Peer -> Seq(Msg)]
         /\ Sent(box, p, msg)[p] \in {box[p], Append(box[p], msg)}
         /\ \A q \in Peer : q # p => Sent(box, p, msg)[q] = box[q]
BY DEF Sent

NoMove(s) == \A i \in 1..Len(s) : s[i].type # "MOVE"

\* How the queue of a program evolves without disturbing Carries.
LEMMA CarriesQueue ==
  ASSUME NEW s \in Seq(Msg), NEW h, NEW g, NEW c, Carries(s, h, g, c)
  PROVE  /\ Carries(<<>>, h, g, c)
         /\ s # <<>> => Carries(Tail(s), h, g, c)
         /\ \A msg \in Msg : msg.type # "MOVE" => Carries(Append(s, msg), h, g, c)
<1>1. Carries(<<>>, h, g, c)
  BY DEF Carries
<1>2. ASSUME s # <<>>
      PROVE  Carries(Tail(s), h, g, c)
  <2>1. Len(s) \in Nat \ {0} /\ Len(Tail(s)) = Len(s) - 1
    BY <1>2
  <2>2. \A i \in 1..Len(Tail(s)) : i + 1 \in 1..Len(s) /\ Tail(s)[i] = s[i + 1]
    BY <1>2, <2>1
  <2>3. SUFFICES ASSUME NEW i \in 1..Len(Tail(s)), Tail(s)[i].type = "MOVE"
                 PROVE  /\ g = Append(h, Tail(s)[i].move)
                        /\ SideToMove(h) = c
                        /\ Legal(h, Tail(s)[i].move)
                        /\ \A j \in 1..Len(Tail(s)) :
                              Tail(s)[j].type = "MOVE" => j = i
    BY DEF Carries
  <2>4. i + 1 \in 1..Len(s) /\ Tail(s)[i] = s[i + 1]
    BY <2>2
  <2>5. ASSUME NEW j \in 1..Len(Tail(s)), Tail(s)[j].type = "MOVE"
        PROVE  j = i
    <3>1. j + 1 \in 1..Len(s) /\ Tail(s)[j] = s[j + 1]
      BY <2>2
    <3>2. j + 1 = i + 1
      BY <2>3, <2>4, <2>5, <3>1 DEF Carries
    <3> QED
      BY <3>2
  <2> QED
    BY <2>3, <2>4, <2>5 DEF Carries
<1>3. ASSUME NEW msg \in Msg, msg.type # "MOVE"
      PROVE  Carries(Append(s, msg), h, g, c)
  BY <1>3 DEF Carries
<1> QED
  BY <1>1, <1>2, <1>3

\* A queue without a MOVE carries anything, and stays so.
LEMMA NoMoveQueue ==
  ASSUME NEW s \in Seq(Msg), NoMove(s)
  PROVE  /\ \A h, g, c : Carries(s, h, g, c)
         /\ \A msg \in Msg : msg.type # "MOVE" => NoMove(Append(s, msg))
BY DEF Carries, NoMove

\* Writing the one MOVE.
LEMMA CarriesNewMove ==
  ASSUME NEW s \in Seq(Msg), NoMove(s), NEW h, NEW m \in Moves, Legal(h, m)
  PROVE  Carries(Append(s, MoveMsg(m)), h, Append(h, m), SideToMove(h))
<1>1. MoveMsg(m) \in Msg /\ MoveMsg(m).type = "MOVE" /\ MoveMsg(m).move = m
  BY MsgTypes
<1> QED
  BY <1>1 DEF Carries, NoMove

\* Reading the one MOVE.
LEMMA CarriesHead ==
  ASSUME NEW s \in Seq(Msg), NEW h, NEW g, NEW c, Carries(s, h, g, c),
         s # <<>>, Head(s).type = "MOVE"
  PROVE  /\ g = Append(h, Head(s).move)
         /\ SideToMove(h) = c
         /\ Legal(h, Head(s).move)
         /\ NoMove(Tail(s))
<1>1. 1 \in 1..Len(s) /\ Head(s) = s[1]
  OBVIOUS
<1>2. \A i \in 1..Len(Tail(s)) : i + 1 \in 1..Len(s) /\ Tail(s)[i] = s[i + 1]
  OBVIOUS
<1>3. ASSUME NEW i \in 1..Len(Tail(s)), Tail(s)[i].type = "MOVE"
      PROVE  FALSE
  <2>1. i + 1 = 1
    BY <1>1, <1>2, <1>3 DEF Carries
  <2> QED
    BY <2>1
<1> QED
  BY <1>1, <1>3 DEF Carries, NoMove

-----------------------------------------------------------------------------
(* The parts of a step *)

\* Deducting the mover's time leaves clocks between 0 and the time control.
LEMMA DeductedType ==
  ASSUME TypeOK, NEW p \in Peer, NEW c \in Color, NEW ck \in Deducted(p, c)
  PROVE  ck \in Clock
<1>1. clock[p] \in Clock
  BY DEF TypeOK
<1>2. ASSUME NEW left \in 0..clock[p][c]
      PROVE  [clock[p] EXCEPT ![c] = left] \in Clock
  BY <1>1, BoundsAssumption DEF Clock
<1> QED
  BY <1>1, <1>2 DEF Deducted

\* A send that may find the connection broken.
LEMMA SendStep ==
  ASSUME TypeOK, OpenMeansStarted, UNCHANGED link,
         NEW p \in Peer, NEW box \in [Peer -> Seq(Msg)], NEW over \in BOOLEAN,
         conn[p],
         link = "down" => box = inbox,
         box[p] = inbox[p],
         SendOrDisconnect(p, box, over)
  PROVE  /\ inbox' \in [Peer -> Seq(Msg)]
         /\ conn' \in [Peer -> BOOLEAN] /\ started' \in [Peer -> BOOLEAN]
         /\ OpenMeansStarted'
         /\ inbox'[p] \in {inbox[p], <<>>}
         /\ inbox'[Other(p)] \in {inbox[Other(p)], box[Other(p)]}
<1>1. CASE inbox' = box /\ UNCHANGED <<conn, started>>
  BY <1>1 DEF OpenMeansStarted, TypeOK
<1>2. CASE link = "down" /\ HandlePeerDisconnect(p, over)
  <2>1. /\ inbox' \in [Peer -> Seq(Msg)]
        /\ conn' \in [Peer -> BOOLEAN] /\ started' \in [Peer -> BOOLEAN]
    BY <1>2 DEF HandlePeerDisconnect, TypeOK
  <2>2. OpenMeansStarted'
    BY <1>2 DEF HandlePeerDisconnect, TypeOK, OpenMeansStarted
  <2>3. inbox'[p] = <<>> /\ inbox'[Other(p)] = inbox[Other(p)]
    BY <1>2, Swaps DEF HandlePeerDisconnect, TypeOK
  <2> QED
    BY <2>1, <2>2, <2>3
<1> QED
  BY <1>1, <1>2 DEF SendOrDisconnect

\* What a queue may become in a step that writes or reads no MOVE.
QuietQueue(s, t) ==
  \/ t = s
  \/ t = <<>>
  \/ s # <<>> /\ t = Tail(s)
  \/ \E msg \in Msg : msg.type # "MOVE" /\ t = Append(s, msg)

\* A step that leaves the boards alone and writes no MOVE.
LEMMA QuietStep ==
  ASSUME IInv, UNCHANGED <<color, hist>>,
         \A q \in Peer : QuietQueue(inbox[q], inbox'[q])
  PROVE  Bounded' /\ InStep' /\ MovesOnTheirWay'
<1>1. Bounded' /\ InStep'
  BY DEF IInv, Bounded, InStep, Ahead
<1>2. ASSUME NEW q \in Peer
      PROVE  Carries(inbox'[q], hist[q], hist[Other(q)], color[Other(q)])
  <2>1. inbox[q] \in Seq(Msg)
    BY DEF IInv, TypeOK
  <2>2. Carries(inbox[q], hist[q], hist[Other(q)], color[Other(q)])
    BY DEF IInv, MovesOnTheirWay
  <2>3. QuietQueue(inbox[q], inbox'[q])
    OBVIOUS
  <2> HIDE DEF Carries
  <2> QED
    BY <2>1, <2>2, <2>3, CarriesQueue DEF QuietQueue
<1> QED
  BY <1>1, <1>2 DEF MovesOnTheirWay

\* A send of one packet other than a MOVE, the boards untouched.
LEMMA QuietSend ==
  ASSUME IInv, UNCHANGED <<color, hist, link>>,
         NEW p \in Peer, conn[p], NEW msg \in Msg, msg.type # "MOVE",
         NEW over \in BOOLEAN,
         SendOrDisconnect(p, Sent(inbox, Other(p), msg), over)
  PROVE  /\ inbox' \in [Peer -> Seq(Msg)]
         /\ conn' \in [Peer -> BOOLEAN] /\ started' \in [Peer -> BOOLEAN]
         /\ OpenMeansStarted' /\ Bounded' /\ InStep' /\ MovesOnTheirWay'
<1> DEFINE box == Sent(inbox, Other(p), msg)
<1>1. inbox \in [Peer -> Seq(Msg)] /\ Other(p) \in Peer /\ Other(p) # p
  BY Swaps DEF IInv, TypeOK
<1>2. /\ box \in [Peer -> Seq(Msg)]
      /\ box[Other(p)] \in {inbox[Other(p)], Append(inbox[Other(p)], msg)}
      /\ box[p] = inbox[p]
  BY <1>1, SentBox
<1>3. link = "down" => box = inbox
  BY DEF Sent
<1> HIDE DEF box
<1>4. /\ inbox' \in [Peer -> Seq(Msg)]
      /\ conn' \in [Peer -> BOOLEAN] /\ started' \in [Peer -> BOOLEAN]
      /\ OpenMeansStarted'
      /\ inbox'[p] \in {inbox[p], <<>>}
      /\ inbox'[Other(p)] \in {inbox[Other(p)], box[Other(p)]}
  BY <1>2, <1>3, SendStep DEF IInv, box
<1>5. \A q \in Peer : QuietQueue(inbox[q], inbox'[q])
  BY <1>2, <1>4, Swaps DEF QuietQueue
<1> QED
  BY <1>4, <1>5, QuietStep

\* A player whose turn it is shows the same board as the opponent, and no MOVE
\* is on its way to either.
LEMMA MoverIsLevel ==
  ASSUME IInv, NEW p \in Peer, SideToMove(hist[p]) = color[p]
  PROVE  /\ hist[p] = hist[Other(p)]
         /\ NoMove(inbox[p]) /\ NoMove(inbox[Other(p)])
<1> DEFINE q == Other(p)
<1>1. q \in Peer /\ q # p /\ Other(q) = p
  BY Swaps
<1>2. color[p] # color[q]
  BY <1>1, Swaps DEF IInv, TypeOK, Other, Peer
<1>3. hist[p] \in Seq(Moves) /\ hist[q] \in Seq(Moves)
  BY <1>1 DEF IInv, TypeOK
<1>4. ~Ahead(q, p)
  BY <1>2 DEF Ahead
<1>5. ~Ahead(p, q)
  <2>1. SUFFICES ASSUME NEW m \in Moves, hist[p] = Append(hist[q], m),
                        SideToMove(hist[q]) = color[p]
                 PROVE  FALSE
    BY DEF Ahead
  <2> QED
    BY <1>3, <2>1, TurnPasses
<1>6. hist[p] = hist[q]
  BY <1>1, <1>4, <1>5 DEF IInv, InStep, Other, Peer
<1>7. ASSUME NEW r \in Peer
      PROVE  NoMove(inbox[r])
  <2>1. hist[Other(r)] = hist[r]
    BY <1>6, Swaps
  <2>2. SUFFICES ASSUME NEW i \in 1..Len(inbox[r]), inbox[r][i].type = "MOVE"
                 PROVE  FALSE
    BY DEF NoMove
  <2>3. inbox[r][i] \in Msg
    BY DEF IInv, TypeOK
  <2>4. hist[r] = Append(hist[r], inbox[r][i].move)
    BY <2>1, <2>2 DEF IInv, MovesOnTheirWay, Carries
  <2>5. inbox[r][i].move \in Moves /\ hist[r] \in Seq(Moves)
    BY <2>2, <2>3, Payloads DEF IInv, TypeOK
  <2> QED
    BY <2>4, <2>5, TurnPasses
<1> QED
  BY <1>1, <1>6, <1>7

-----------------------------------------------------------------------------
(* The invariant holds initially, and every action preserves it *)

\* START/ACK establishes the invariant: empty boards, nothing sent.
LEMMA InitInv == Init => IInv
<1> SUFFICES ASSUME Init PROVE IInv
  OBVIOUS
<1>1. TypeOK
  <2>1. color["SERVER"] = Opposite(color["CLIENT"]) /\ color \in [Peer -> Color]
    BY DEF Init
  <2>2. "NONE" \in Outcome /\ TimeControl \in 0..TimeControl
    BY BoundsAssumption DEF Outcome
  <2>3. clock \in [Peer -> Clock]
    BY <2>2 DEF Init, Clock
  <2> QED
    BY <2>1, <2>2, <2>3 DEF Init, TypeOK
<1>2. Bounded
  BY BoundsAssumption DEF Init, Bounded
<1>3. InStep
  BY DEF Init, InStep, Peer
<1>4. OpenMeansStarted
  BY DEF Init, OpenMeansStarted
<1>5. MovesOnTheirWay
  BY DEF Init, MovesOnTheirWay, Carries
<1> QED
  BY <1>1, <1>2, <1>3, <1>4, <1>5 DEF IInv

\* A move played on the board (chess_input_try_send_local_move) keeps the
\* invariant: the mover was level with the other, and is now one move ahead.
LEMMA MoveStep ==
  ASSUME IInv, NEW p \in Peer, NEW m \in Moves, TrySendLocalMove(p, m)
  PROVE  IInv'
<1> DEFINE q == Other(p)
           h == Append(hist[p], m)
           o == OutcomeAfter(h, outcome[p])
           box1 == IF received[p] THEN Sent(inbox, q, Bare("DRAW_DECLINE"))
                                  ELSE inbox
           box2 == Sent(box1, q, MoveMsg(m))
<1>1. q \in Peer /\ q # p /\ Other(q) = p /\ \A r \in Peer : r = p \/ r = q
  BY Swaps
<1>2. /\ conn[p] /\ Len(hist[p]) < MaxPlies
      /\ SideToMove(hist[p]) = color[p] /\ Legal(hist[p], m)
      /\ hist' = [hist EXCEPT ![p] = h]
      /\ outcome' = [outcome EXCEPT ![p] = o]
      /\ received' = [received EXCEPT ![p] = FALSE]
      /\ UNCHANGED <<color, pending, ticking, link>>
  BY DEF TrySendLocalMove, InPlay, CanMove
<1>3. PICK ck \in Deducted(p, color[p]) :
         /\ clock' = [clock EXCEPT ![p] = ck]
         /\ SendOrDisconnect(p,
              IF p = "SERVER" /\ ticking THEN Sent(box2, q, SyncMsg(ck)) ELSE box2,
              o # "NONE")
  BY DEF TrySendLocalMove
<1> DEFINE box == IF p = "SERVER" /\ ticking THEN Sent(box2, q, SyncMsg(ck)) ELSE box2
<1>4. hist[p] \in Seq(Moves) /\ h \in Seq(Moves) /\ Len(h) = Len(hist[p]) + 1
  BY DEF IInv, TypeOK
<1>5. ck \in Clock
  BY <1>3, DeductedType DEF IInv, TypeOK
<1>6. o \in Outcome
  <2>1. Len(h) <= MaxPlies /\ outcome[p] \in Outcome
    BY <1>2, <1>4, BoundsAssumption DEF IInv, TypeOK
  <2> QED
    BY <1>4, <2>1, OutcomeAfterType
<1>7. hist[p] = hist[q] /\ NoMove(inbox[p]) /\ NoMove(inbox[q])
  BY <1>2, MoverIsLevel
<1>8. inbox \in [Peer -> Seq(Msg)]
  BY DEF IInv, TypeOK
<1>9. /\ box1 \in [Peer -> Seq(Msg)] /\ box1[p] = inbox[p] /\ NoMove(box1[q])
      /\ link = "down" => box1 = inbox
  <2>1. /\ Bare("DRAW_DECLINE") \in Msg
        /\ Bare("DRAW_DECLINE").type # "MOVE"
    BY MsgTypes DEF BareType
  <2>2. Sent(inbox, q, Bare("DRAW_DECLINE"))[q]
          \in {inbox[q], Append(inbox[q], Bare("DRAW_DECLINE"))}
    BY <1>1, <1>8, <2>1, SentBox
  <2>3. NoMove(Sent(inbox, q, Bare("DRAW_DECLINE"))[q])
    BY <1>1, <1>7, <1>8, <2>1, <2>2, NoMoveQueue
  <2>4. /\ Sent(inbox, q, Bare("DRAW_DECLINE")) \in [Peer -> Seq(Msg)]
        /\ Sent(inbox, q, Bare("DRAW_DECLINE"))[p] = inbox[p]
    BY <1>1, <1>8, <2>1, SentBox
  <2>5. link = "down" => Sent(inbox, q, Bare("DRAW_DECLINE")) = inbox
    BY DEF Sent
  <2> QED
    BY <1>7, <1>8, <2>3, <2>4, <2>5
<1>10. /\ box2 \in [Peer -> Seq(Msg)] /\ box2[p] = inbox[p]
       /\ Carries(box2[q], hist[q], h, color[p])
       /\ link = "down" => box2 = inbox
  <2> HIDE DEF box1
  <2>1. MoveMsg(m) \in Msg
    BY MsgTypes
  <2>2. /\ box2 \in [Peer -> Seq(Msg)] /\ box2[p] = inbox[p]
        /\ box2[q] \in {box1[q], Append(box1[q], MoveMsg(m))}
    <3>1. box1 \in [Peer -> Seq(Msg)] /\ box1[p] = inbox[p] /\ q \in Peer /\ p # q
      BY <1>1, <1>9
    <3>2. box2 \in [Peer -> Seq(Msg)] /\ box2[p] = box1[p]
      BY <2>1, <3>1, SentBox
    <3>3. box2[q] \in {box1[q], Append(box1[q], MoveMsg(m))}
      BY <2>1, <3>1, SentBox
    <3> QED
      BY <3>1, <3>2, <3>3
  <2>3. box1[q] \in Seq(Msg)
    BY <1>1, <1>9
  <2>4. Carries(box1[q], hist[q], h, color[p])
    BY <1>9, <2>3, NoMoveQueue
  <2>5. Carries(Append(box1[q], MoveMsg(m)), hist[q], h, color[p])
    BY <1>2, <1>7, <1>9, <2>3, CarriesNewMove
  <2>6. link = "down" => box2 = inbox
    BY <1>9 DEF Sent
  <2> QED
    BY <2>2, <2>4, <2>5, <2>6
<1>11. /\ box \in [Peer -> Seq(Msg)] /\ box[p] = inbox[p]
       /\ Carries(box[q], hist[q], h, color[p])
       /\ link = "down" => box = inbox
  <2> HIDE DEF box2
  <2>1. SyncMsg(ck) \in Msg /\ SyncMsg(ck).type # "MOVE"
    BY <1>5, MsgTypes
  <2>2. /\ Sent(box2, q, SyncMsg(ck)) \in [Peer -> Seq(Msg)]
        /\ Sent(box2, q, SyncMsg(ck))[p] = inbox[p]
        /\ Sent(box2, q, SyncMsg(ck))[q] \in {box2[q], Append(box2[q], SyncMsg(ck))}
    BY <1>1, <1>10, <2>1, SentBox
  <2>3. Carries(Append(box2[q], SyncMsg(ck)), hist[q], h, color[p])
    BY <1>1, <1>10, <2>1, CarriesQueue
  <2>4. link = "down" => Sent(box2, q, SyncMsg(ck)) = inbox
    BY <1>10 DEF Sent
  <2> QED
    BY <1>10, <2>2, <2>3, <2>4
<1> HIDE DEF box1, box2, box, o
<1>12. /\ inbox' \in [Peer -> Seq(Msg)]
       /\ conn' \in [Peer -> BOOLEAN] /\ started' \in [Peer -> BOOLEAN]
       /\ OpenMeansStarted'
       /\ inbox'[p] \in {inbox[p], <<>>}
       /\ inbox'[q] \in {inbox[q], box[q]}
  <2>1. SendOrDisconnect(p, box, o # "NONE") /\ (o # "NONE") \in BOOLEAN
    BY <1>3 DEF box
  <2> QED
    BY <1>2, <1>11, <2>1, SendStep DEF IInv
<1>13. hist'[p] = h /\ hist'[q] = hist[q]
  BY <1>1, <1>2 DEF IInv, TypeOK
<1>14. TypeOK'
  <2>1. hist' \in [Peer -> Seq(Moves)]
    BY <1>2, <1>4 DEF IInv, TypeOK
  <2>2. outcome' \in [Peer -> Outcome] /\ clock' \in [Peer -> Clock]
    BY <1>2, <1>3, <1>5, <1>6 DEF IInv, TypeOK
  <2> QED
    BY <1>2, <1>12, <2>1, <2>2 DEF IInv, TypeOK
<1>15. Bounded'
  BY <1>1, <1>2, <1>4, <1>13, BoundsAssumption DEF IInv, Bounded
<1>16. InStep'
  <2>1. Ahead(p, q)'
    BY <1>2, <1>7, <1>13 DEF Ahead
  <2> QED
    BY <1>1, <2>1 DEF InStep, Peer, Other
<1>17. MovesOnTheirWay'
  <2>1. Carries(inbox'[p], hist'[p], hist'[q], color'[q])
    <3>1. inbox'[p] \in Seq(Msg)
      BY <1>12
    <3>2. NoMove(<<>>)
      BY DEF NoMove
    <3>3. NoMove(inbox'[p])
      BY <1>7, <1>12, <3>2
    <3> QED
      BY <3>1, <3>3, NoMoveQueue
  <2>2. Carries(inbox'[q], hist'[q], hist'[p], color'[p])
    <3>1. Carries(inbox[q], hist[q], h, color[p])
      BY <1>1, <1>7, <1>8, NoMoveQueue
    <3>2. Carries(inbox'[q], hist[q], h, color[p])
      BY <1>11, <1>12, <3>1
    <3> QED
      BY <1>2, <1>13, <3>2
  <2> QED
    BY <1>1, <2>1, <2>2 DEF MovesOnTheirWay
<1> QED
  BY <1>12, <1>14, <1>15, <1>16, <1>17 DEF IInv

\* The MOVE at the head of a queue is always acceptable, and there is none on
\* its way to the other side.
LEMMA MoveReceived ==
  ASSUME IInv, NEW p \in Peer, Receive(p, "MOVE")
  PROVE  LET m == Head(inbox[p]).move IN
         /\ m \in Moves
         /\ Acceptable(p, m)
         /\ hist[Other(p)] = Append(hist[p], m)
         /\ NoMove(Tail(inbox[p])) /\ NoMove(inbox[Other(p)])
<1> DEFINE q == Other(p)
           m == Head(inbox[p]).move
<1>1. q \in Peer /\ q # p /\ Other(q) = p
  BY Swaps
<1>2. inbox[p] \in Seq(Msg) /\ inbox[q] \in Seq(Msg) /\ inbox[p] # <<>>
  BY <1>1 DEF IInv, TypeOK, Receive
<1>3. Head(inbox[p]) \in Msg /\ Head(inbox[p]).type = "MOVE"
  BY <1>2 DEF Receive
<1>4. m \in Moves
  BY <1>3, Payloads
<1>5. Carries(inbox[p], hist[p], hist[q], color[q])
  BY DEF IInv, MovesOnTheirWay
<1>6. /\ hist[q] = Append(hist[p], m) /\ SideToMove(hist[p]) = color[q]
      /\ Legal(hist[p], m) /\ NoMove(Tail(inbox[p]))
  BY <1>2, <1>3, <1>5, CarriesHead
<1>7. Acceptable(p, m)
  <2>1. color[q] = Opposite(color[p])
    BY <1>1, Swaps DEF IInv, TypeOK, Other, Peer
  <2>2. started[p]
    BY DEF IInv, OpenMeansStarted, Receive
  <2> QED
    BY <1>6, <2>1, <2>2 DEF Acceptable
<1>8. ASSUME NEW i \in 1..Len(inbox[q]), inbox[q][i].type = "MOVE"
      PROVE  FALSE
  <2>1. hist[p] = Append(hist[q], inbox[q][i].move)
    BY <1>1, <1>8 DEF IInv, MovesOnTheirWay, Carries
  <2>2. hist[p] \in Seq(Moves) /\ hist[q] \in Seq(Moves)
    BY <1>1 DEF IInv, TypeOK
  <2> QED
    BY <1>6, <2>1, <2>2
<1> QED
  BY <1>4, <1>6, <1>7, <1>8 DEF NoMove

\* A MOVE read (chess_pkt_handle_move) keeps the invariant: it is applied, and
\* the two boards are level again.
LEMMA HandleMoveStep ==
  ASSUME IInv, NEW p \in Peer, HandleMove(p)
  PROVE  IInv'
<1> DEFINE q == Other(p)
           m == Head(inbox[p]).move
           h == Append(hist[p], m)
<1>1. q \in Peer /\ q # p /\ Other(q) = p /\ \A r \in Peer : r = p \/ r = q
  BY Swaps
<1>2. Receive(p, "MOVE") /\ UNCHANGED <<color, pending, received, ticking,
                                       conn, started, link>>
  BY DEF HandleMove
<1>3. /\ m \in Moves /\ Acceptable(p, m) /\ hist[q] = h
      /\ NoMove(Tail(inbox[p])) /\ NoMove(inbox[q])
  BY <1>2, MoveReceived
<1>4. /\ hist' = [hist EXCEPT ![p] = h]
      /\ outcome' = [outcome EXCEPT ![p] = OutcomeAfter(h, @)]
  BY <1>3 DEF HandleMove
<1>5. PICK ck \in Deducted(p, Opposite(color[p])) :
        /\ clock' = [clock EXCEPT ![p] = ck]
        /\ inbox' = IF p = "SERVER" /\ ticking
                    THEN Sent(Consumed(p), Other(p), SyncMsg(ck))
                    ELSE Consumed(p)
  BY <1>3 DEF HandleMove
<1>6. ck \in Clock
  <2>1. Opposite(color[p]) \in Color
    BY Swaps DEF IInv, TypeOK
  <2> QED
    BY <1>5, <2>1, DeductedType DEF IInv
<1>7. /\ hist[p] \in Seq(Moves) /\ hist[q] \in Seq(Moves) /\ Len(hist[q]) <= MaxPlies
      /\ inbox \in [Peer -> Seq(Msg)] /\ inbox[p] # <<>> /\ conn[p]
  BY <1>1, <1>2 DEF IInv, TypeOK, Bounded, Receive
<1>8. OutcomeAfter(h, outcome[p]) \in Outcome
  BY <1>3, <1>7, OutcomeAfterType DEF IInv, TypeOK
<1>9. /\ Consumed(p) \in [Peer -> Seq(Msg)]
      /\ Consumed(p)[p] = Tail(inbox[p]) /\ Consumed(p)[q] = inbox[q]
  BY <1>1, <1>7 DEF Consumed
<1>10. /\ inbox' \in [Peer -> Seq(Msg)]
       /\ inbox'[p] = Tail(inbox[p])
       /\ \/ inbox'[q] = inbox[q]
          \/ link = "up" /\ inbox'[q] = Append(inbox[q], SyncMsg(ck))
  <2> HIDE DEF Consumed
  <2>1. SyncMsg(ck) \in Msg
    BY <1>6, MsgTypes
  <2>2. /\ Sent(Consumed(p), q, SyncMsg(ck)) \in [Peer -> Seq(Msg)]
        /\ Sent(Consumed(p), q, SyncMsg(ck))[p] = Tail(inbox[p])
    <3>1. Sent(Consumed(p), q, SyncMsg(ck)) \in [Peer -> Seq(Msg)]
      BY <1>1, <1>9, <2>1, SentBox
    <3>2. Sent(Consumed(p), q, SyncMsg(ck))[p] = Consumed(p)[p]
      BY <1>1, <1>9 DEF Sent
    <3> QED
      BY <1>9, <3>1, <3>2
  <2>3. \/ Sent(Consumed(p), q, SyncMsg(ck))[q] = inbox[q]
        \/ /\ link = "up"
           /\ Sent(Consumed(p), q, SyncMsg(ck))[q]
                = Append(inbox[q], SyncMsg(ck))
    BY <1>1, <1>9 DEF Sent
  <2> QED
    BY <1>5, <1>9, <2>2, <2>3
<1>11. NoMove(inbox'[p]) /\ NoMove(inbox'[q])
  <2>1. SyncMsg(ck) \in Msg /\ SyncMsg(ck).type # "MOVE"
    BY <1>6, MsgTypes
  <2>2. NoMove(Append(inbox[q], SyncMsg(ck)))
    BY <1>1, <1>3, <1>7, <2>1, NoMoveQueue
  <2> QED
    BY <1>3, <1>10, <2>2
<1>12. hist'[p] = hist[q] /\ hist'[q] = hist[q]
  BY <1>1, <1>3, <1>4 DEF IInv, TypeOK
<1>13. TypeOK'
  <2>1. hist' \in [Peer -> Seq(Moves)]
    BY <1>3, <1>4, <1>7 DEF IInv, TypeOK
  <2>2. outcome' \in [Peer -> Outcome] /\ clock' \in [Peer -> Clock]
    BY <1>4, <1>5, <1>6, <1>8 DEF IInv, TypeOK
  <2> QED
    BY <1>2, <1>10, <2>1, <2>2 DEF IInv, TypeOK
<1>14. Bounded' /\ InStep'
  BY <1>1, <1>7, <1>12 DEF Bounded, InStep, Other, Peer
<1>15. OpenMeansStarted'
  BY <1>1, <1>2, <1>7, <1>10 DEF IInv, OpenMeansStarted
<1>16. MovesOnTheirWay'
  <2>1. \A r \in Peer : NoMove(inbox'[r]) /\ inbox'[r] \in Seq(Msg)
    BY <1>1, <1>10, <1>11
  <2> QED
    BY <2>1, NoMoveQueue DEF MovesOnTheirWay
<1> QED
  BY <1>13, <1>14, <1>15, <1>16 DEF IInv

\* A handler that only reads its packet and leaves the boards alone.
LEMMA QuietRead ==
  ASSUME IInv, NEW p \in Peer, NEW t, Receive(p, t), inbox' = Consumed(p),
         UNCHANGED <<color, hist, conn, started, link>>
  PROVE  /\ inbox' \in [Peer -> Seq(Msg)]
         /\ OpenMeansStarted' /\ Bounded' /\ InStep' /\ MovesOnTheirWay'
<1>1. inbox \in [Peer -> Seq(Msg)] /\ inbox[p] # <<>> /\ conn[p]
  BY DEF IInv, TypeOK, Receive
<1>2. /\ inbox' \in [Peer -> Seq(Msg)]
      /\ inbox'[p] = Tail(inbox[p])
      /\ \A q \in Peer \ {p} : inbox'[q] = inbox[q]
  BY <1>1 DEF Consumed
<1>3. OpenMeansStarted'
  BY <1>1, <1>2 DEF IInv, OpenMeansStarted
<1>4. \A q \in Peer : QuietQueue(inbox[q], inbox'[q])
  BY <1>1, <1>2 DEF QuietQueue
<1> QED
  BY <1>2, <1>3, <1>4, QuietStep

\* The results players and clocks decide are results.
LEMMA OutcomeNames ==
  /\ \A c \in Color : Resigned(c) \in Outcome /\ TimedOut(c) \in Outcome
  /\ "DRAW_AGREED" \in Outcome
BY DEF Color, Resigned, TimedOut, Outcome

\* Every input of a player keeps the invariant.
LEMMA PlayerInputStep ==
  ASSUME IInv, NEW p \in Peer, PlayerInput(p)
  PROVE  IInv'
<1>1. ASSUME NEW m \in Moves, TrySendLocalMove(p, m)
      PROVE  IInv'
  BY <1>1, MoveStep
<1>2. CASE Resign(p)
  <2>1. Bare("RESIGN") \in Msg /\ Bare("RESIGN").type # "MOVE"
    BY MsgTypes DEF BareType
  <2>2. /\ inbox' \in [Peer -> Seq(Msg)]
        /\ conn' \in [Peer -> BOOLEAN] /\ started' \in [Peer -> BOOLEAN]
        /\ OpenMeansStarted' /\ Bounded' /\ InStep' /\ MovesOnTheirWay'
    BY <1>2, <2>1, QuietSend DEF Resign, InPlay
  <2>3. outcome' \in [Peer -> Outcome]
    BY <1>2, OutcomeNames DEF Resign, IInv, TypeOK
  <2> QED
    BY <1>2, <2>2, <2>3 DEF Resign, IInv, TypeOK
<1>3. CASE OfferDraw(p)
  <2>1. Bare("DRAW_OFFER") \in Msg /\ Bare("DRAW_OFFER").type # "MOVE"
    BY MsgTypes DEF BareType
  <2>2. /\ inbox' \in [Peer -> Seq(Msg)]
        /\ conn' \in [Peer -> BOOLEAN] /\ started' \in [Peer -> BOOLEAN]
        /\ OpenMeansStarted' /\ Bounded' /\ InStep' /\ MovesOnTheirWay'
    BY <1>3, <2>1, QuietSend DEF OfferDraw, InPlay
  <2> QED
    BY <1>3, <2>2 DEF OfferDraw, IInv, TypeOK
<1>4. CASE AcceptDraw(p)
  <2>1. Bare("DRAW_ACCEPT") \in Msg /\ Bare("DRAW_ACCEPT").type # "MOVE"
    BY MsgTypes DEF BareType
  <2>2. /\ inbox' \in [Peer -> Seq(Msg)]
        /\ conn' \in [Peer -> BOOLEAN] /\ started' \in [Peer -> BOOLEAN]
        /\ OpenMeansStarted' /\ Bounded' /\ InStep' /\ MovesOnTheirWay'
    BY <1>4, <2>1, QuietSend DEF AcceptDraw, InPlay
  <2>3. outcome' \in [Peer -> Outcome] /\ received' \in [Peer -> BOOLEAN]
    BY <1>4, OutcomeNames DEF AcceptDraw, IInv, TypeOK
  <2> QED
    BY <1>4, <2>2, <2>3 DEF AcceptDraw, IInv, TypeOK
<1>5. CASE DeclineDraw(p)
  <2>1. Bare("DRAW_DECLINE") \in Msg /\ Bare("DRAW_DECLINE").type # "MOVE"
    BY MsgTypes DEF BareType
  <2>2. /\ inbox' \in [Peer -> Seq(Msg)]
        /\ conn' \in [Peer -> BOOLEAN] /\ started' \in [Peer -> BOOLEAN]
        /\ OpenMeansStarted' /\ Bounded' /\ InStep' /\ MovesOnTheirWay'
    BY <1>5, <2>1, QuietSend DEF DeclineDraw, InPlay
  <2> QED
    BY <1>5, <2>2 DEF DeclineDraw, IInv, TypeOK
<1> QED
  BY <1>1, <1>2, <1>3, <1>4, <1>5 DEF PlayerInput

\* Every packet handler, and a failed read, keeps the invariant.
LEMMA NetTickStep ==
  ASSUME IInv, NEW p \in Peer, NetTick(p)
  PROVE  IInv'
<1>1. CASE HandleMove(p)
  BY <1>1, HandleMoveStep
<1>2. CASE HandleResign(p)
  <2>1. outcome' \in [Peer -> Outcome]
    <3>1. Opposite(color[p]) \in Color
      BY Swaps DEF IInv, TypeOK
    <3> QED
      BY <1>2, <3>1, OutcomeNames DEF HandleResign, IInv, TypeOK
  <2>2. /\ inbox' \in [Peer -> Seq(Msg)]
        /\ OpenMeansStarted' /\ Bounded' /\ InStep' /\ MovesOnTheirWay'
    BY <1>2, QuietRead DEF HandleResign
  <2> QED
    BY <1>2, <2>1, <2>2 DEF HandleResign, IInv, TypeOK
<1>3. CASE HandleDrawOffer(p)
  <2>1. /\ inbox' \in [Peer -> Seq(Msg)]
        /\ OpenMeansStarted' /\ Bounded' /\ InStep' /\ MovesOnTheirWay'
    BY <1>3, QuietRead DEF HandleDrawOffer
  <2> QED
    BY <1>3, <2>1 DEF HandleDrawOffer, IInv, TypeOK
<1>4. CASE HandleDrawAccept(p)
  <2>1. /\ inbox' \in [Peer -> Seq(Msg)]
        /\ OpenMeansStarted' /\ Bounded' /\ InStep' /\ MovesOnTheirWay'
    BY <1>4, QuietRead DEF HandleDrawAccept
  <2>2. outcome' \in [Peer -> Outcome]
    BY <1>4, OutcomeNames DEF HandleDrawAccept, IInv, TypeOK
  <2>3. pending' \in [Peer -> BOOLEAN]
    BY <1>4 DEF HandleDrawAccept, IInv, TypeOK
  <2> QED
    BY <1>4, <2>1, <2>2, <2>3 DEF HandleDrawAccept, IInv, TypeOK
<1>5. CASE HandleDrawDecline(p)
  <2>1. /\ inbox' \in [Peer -> Seq(Msg)]
        /\ OpenMeansStarted' /\ Bounded' /\ InStep' /\ MovesOnTheirWay'
    BY <1>5, QuietRead DEF HandleDrawDecline
  <2> QED
    BY <1>5, <2>1 DEF HandleDrawDecline, IInv, TypeOK
<1>6. CASE HandleTimeSync(p)
  <2>1. /\ inbox' \in [Peer -> Seq(Msg)]
        /\ OpenMeansStarted' /\ Bounded' /\ InStep' /\ MovesOnTheirWay'
    BY <1>6, QuietRead DEF HandleTimeSync
  <2>2. Head(inbox[p]) \in Msg /\ Head(inbox[p]).type = "TIME_SYNC"
    BY <1>6 DEF HandleTimeSync, Receive, IInv, TypeOK
  <2>3. Head(inbox[p]).clock \in Clock
    BY <2>2, Payloads
  <2>4. \A ck \in Clock, old \in Outcome : OutcomeAfterSync(ck, old) \in Outcome
    BY OutcomeNames DEF OutcomeAfterSync, Color
  <2>5. clock' \in [Peer -> Clock]
    BY <1>6, <2>3 DEF HandleTimeSync, IInv, TypeOK
  <2>6. outcome' \in [Peer -> Outcome]
    <3>1. outcome \in [Peer -> Outcome] /\ outcome[p] \in Outcome
      BY DEF IInv, TypeOK
    <3>2. OutcomeAfterSync(Head(inbox[p]).clock, outcome[p]) \in Outcome
      BY <2>3, <2>4, <3>1
    <3>3. \/ outcome' = outcome
          \/ outcome' = [outcome EXCEPT ![p] =
                            OutcomeAfterSync(Head(inbox[p]).clock, outcome[p])]
      BY <1>6 DEF HandleTimeSync
    <3> HIDE DEF OutcomeAfterSync
    <3> QED
      BY <3>1, <3>2, <3>3
  <2> QED
    BY <1>6, <2>1, <2>5, <2>6 DEF HandleTimeSync, IInv, TypeOK
<1>7. CASE ReceiveError(p)
  <2>1. /\ inbox' = [inbox EXCEPT ![p] = <<>>]
        /\ conn' = [conn EXCEPT ![p] = FALSE]
        /\ started' = [started EXCEPT ![p] = Ended(p)]
        /\ link = "down"
        /\ UNCHANGED <<color, hist, outcome, pending, received, clock, ticking,
                       link>>
    BY <1>7 DEF ReceiveError, HandlePeerDisconnect
  <2>2. TypeOK'
    BY <2>1 DEF IInv, TypeOK, Ended
  <2>3. OpenMeansStarted'
    BY <2>1 DEF IInv, TypeOK, OpenMeansStarted
  <2>4. \A q \in Peer : QuietQueue(inbox[q], inbox'[q])
    BY <2>1 DEF QuietQueue, IInv, TypeOK
  <2> QED
    BY <2>1, <2>2, <2>3, <2>4, QuietStep DEF IInv
<1> QED
  BY <1>1, <1>2, <1>3, <1>4, <1>5, <1>6, <1>7
  DEF NetTick, DispatchIncomingPacket

\* The server's clock check keeps the invariant.
LEMMA ClockTimeoutStep ==
  ASSUME IInv, ClockTimeout
  PROVE  IInv'
<1> DEFINE c  == SideToMove(hist["SERVER"])
           ck == [clock["SERVER"] EXCEPT ![c] = 0]
<1>1. "SERVER" \in Peer /\ "CLIENT" \in Peer /\ c \in Color
  BY DEF Peer, SideToMove, Color
<1>2. ck \in Clock
  BY <1>1, BoundsAssumption DEF IInv, TypeOK, Clock
<1>3. /\ clock' = [clock EXCEPT !["SERVER"] = ck]
      /\ ticking' = FALSE
      /\ outcome' = [outcome EXCEPT !["SERVER"] = TimedOut(c)]
      /\ inbox' = Sent(inbox, "CLIENT", SyncMsg(ck))
      /\ UNCHANGED <<color, hist, pending, received, conn, started, link>>
  BY DEF ClockTimeout
<1> HIDE DEF c, ck
<1>4. /\ inbox \in [Peer -> Seq(Msg)]
      /\ SyncMsg(ck) \in Msg /\ SyncMsg(ck).type # "MOVE"
  BY <1>2, MsgTypes DEF IInv, TypeOK
<1>5. /\ inbox' \in [Peer -> Seq(Msg)]
      /\ \A q \in Peer : QuietQueue(inbox[q], inbox'[q])
  BY <1>1, <1>3, <1>4 DEF Sent, QuietQueue
<1>6. TypeOK'
  <2>1. outcome' \in [Peer -> Outcome] /\ clock' \in [Peer -> Clock]
    BY <1>1, <1>2, <1>3, OutcomeNames DEF IInv, TypeOK
  <2> QED
    BY <1>3, <1>5, <2>1 DEF IInv, TypeOK
<1>7. OpenMeansStarted'
  BY <1>3, <1>4 DEF IInv, OpenMeansStarted, Sent
<1> QED
  BY <1>3, <1>5, <1>6, <1>7, QuietStep DEF IInv

\* The loss of the connection keeps the invariant.
LEMMA LinkBreakStep ==
  ASSUME IInv, LinkBreak
  PROVE  IInv'
<1>1. /\ link' = "down"
      /\ UNCHANGED <<color, hist, outcome, pending, received, clock, ticking,
                     inbox, conn, started>>
  BY DEF LinkBreak
<1>2. TypeOK'
  BY <1>1 DEF IInv, TypeOK
<1>3. OpenMeansStarted'
  BY <1>1 DEF IInv, OpenMeansStarted
<1>4. Bounded' /\ InStep' /\ MovesOnTheirWay'
  BY <1>1, QuietStep DEF QuietQueue
<1> QED
  BY <1>2, <1>3, <1>4 DEF IInv

\* The invariant is inductive.
LEMMA NextInv == IInv /\ [Next]_vars => IInv'
<1> SUFFICES ASSUME IInv, [Next]_vars PROVE IInv'
  OBVIOUS
<1>1. CASE UNCHANGED vars
  BY <1>1, QuietStep
  DEF vars, IInv, TypeOK, OpenMeansStarted, QuietQueue
<1>2. CASE Next
  BY <1>2, PlayerInputStep, NetTickStep, ClockTimeoutStep, LinkBreakStep
  DEF Next
<1> QED
  BY <1>1, <1>2

\* The inductive invariant holds of every game: the boards are in step, and
\* every MOVE on its way is the one the reader is waiting for.
THEOREM Invariance == Spec => []IInv
  BY InitInv, NextInv, PTL DEF Spec

-----------------------------------------------------------------------------
(* What the runs check, for every instance *)

\* The shape of the state: every queue holds packets of the protocol, every
\* outcome is one of ChessGameOutcome, no clock exceeds the time control.
THEOREM TypeCorrect == Spec => []TypeOK
<1>1. IInv => TypeOK
  BY DEF IInv
<1> QED
  BY <1>1, Invariance, PTL

\* The boards of the two programs never diverge (packet MOVE, both directions).
THEOREM BoardsStayInStep == Spec => []BoardsInStep
<1>1. IInv => BoardsInStep
  BY DEF IInv, BoardsInStep, MovesOnTheirWay, Carries
<1> QED
  BY <1>1, Invariance, PTL

\* handle_move never has a reason to ignore a MOVE.
THEOREM MovesAlwaysAccepted == Spec => []NoMoveRefused
<1>1. ASSUME IInv PROVE NoMoveRefused
  <2>1. SUFFICES ASSUME NEW p \in Peer, NEW i \in 1..Len(inbox[p]),
                        inbox[p][i].type = "MOVE"
                 PROVE  Acceptable(p, inbox[p][i].move)
    BY DEF NoMoveRefused
  <2>2. /\ SideToMove(hist[p]) = color[Other(p)]
        /\ Legal(hist[p], inbox[p][i].move)
    BY <1>1, <2>1 DEF IInv, MovesOnTheirWay, Carries
  <2>3. color[Other(p)] = Opposite(color[p])
    BY <1>1, Swaps DEF IInv, TypeOK, Other, Peer
  <2>4. started[p]
    <3>1. inbox[p] # <<>>
      BY <1>1 DEF IInv, TypeOK
    <3> QED
      BY <1>1, <3>1 DEF IInv, OpenMeansStarted, TypeOK
  <2> QED
    BY <2>2, <2>3, <2>4 DEF Acceptable
<1> QED
  BY <1>1, Invariance, PTL

\* How a step may change a program's outcome: with the board untouched, only
\* while it is undecided; with a new ply, to what the board says, if anything.
OutcomeStep(p) ==
  \/ hist'[p] = hist[p] /\ (outcome'[p] = outcome[p] \/ ~Ended(p))
  \/ hist'[p] # hist[p] /\ outcome'[p] = OutcomeAfter(hist'[p], outcome[p])

\* A ply, played or read, changes a result only to the one it puts on the
\* board.
LEMMA NewPly ==
  ASSUME IInv, NEW p \in Peer, NEW m \in Moves,
         hist' = [hist EXCEPT ![p] = Append(hist[p], m)],
         outcome' = [outcome EXCEPT ![p] =
                       OutcomeAfter(Append(hist[p], m), outcome[p])]
  PROVE  \A r \in Peer : OutcomeStep(r)
<1>1. hist \in [Peer -> Seq(Moves)] /\ outcome \in [Peer -> Outcome]
  BY DEF IInv, TypeOK
<1>2. Append(hist[p], m) # hist[p]
  BY <1>1, TurnPasses
<1>3. hist'[p] = Append(hist[p], m)
  BY <1>1
<1>4. outcome'[p] = OutcomeAfter(hist'[p], outcome[p])
  BY <1>1, <1>3
<1>5. \A r \in Peer : r # p => hist'[r] = hist[r] /\ outcome'[r] = outcome[r]
  BY <1>1
<1> QED
  BY <1>2, <1>3, <1>4, <1>5 DEF OutcomeStep

\* So does every step: a result changes with a ply or from none.
LEMMA OutcomeSteps ==
  ASSUME IInv, [Next]_vars
  PROVE  \A r \in Peer : OutcomeStep(r)
<1>1. hist \in [Peer -> Seq(Moves)] /\ outcome \in [Peer -> Outcome]
  BY DEF IInv, TypeOK
<1>2. ASSUME NEW p \in Peer, NEW m \in Moves, TrySendLocalMove(p, m)
      PROVE  \A r \in Peer : OutcomeStep(r)
  BY <1>2, NewPly DEF TrySendLocalMove
<1>3. ASSUME NEW p \in Peer, Resign(p) \/ AcceptDraw(p)
      PROVE  \A r \in Peer : OutcomeStep(r)
  BY <1>1, <1>3 DEF Resign, AcceptDraw, InPlay, OutcomeStep
<1>4. ASSUME NEW p \in Peer, HandleMove(p)
      PROVE  \A r \in Peer : OutcomeStep(r)
  <2>1. Acceptable(p, Head(inbox[p]).move) /\ Head(inbox[p]).move \in Moves
    BY <1>4, MoveReceived DEF HandleMove
  <2> QED
    BY <1>4, <2>1, NewPly DEF HandleMove
<1>5. ASSUME NEW p \in Peer, HandleResign(p) \/ HandleDrawAccept(p)
      PROVE  \A r \in Peer : OutcomeStep(r)
  BY <1>1, <1>5 DEF HandleResign, HandleDrawAccept, Undecided, OutcomeStep
<1>6. ASSUME NEW p \in Peer, HandleTimeSync(p)
      PROVE  \A r \in Peer : OutcomeStep(r)
  <2>1. \A ck, old : old # "NONE" => OutcomeAfterSync(ck, old) = old
    BY DEF OutcomeAfterSync
  <2>2. /\ UNCHANGED hist
        /\ \/ outcome' = outcome
           \/ outcome' = [outcome EXCEPT ![p] =
                             OutcomeAfterSync(Head(inbox[p]).clock, @)]
    BY <1>6 DEF HandleTimeSync
  <2> QED
    BY <1>1, <2>1, <2>2 DEF OutcomeStep, Ended
<1>7. ASSUME ClockTimeout
      PROVE  \A r \in Peer : OutcomeStep(r)
  BY <1>1, <1>7 DEF ClockTimeout, Undecided, OutcomeStep
<1>8. ASSUME UNCHANGED <<hist, outcome>>
      PROVE  \A r \in Peer : OutcomeStep(r)
  BY <1>8 DEF OutcomeStep
<1>9. ASSUME NEW p \in Peer,
             \/ OfferDraw(p) \/ DeclineDraw(p) \/ HandleDrawOffer(p)
             \/ HandleDrawDecline(p) \/ ReceiveError(p)
      PROVE  UNCHANGED <<hist, outcome>>
  BY <1>9 DEF OfferDraw, DeclineDraw, HandleDrawOffer, HandleDrawDecline,
              ReceiveError
<1>10. ASSUME LinkBreak \/ UNCHANGED vars
       PROVE  UNCHANGED <<hist, outcome>>
  BY <1>10 DEF LinkBreak, vars
<1> QED
  BY <1>2, <1>3, <1>4, <1>5, <1>6, <1>7, <1>8, <1>9, <1>10
  DEF Next, PlayerInput, NetTick, DispatchIncomingPacket

\* No step records anything else than a result the board shows.
LEMMA BoardResultStep ==
  ASSUME IInv, BoardResultPrevails, [Next]_vars
  PROVE  BoardResultPrevails'
<1>1. \A r \in Peer : OutcomeStep(r)
  BY OutcomeSteps
<1> QED
  BY <1>1 DEF BoardResultPrevails, OutcomeStep, OutcomeAfter, Ended

\* A result the board shows is the recorded one: a move sets it without looking
\* at the old outcome, and everything else respects an outcome already set.
THEOREM BoardResultRecorded == Spec => []BoardResultPrevails
<1>1. Init => BoardResultPrevails
  BY OpeningAssumption DEF Init, BoardResultPrevails
<1> QED
  BY <1>1, BoardResultStep, Invariance, PTL DEF Spec

\* A final outcome is only ever replaced by the result of the move that was on
\* its way (chess_gs_apply_move after a resignation, an agreement or a timeout).
THEOREM ResultsAreFinal == Spec => ResultFinal
<1>1. ASSUME IInv, [Next]_vars
      PROVE  [\A p \in Peer : Ended(p) /\ outcome'[p] # outcome[p] =>
                hist'[p] # hist[p] /\ outcome'[p] = Result(hist'[p])]_vars
  <2>1. \A r \in Peer : OutcomeStep(r)
    BY <1>1, OutcomeSteps
  <2> QED
    BY <2>1 DEF OutcomeStep, OutcomeAfter
<1> QED
  BY <1>1, Invariance, PTL DEF Spec, ResultFinal

-----------------------------------------------------------------------------
(* The boards are views of one agreed game *)

\* The longer of two boards in step is the one with the last move.
LEMMA LongerOfFacts ==
  ASSUME NEW a \in Seq(Moves), NEW m \in Moves
  PROVE  /\ LongerOf(a, a) = a
         /\ LongerOf(Append(a, m), a) = Append(a, m)
         /\ LongerOf(a, Append(a, m)) = Append(a, m)
BY DEF LongerOf

\* Empty boards are the initial state of the agreed game.
LEMMA RefinementInit == Init => Agreed!Init
<1> SUFFICES ASSUME Init PROVE Agreed!Init
  OBVIOUS
<1>1. LongerOf(hist["SERVER"], hist["CLIENT"]) = <<>>
  BY DEF Init, LongerOf, Peer
<1>2. [p \in Peer |-> Len(hist[p])] = [p \in Peer |-> 0]
  BY DEF Init
<1> QED
  BY <1>1, <1>2 DEF Init, Agreed!Init, Agreed!Peer, Agreed!Color, Agreed!Opposite,
                    Peer, Color, Opposite

\* A move played is a Play of the agreed game: its player has seen all of it.
LEMMA RefinementMove ==
  ASSUME IInv, NEW p \in Peer, NEW m \in Moves, TrySendLocalMove(p, m)
  PROVE  Agreed!Play(p)
<1> DEFINE q == Other(p)
           g == hist[p]
           h == Append(hist[p], m)
           game == LongerOf(hist["SERVER"], hist["CLIENT"])
           seen == [r \in Peer |-> Len(hist[r])]
<1>1. q \in Peer /\ q # p /\ \A r \in Peer : r = p \/ r = q
  BY Swaps
<1>2. /\ hist \in [Peer -> Seq(Moves)] /\ g \in Seq(Moves)
      /\ SideToMove(g) = color[p] /\ Legal(g, m)
      /\ hist' = [hist EXCEPT ![p] = h] /\ UNCHANGED color
  BY DEF IInv, TypeOK, TrySendLocalMove, CanMove
<1>3. hist[q] = g
  BY <1>2, MoverIsLevel
<1>4. hist'[p] = h /\ hist'[q] = g
  BY <1>1, <1>2, <1>3
<1>5. game = g
  BY <1>1, <1>2, <1>3, LongerOfFacts DEF Peer
<1>6. game' = h
  BY <1>1, <1>2, <1>4, LongerOfFacts DEF Peer, Other
<1>7. seen' = [seen EXCEPT ![p] = Len(game) + 1] /\ seen[p] = Len(game)
  <2>1. Len(h) = Len(g) + 1
    BY <1>2
  <2> QED
    BY <1>1, <1>2, <1>5, <2>1
<1> QED
  BY <1>2, <1>5, <1>6, <1>7
  DEF Agreed!Play, Agreed!SideToMove, SideToMove

\* A MOVE read is a See of the agreed game: its reader sees the next move.
LEMMA RefinementRead ==
  ASSUME IInv, NEW p \in Peer, HandleMove(p)
  PROVE  Agreed!See(p)
<1> DEFINE q == Other(p)
           m == Head(inbox[p]).move
           g == hist[p]
           h == Append(hist[p], m)
           game == LongerOf(hist["SERVER"], hist["CLIENT"])
           seen == [r \in Peer |-> Len(hist[r])]
<1>1. q \in Peer /\ q # p /\ \A r \in Peer : r = p \/ r = q
  BY Swaps
<1>2. m \in Moves /\ Acceptable(p, m) /\ hist[q] = h
  BY MoveReceived DEF HandleMove
<1>3. /\ hist \in [Peer -> Seq(Moves)] /\ g \in Seq(Moves)
      /\ hist' = [hist EXCEPT ![p] = h] /\ UNCHANGED color
  BY <1>2 DEF IInv, TypeOK, HandleMove
<1>4. hist'[p] = h /\ hist'[q] = h /\ Len(h) = Len(g) + 1 /\ h \in Seq(Moves)
  BY <1>1, <1>2, <1>3
<1>5. game = h
  BY <1>1, <1>2, <1>3, LongerOfFacts DEF Peer, Other
<1>6. game' = h
  BY <1>1, <1>4 DEF Peer, Other, LongerOf
<1>7. seen' = [seen EXCEPT ![p] = @ + 1]
  <2>1. seen[p] = Len(g) /\ Len(hist'[p]) = Len(g) + 1 /\ hist'[q] = hist[q]
    BY <1>2, <1>4
  <2> QED
    BY <1>1, <2>1
<1>8. seen[p] < Len(game)
  <2>1. Len(g) \in Nat /\ seen[p] = Len(g) /\ Len(game) = Len(g) + 1
    BY <1>3, <1>4, <1>5
  <2> QED
    BY <2>1
<1> QED
  BY <1>3, <1>5, <1>6, <1>7, <1>8 DEF Agreed!See

\* Every step is a step of the agreed game or leaves it unchanged.
LEMMA RefinementStep ==
  ASSUME IInv, [Next]_vars
  PROVE  [Agreed!Next]_Agreed!vars
<1>1. ASSUME UNCHANGED <<hist, color>>
      PROVE  UNCHANGED Agreed!vars
  BY <1>1 DEF Agreed!vars, LongerOf
<1>2. ASSUME NEW p \in Peer, PlayerInput(p)
      PROVE  [Agreed!Next]_Agreed!vars
  <2>1. CASE \E m \in Moves : TrySendLocalMove(p, m)
    BY <2>1, RefinementMove DEF Agreed!Next, Agreed!Peer, Peer
  <2>2. CASE Resign(p) \/ OfferDraw(p) \/ AcceptDraw(p) \/ DeclineDraw(p)
    BY <1>1, <2>2 DEF Resign, OfferDraw, AcceptDraw, DeclineDraw
  <2> QED
    BY <1>2, <2>1, <2>2 DEF PlayerInput
<1>3. ASSUME NEW p \in Peer, NetTick(p)
      PROVE  [Agreed!Next]_Agreed!vars
  <2>1. CASE HandleMove(p)
    BY <2>1, RefinementRead DEF Agreed!Next, Agreed!Peer, Peer
  <2>2. CASE \/ HandleResign(p) \/ HandleDrawOffer(p) \/ HandleDrawAccept(p)
             \/ HandleDrawDecline(p) \/ HandleTimeSync(p) \/ ReceiveError(p)
    BY <1>1, <2>2 DEF HandleResign, HandleDrawOffer, HandleDrawAccept,
                      HandleDrawDecline, HandleTimeSync, ReceiveError
  <2> QED
    BY <1>3, <2>1, <2>2 DEF NetTick, DispatchIncomingPacket
<1>4. ASSUME ClockTimeout \/ LinkBreak \/ UNCHANGED vars
      PROVE  [Agreed!Next]_Agreed!vars
  BY <1>1, <1>4 DEF ClockTimeout, LinkBreak, vars
<1> QED
  BY <1>2, <1>3, <1>4 DEF Next

\* Two connected programs implement the agreed game, whatever the players, the
\* clock and the connection do.
THEOREM ImplementsAgreedGame == Spec => AgreedSpec
  BY RefinementInit, RefinementStep, Invariance, PTL
  DEF Spec, AgreedSpec, Agreed!Spec


-----------------------------------------------------------------------------
(* Queues *)

\* The queue s holds a packet of one of the types T.
Has(s, T) == \E i \in 1..Len(s) : s[i].type \in T

\* It holds at most one.
One(s, T) ==
  \A i, j \in 1..Len(s) : s[i].type \in T /\ s[j].type \in T => i = j

\* A read takes the head away and nothing else.
LEMMA HasTail ==
  ASSUME NEW s \in Seq(Msg), s # <<>>, NEW T
  PROVE  /\ Has(Tail(s), T) => Has(s, T)
         /\ Has(s, T) /\ Head(s).type \notin T => Has(Tail(s), T)
         /\ Head(s).type \in T => Has(s, T)
         /\ One(s, T) => One(Tail(s), T)
         /\ One(s, T) /\ Head(s).type \in T => ~Has(Tail(s), T)
<1>1. Len(s) \in Nat \ {0} /\ Len(Tail(s)) = Len(s) - 1 /\ Head(s) = s[1]
  OBVIOUS
<1>2. \A i \in 1..Len(Tail(s)) : i + 1 \in 1..Len(s) /\ Tail(s)[i] = s[i + 1]
  BY <1>1
<1>3. Has(Tail(s), T) => Has(s, T)
  BY <1>2 DEF Has
<1>4. ASSUME NEW i \in 1..Len(s), s[i].type \in T, Head(s).type \notin T
      PROVE  Has(Tail(s), T)
  <2>1. i # 1 /\ i - 1 \in 1..Len(Tail(s))
    BY <1>1, <1>4
  <2>2. Tail(s)[i - 1] = s[i]
    BY <1>1, <1>2, <2>1
  <2> QED
    BY <1>4, <2>1, <2>2 DEF Has
<1>5. Head(s).type \in T => Has(s, T)
  BY <1>1 DEF Has
<1>6. ASSUME One(s, T), NEW i \in 1..Len(Tail(s)), NEW j \in 1..Len(Tail(s)),
             Tail(s)[i].type \in T, Tail(s)[j].type \in T
      PROVE  i = j
  <2>1. i + 1 = j + 1
    BY <1>2, <1>6 DEF One
  <2> QED
    BY <2>1
<1>7. ASSUME One(s, T), Head(s).type \in T,
             NEW i \in 1..Len(Tail(s)), Tail(s)[i].type \in T
      PROVE  FALSE
  <2>1. i + 1 = 1
    BY <1>1, <1>2, <1>7 DEF One
  <2> QED
    BY <2>1
<1> QED
  BY <1>3, <1>4, <1>5, <1>6, <1>7 DEF Has, One

\* A write adds one packet.
LEMMA HasAppend ==
  ASSUME NEW s \in Seq(Msg), NEW msg \in Msg, NEW T
  PROVE  /\ Has(Append(s, msg), T) <=> Has(s, T) \/ msg.type \in T
         /\ One(s, T) /\ msg.type \notin T => One(Append(s, msg), T)
         /\ ~Has(s, T) => One(Append(s, msg), T)
<1>1. /\ Len(Append(s, msg)) = Len(s) + 1 /\ Len(s) \in Nat
      /\ Append(s, msg)[Len(s) + 1] = msg
      /\ \A i \in 1..Len(s) : Append(s, msg)[i] = s[i]
  OBVIOUS
<1>2. 1..Len(Append(s, msg)) = 1..Len(s) \cup {Len(s) + 1}
  BY <1>1
<1> QED
  BY <1>1, <1>2 DEF Has, One

\* A connection that is gone leaves nothing to read.
LEMMA HasNothing == \A T : ~Has(<<>>, T) /\ One(<<>>, T)
BY DEF Has, One

-----------------------------------------------------------------------------
(* What each step does to the two queues *)

\* p writes the packet msg, unless the write finds the connection broken.
Writes(p, msg) ==
  LET q == Other(p)
  IN  /\ inbox'[p] \in {inbox[p], <<>>}
      /\ inbox'[q] \in {inbox[q], Append(inbox[q], msg)}
      /\ link = "up" => /\ inbox'[p] = inbox[p]
                        /\ inbox'[q] = Append(inbox[q], msg)

\* A send is a write.
LEMMA SendQueues ==
  ASSUME IInv, NEW p \in Peer, NEW msg \in Msg, NEW over \in BOOLEAN,
         SendOrDisconnect(p, Sent(inbox, Other(p), msg), over)
  PROVE  Writes(p, msg)
BY Swaps DEF IInv, TypeOK, SendOrDisconnect, HandlePeerDisconnect, Sent, Writes

\* p reads its next packet.
Reads(p) == /\ inbox[p] \in Seq(Msg) /\ inbox[p] # <<>>
            /\ inbox'[p] = Tail(inbox[p])
            /\ inbox'[Other(p)] = inbox[Other(p)]

\* A packet handler reads.
LEMMA ReadQueues ==
  ASSUME IInv, NEW p \in Peer, NEW t, Receive(p, t), inbox' = Consumed(p)
  PROVE  Reads(p)
BY Swaps DEF IInv, TypeOK, Receive, Consumed, Reads

\* What p's move puts behind the packets s: a refusal of the offer it leaves
\* unanswered, the move, and the server's clocks.
Refused(p, s) == IF received[p] THEN Append(s, Bare("DRAW_DECLINE")) ELSE s
Moved(p, m, s) == Append(Refused(p, s), MoveMsg(m))
Timed(p, ck, s) == IF p = "SERVER" /\ ticking THEN Append(s, SyncMsg(ck)) ELSE s

\* What a move played by p does to the queues and the clocks.
LEMMA MoveQueues ==
  ASSUME IInv, NEW p \in Peer, NEW m \in Moves, TrySendLocalMove(p, m)
  PROVE  \E ck \in Deducted(p, color[p]) :
           LET q == Other(p)
               s == Timed(p, ck, Moved(p, m, inbox[q]))
           IN  /\ clock' = [clock EXCEPT ![p] = ck]
               /\ inbox'[p] \in {inbox[p], <<>>}
               /\ inbox'[q] \in {inbox[q], s}
               /\ link = "up" => inbox'[p] = inbox[p] /\ inbox'[q] = s
<1> DEFINE q == Other(p)
           o == OutcomeAfter(Append(hist[p], m), outcome[p])
           box1 == IF received[p] THEN Sent(inbox, q, Bare("DRAW_DECLINE"))
                                  ELSE inbox
           box2 == Sent(box1, q, MoveMsg(m))
<1>1. q \in Peer /\ q # p /\ inbox \in [Peer -> Seq(Msg)]
  BY Swaps DEF IInv, TypeOK
<1>2. PICK ck \in Deducted(p, color[p]) :
         /\ clock' = [clock EXCEPT ![p] = ck]
         /\ SendOrDisconnect(p,
              IF p = "SERVER" /\ ticking THEN Sent(box2, q, SyncMsg(ck)) ELSE box2,
              o # "NONE")
  BY DEF TrySendLocalMove
<1> DEFINE box == IF p = "SERVER" /\ ticking THEN Sent(box2, q, SyncMsg(ck)) ELSE box2
           s == Timed(p, ck, Moved(p, m, inbox[q]))
<1>3. CASE link = "up"
  <2>1. /\ box1 = [inbox EXCEPT ![q] = Refused(p, @)]
        /\ box2 = [box1 EXCEPT ![q] = Append(@, MoveMsg(m))]
    BY <1>1, <1>3 DEF Sent, Refused
  <2>2. box2[p] = inbox[p] /\ box2[q] = Moved(p, m, inbox[q])
    BY <1>1, <2>1 DEF Moved
  <2>3. DOMAIN box2 = Peer
    BY <1>1, <2>1
  <2>4. box[p] = inbox[p] /\ box[q] = s
    BY <1>1, <1>3, <2>2, <2>3 DEF Sent, Timed
  <2>5. inbox' = box
    BY <1>2, <1>3 DEF SendOrDisconnect
  <2> QED
    BY <1>2, <2>4, <2>5
<1>4. CASE link # "up"
  <2>1. box = inbox
    BY <1>4 DEF Sent
  <2>2. inbox'[p] \in {inbox[p], <<>>} /\ inbox'[q] = inbox[q]
    BY <1>1, <1>2, <2>1 DEF SendOrDisconnect, HandlePeerDisconnect
  <2> QED
    BY <1>2, <1>4, <2>2
<1> QED
  BY <1>3, <1>4

\* What p's reading of a MOVE does: the board and the result follow the move,
\* the server answers with its clocks.
LEMMA MoveReadQueues ==
  ASSUME IInv, NEW p \in Peer, HandleMove(p)
  PROVE  LET q == Other(p) IN
         /\ inbox[p] # <<>> /\ inbox'[p] = Tail(inbox[p]) /\ Head(inbox[p]).type = "MOVE"
         /\ hist'[p] = hist[q] /\ hist'[q] = hist[q]
         /\ outcome'[p] = OutcomeAfter(hist[q], outcome[p])
         /\ outcome'[q] = outcome[q]
         /\ ~Has(inbox'[p], {"MOVE"}) /\ ~Has(inbox[q], {"MOVE"})
         /\ \E ck \in Deducted(p, Opposite(color[p])) :
              /\ clock' = [clock EXCEPT ![p] = ck]
              /\ inbox'[q] \in {inbox[q], Timed(p, ck, inbox[q])}
              /\ link = "up" => inbox'[q] = Timed(p, ck, inbox[q])
<1> DEFINE q == Other(p)
           m == Head(inbox[p]).move
           h == Append(hist[p], m)
<1>1. q \in Peer /\ q # p /\ inbox \in [Peer -> Seq(Msg)]
  BY Swaps DEF IInv, TypeOK
<1>2. /\ Acceptable(p, m) /\ hist[q] = h
      /\ NoMove(Tail(inbox[p])) /\ NoMove(inbox[q])
      /\ inbox[p] # <<>> /\ Head(inbox[p]).type = "MOVE"
  BY MoveReceived DEF HandleMove, Receive
<1>3. PICK ck \in Deducted(p, Opposite(color[p])) :
        /\ clock' = [clock EXCEPT ![p] = ck]
        /\ inbox' = IF p = "SERVER" /\ ticking
                    THEN Sent(Consumed(p), Other(p), SyncMsg(ck))
                    ELSE Consumed(p)
  BY <1>2 DEF HandleMove
<1>4. /\ hist'[p] = hist[q] /\ hist'[q] = hist[q]
      /\ outcome'[p] = OutcomeAfter(hist[q], outcome[p])
      /\ outcome'[q] = outcome[q]
  BY <1>1, <1>2 DEF HandleMove, IInv, TypeOK
<1>5. /\ inbox'[p] = Tail(inbox[p])
      /\ inbox'[q] \in {inbox[q], Timed(p, ck, inbox[q])}
      /\ link = "up" => inbox'[q] = Timed(p, ck, inbox[q])
  BY <1>1, <1>3 DEF Sent, Consumed, Timed
<1> QED
  BY <1>2, <1>3, <1>4, <1>5 DEF NoMove, Has

\* The queue t has no packet of the types T that s does not have.
Fades(s, t, T) == (Has(t, T) => Has(s, T)) /\ (One(s, T) => One(t, T))

\* A write leaves every type but that of its packet no more than there was.
LEMMA WritesFade ==
  ASSUME IInv, NEW p \in Peer, NEW msg \in Msg, Writes(p, msg), NEW T
  PROVE  /\ Fades(inbox[p], inbox'[p], T)
         /\ msg.type \notin T => Fades(inbox[Other(p)], inbox'[Other(p)], T)
<1>1. inbox[p] \in Seq(Msg) /\ inbox[Other(p)] \in Seq(Msg)
  BY Swaps DEF IInv, TypeOK
<1>2. Fades(inbox[p], inbox[p], T) /\ Fades(inbox[p], <<>>, T)
  BY HasNothing DEF Fades
<1>3. LET s == inbox[Other(p)] IN
      Fades(s, s, T) /\ (msg.type \notin T => Fades(s, Append(s, msg), T))
  BY <1>1, HasAppend DEF Fades
<1> QED
  BY <1>2, <1>3 DEF Writes

\* So does a read, for every type.
LEMMA ReadsFade ==
  ASSUME NEW p \in Peer, Reads(p), NEW T
  PROVE  \A r \in Peer : Fades(inbox[r], inbox'[r], T)
<1>1. Fades(inbox[p], inbox'[p], T) /\ Fades(inbox[Other(p)], inbox'[Other(p)], T)
  BY HasTail DEF Reads, Fades
<1> QED
  BY <1>1, Swaps

\* The server's clocks are a TIME_SYNC, or nothing.
LEMMA TimedFades ==
  ASSUME IInv, NEW p \in Peer, NEW c \in Color, NEW ck \in Deducted(p, c),
         NEW s \in Seq(Msg), NEW T, "TIME_SYNC" \notin T
  PROVE  /\ Timed(p, ck, s) \in Seq(Msg)
         /\ Fades(s, Timed(p, ck, s), T)
         /\ Has(s, T) => Has(Timed(p, ck, s), T)
<1>1. SyncMsg(ck) \in Msg /\ SyncMsg(ck).type = "TIME_SYNC"
  BY DeductedType, MsgTypes DEF IInv
<1> QED
  BY <1>1, HasAppend DEF Timed, Fades

\* What is behind s once p has moved.
LEMMA MovedFacts ==
  ASSUME IInv, NEW p \in Peer, NEW m \in Moves, NEW s \in Seq(Msg)
  PROVE  /\ Moved(p, m, s) \in Seq(Msg)
         /\ \A T : Has(Moved(p, m, s), T) <=>
                     \/ Has(s, T) \/ "MOVE" \in T
                     \/ received[p] /\ "DRAW_DECLINE" \in T
         /\ \A T : "MOVE" \notin T =>
              /\ One(s, T) /\ ~(received[p] /\ "DRAW_DECLINE" \in T)
                   => One(Moved(p, m, s), T)
              /\ ~Has(s, T) => One(Moved(p, m, s), T)
<1>1. /\ Bare("DRAW_DECLINE") \in Msg /\ Bare("DRAW_DECLINE").type = "DRAW_DECLINE"
      /\ MoveMsg(m) \in Msg /\ MoveMsg(m).type = "MOVE"
  BY MsgTypes DEF BareType
<1>2. Refused(p, s) \in Seq(Msg)
  BY <1>1 DEF Refused
<1>3. \A T : /\ Has(Refused(p, s), T) <=> Has(s, T) \/ (received[p] /\ "DRAW_DECLINE" \in T)
             /\ One(s, T) /\ ~(received[p] /\ "DRAW_DECLINE" \in T) => One(Refused(p, s), T)
             /\ ~Has(s, T) => One(Refused(p, s), T)
  <2>1. ASSUME NEW T, ~Has(s, T) PROVE One(s, T)
    BY <2>1 DEF Has, One
  <2> QED
    BY <1>1, <2>1, HasAppend DEF Refused
<1> QED
  BY <1>1, <1>2, <1>3, HasAppend DEF Moved

\* A move writes a MOVE and a TIME_SYNC, and a DRAW_DECLINE only if there is an
\* offer to refuse.
LEMMA MoveFades ==
  ASSUME IInv, NEW p \in Peer, NEW m \in Moves, TrySendLocalMove(p, m), NEW T
  PROVE  LET q == Other(p) IN
         /\ Fades(inbox[p], inbox'[p], T)
         /\ {"MOVE", "TIME_SYNC"} \cap T = {} =>
              /\ ~received[p] => Fades(inbox[q], inbox'[q], T)
              /\ "DRAW_DECLINE" \notin T => Fades(inbox[q], inbox'[q], T)
              /\ ~Has(inbox[q], T) => One(inbox'[q], T)
         /\ "TIME_SYNC" \notin T /\ link = "up" =>
              (Has(inbox[q], T) \/ "MOVE" \in T => Has(inbox'[q], T))
<1> DEFINE q == Other(p)
<1>1. inbox[p] \in Seq(Msg) /\ inbox[q] \in Seq(Msg) /\ color[p] \in Color
  BY Swaps DEF IInv, TypeOK
<1>2. PICK ck \in Deducted(p, color[p]) :
         LET s == Timed(p, ck, Moved(p, m, inbox[q]))
         IN  /\ inbox'[p] \in {inbox[p], <<>>}
             /\ inbox'[q] \in {inbox[q], s}
             /\ link = "up" => inbox'[p] = inbox[p] /\ inbox'[q] = s
  BY MoveQueues
<1> DEFINE b == Moved(p, m, inbox[q])
           s == Timed(p, ck, b)
<1>3. b \in Seq(Msg)
  BY <1>1, MovedFacts
<1>4. Fades(inbox[p], inbox'[p], T)
  BY <1>2, HasNothing DEF Fades
<1>5. ~Has(inbox[q], T) => One(inbox[q], T)
  BY DEF Has, One
<1>6. "TIME_SYNC" \notin T => Fades(b, s, T) /\ (Has(b, T) => Has(s, T))
  BY <1>1, <1>3, TimedFades
<1>7. /\ Has(b, T) <=> Has(inbox[q], T) \/ "MOVE" \in T \/ (received[p] /\ "DRAW_DECLINE" \in T)
      /\ "MOVE" \notin T =>
              /\ One(inbox[q], T) /\ ~(received[p] /\ "DRAW_DECLINE" \in T) => One(b, T)
              /\ ~Has(inbox[q], T) => One(b, T)
  BY <1>1, MovedFacts
<1> HIDE DEF b, s
<1>8. inbox'[q] \in {inbox[q], s} /\ (link = "up" => inbox'[q] = s)
  BY <1>2 DEF s, b
<1>9. {"MOVE", "TIME_SYNC"} \cap T = {} => "MOVE" \notin T /\ "TIME_SYNC" \notin T
  OBVIOUS
<1> QED
  BY <1>4, <1>5, <1>6, <1>7, <1>8, <1>9 DEF Fades

\* Reading a MOVE writes at most a TIME_SYNC.
LEMMA MoveReadFades ==
  ASSUME IInv, NEW p \in Peer, HandleMove(p), NEW T, "TIME_SYNC" \notin T
  PROVE  \A r \in Peer : Fades(inbox[r], inbox'[r], T)
<1>1. /\ inbox[p] \in Seq(Msg) /\ inbox[Other(p)] \in Seq(Msg)
      /\ Opposite(color[p]) \in Color
  BY Swaps DEF IInv, TypeOK
<1>2. /\ inbox[p] # <<>> /\ inbox'[p] = Tail(inbox[p])
      /\ \E ck \in Deducted(p, Opposite(color[p])) :
           inbox'[Other(p)] \in {inbox[Other(p)], Timed(p, ck, inbox[Other(p)])}
  BY MoveReadQueues
<1>3. Fades(inbox[p], inbox'[p], T)
  BY <1>1, <1>2, HasTail DEF Fades
<1>4. Fades(inbox[Other(p)], inbox'[Other(p)], T)
  <2>1. Fades(inbox[Other(p)], inbox[Other(p)], T)
    BY DEF Fades
  <2> QED
    BY <1>1, <1>2, <2>1, TimedFades
<1> QED
  BY <1>3, <1>4, Swaps

\* The server's clock check writes a TIME_SYNC.
LEMMA TimeoutQueues ==
  ASSUME IInv, ClockTimeout
  PROVE  LET c  == SideToMove(hist["SERVER"])
             ck == [clock["SERVER"] EXCEPT ![c] = 0]
         IN  /\ c \in Color /\ ck \in Clock /\ ck[c] = 0
             /\ SyncMsg(ck) \in Msg /\ SyncMsg(ck).type = "TIME_SYNC"
             /\ clock' = [clock EXCEPT !["SERVER"] = ck]
             /\ outcome' = [outcome EXCEPT !["SERVER"] = TimedOut(c)]
             /\ inbox'["SERVER"] = inbox["SERVER"]
             /\ inbox'["CLIENT"] = IF link = "up" THEN Append(inbox["CLIENT"], SyncMsg(ck))
                                                  ELSE inbox["CLIENT"]
<1> DEFINE c  == SideToMove(hist["SERVER"])
           ck == [clock["SERVER"] EXCEPT ![c] = 0]
<1>1. "SERVER" \in Peer /\ "CLIENT" \in Peer /\ c \in Color
  BY DEF Peer, SideToMove, Color
<1>2. ck \in Clock /\ ck[c] = 0
  BY <1>1, BoundsAssumption DEF IInv, TypeOK, Clock
<1>3. SyncMsg(ck) \in Msg /\ SyncMsg(ck).type = "TIME_SYNC"
  BY <1>2, MsgTypes
<1>4. inbox \in [Peer -> Seq(Msg)] /\ inbox' = Sent(inbox, "CLIENT", SyncMsg(ck))
  BY DEF ClockTimeout, IInv, TypeOK
<1>5. /\ inbox'["SERVER"] = inbox["SERVER"]
      /\ inbox'["CLIENT"] = IF link = "up" THEN Append(inbox["CLIENT"], SyncMsg(ck))
                                           ELSE inbox["CLIENT"]
  BY <1>1, <1>4 DEF Sent
<1> QED
  BY <1>1, <1>2, <1>3, <1>5 DEF ClockTimeout

\* It writes nothing else.
LEMMA TimeoutFades ==
  ASSUME IInv, ClockTimeout, NEW T, "TIME_SYNC" \notin T
  PROVE  \A r \in Peer : Fades(inbox[r], inbox'[r], T)
<1>1. inbox["CLIENT"] \in Seq(Msg)
  BY DEF IInv, TypeOK, Peer
<1>2. Fades(inbox["CLIENT"], inbox'["CLIENT"], T) /\ Fades(inbox["SERVER"], inbox'["SERVER"], T)
  BY <1>1, TimeoutQueues, HasAppend DEF Fades
<1> QED
  BY <1>2 DEF Peer

\* A connection given up takes its packets with it.
LEMMA ErrorFades ==
  ASSUME IInv, NEW p \in Peer, ReceiveError(p)
  PROVE  /\ \A r \in Peer : inbox'[r] \in {inbox[r], <<>>}
         /\ \A r \in Peer : \A T : Fades(inbox[r], inbox'[r], T)
<1>1. \A r \in Peer : inbox'[r] \in {inbox[r], <<>>}
  BY DEF ReceiveError, HandlePeerDisconnect, IInv, TypeOK
<1> QED
  BY <1>1, HasNothing DEF Fades

-----------------------------------------------------------------------------
(* Draw offers *)

\* Of the offer in the queue o, its answer in the queue a, and the offer shown
\* to the player (shown), there is at most one, and then the offer is pending.
OneOf(o, a, shown, isPending) ==
  LET offer  == Has(o, {"DRAW_OFFER"})
      answer == Has(a, {"DRAW_ACCEPT", "DRAW_DECLINE"})
  IN  /\ One(o, {"DRAW_OFFER"}) /\ One(a, {"DRAW_ACCEPT", "DRAW_DECLINE"})
      /\ ~(offer /\ answer)
      /\ shown => ~offer /\ ~answer
      /\ offer \/ answer \/ shown => isPending

\* p's offer, if any, is at one place.
OfferOf(p) == OneOf(inbox[Other(p)], inbox[p], received[Other(p)], pending[p])

OneOffer == \A p \in Peer : OfferOf(p)

\* Nothing more of an offer is anywhere after a step that writes neither an
\* offer nor an answer and shows none.
LEMMA OfferFades ==
  ASSUME NEW r \in Peer, OfferOf(r),
         Fades(inbox[Other(r)], inbox'[Other(r)], {"DRAW_OFFER"}),
         Fades(inbox[r], inbox'[r], {"DRAW_ACCEPT", "DRAW_DECLINE"}),
         received'[Other(r)] => received[Other(r)], pending[r] => pending'[r]
  PROVE  OfferOf(r)'
BY DEF OfferOf, OneOf, Fades

\* The player's inputs keep every offer at one place.
LEMMA OfferInput ==
  ASSUME IInv, OneOffer, NEW p \in Peer, PlayerInput(p)
  PROVE  OneOffer'
<1> DEFINE q == Other(p)
           Offers == {"DRAW_OFFER"}
           Answers == {"DRAW_ACCEPT", "DRAW_DECLINE"}
<1>1. q \in Peer /\ q # p /\ Other(q) = p /\ \A r \in Peer : r = p \/ r = q
  BY Swaps
<1>2. inbox[p] \in Seq(Msg) /\ inbox[q] \in Seq(Msg) /\ OfferOf(p) /\ OfferOf(q)
  BY <1>1 DEF IInv, TypeOK, OneOffer
<1>3. SUFFICES OfferOf(p)' /\ OfferOf(q)'
  BY <1>1 DEF OneOffer
<1>4. received \in [Peer -> BOOLEAN] /\ pending \in [Peer -> BOOLEAN]
  BY DEF IInv, TypeOK
<1>5. ASSUME NEW m \in Moves, TrySendLocalMove(p, m)
      PROVE  OfferOf(p)' /\ OfferOf(q)'
  <2>1. received' = [received EXCEPT ![p] = FALSE] /\ UNCHANGED pending
    BY <1>5 DEF TrySendLocalMove
  <2>2. /\ Fades(inbox[p], inbox'[p], Offers) /\ Fades(inbox[p], inbox'[p], Answers)
        /\ Fades(inbox[q], inbox'[q], Offers)
        /\ ~received[p] => Fades(inbox[q], inbox'[q], Answers)
        /\ ~Has(inbox[q], Answers) => One(inbox'[q], Answers)
    BY <1>5, MoveFades
  <2>3. OfferOf(p)'
    BY <1>1, <1>2, <1>4, <2>1, <2>2, OfferFades
  <2>4. CASE ~received[p]
    BY <1>1, <1>2, <1>4, <2>1, <2>2, <2>3, <2>4, OfferFades
  <2>5. CASE received[p]
    <3>1. ~Has(inbox'[p], Offers) /\ One(inbox'[p], Offers) /\ One(inbox'[q], Answers)
      BY <1>1, <1>2, <2>2, <2>5 DEF OfferOf, OneOf, Fades
    <3>2. pending'[q] /\ ~received'[p]
      BY <1>1, <1>2, <1>4, <2>1, <2>5 DEF OfferOf, OneOf
    <3>3. OfferOf(q)'
      BY <1>1, <3>1, <3>2 DEF OfferOf, OneOf
    <3> QED
      BY <2>3, <3>3
  <2> QED
    BY <2>4, <2>5
<1>6. CASE Resign(p)
  <2>1. Bare("RESIGN") \in Msg /\ Bare("RESIGN").type = "RESIGN"
    BY MsgTypes DEF BareType
  <2>2. Writes(p, Bare("RESIGN")) /\ UNCHANGED <<received, pending>>
    BY <1>6, <2>1, SendQueues DEF Resign
  <2>3. \A r \in Peer : Fades(inbox[r], inbox'[r], Offers) /\ Fades(inbox[r], inbox'[r], Answers)
    BY <1>1, <2>1, <2>2, WritesFade
  <2> QED
    BY <1>1, <1>2, <2>2, <2>3, OfferFades
<1>7. CASE OfferDraw(p)
  <2>1. Bare("DRAW_OFFER") \in Msg /\ Bare("DRAW_OFFER").type = "DRAW_OFFER"
    BY MsgTypes DEF BareType
  <2>2. /\ Writes(p, Bare("DRAW_OFFER"))
        /\ pending' = [pending EXCEPT ![p] = TRUE] /\ UNCHANGED received
        /\ ~pending[p]
    BY <1>7, <2>1, SendQueues DEF OfferDraw, OfferButton
  <2>3. /\ \A r \in Peer : Fades(inbox[r], inbox'[r], Answers)
        /\ Fades(inbox[p], inbox'[p], Offers)
    BY <1>1, <2>1, <2>2, WritesFade
  <2>4. OfferOf(q)'
    BY <1>1, <1>2, <1>4, <2>2, <2>3, OfferFades
  <2>5. /\ ~Has(inbox[q], Offers) /\ ~Has(inbox[p], Answers) /\ ~received[q]
        /\ One(inbox[p], Answers)
    BY <1>2, <2>2 DEF OfferOf, OneOf
  <2>6. One(inbox'[q], Offers)
    <3>1. One(Append(inbox[q], Bare("DRAW_OFFER")), Offers)
      BY <1>2, <2>1, <2>5, HasAppend
    <3>2. One(inbox[q], Offers)
      BY <1>2 DEF OfferOf, OneOf
    <3> QED
      BY <2>2, <3>1, <3>2 DEF Writes
  <2>7. OfferOf(p)'
    BY <1>1, <1>4, <2>2, <2>3, <2>5, <2>6 DEF OfferOf, OneOf, Fades
  <2> QED
    BY <2>4, <2>7
<1>8. CASE AcceptDraw(p) \/ DeclineDraw(p)
  <2>1. PICK t \in {"DRAW_ACCEPT", "DRAW_DECLINE"}, over \in BOOLEAN :
           SendOrDisconnect(p, Sent(inbox, Other(p), Bare(t)), over)
    BY <1>8 DEF AcceptDraw, DeclineDraw
  <2>2. Bare(t) \in Msg /\ Bare(t).type = t
    BY <2>1, MsgTypes DEF BareType
  <2>3. /\ Writes(p, Bare(t))
        /\ received' = [received EXCEPT ![p] = FALSE] /\ UNCHANGED pending
        /\ received[p]
    BY <1>8, <2>1, <2>2, SendQueues DEF AcceptDraw, DeclineDraw
  <2>4. /\ \A r \in Peer : Fades(inbox[r], inbox'[r], Offers)
        /\ Fades(inbox[p], inbox'[p], Answers)
    BY <1>1, <2>1, <2>2, <2>3, WritesFade
  <2>5. OfferOf(p)'
    BY <1>1, <1>2, <1>4, <2>3, <2>4, OfferFades
  <2>6. /\ ~Has(inbox[p], Offers) /\ ~Has(inbox[q], Answers) /\ pending[q]
        /\ One(inbox[p], Offers) /\ One(inbox[q], Answers)
    BY <1>1, <1>2, <2>3 DEF OfferOf, OneOf
  <2>7. One(inbox'[q], Answers)
    <3>1. One(Append(inbox[q], Bare(t)), Answers)
      BY <1>2, <2>2, <2>6, HasAppend
    <3> QED
      BY <2>3, <2>6, <3>1 DEF Writes
  <2>8. OfferOf(q)'
    BY <1>1, <1>4, <2>3, <2>4, <2>6, <2>7 DEF OfferOf, OneOf, Fades
  <2> QED
    BY <2>5, <2>8
<1> QED
  BY <1>5, <1>6, <1>7, <1>8 DEF PlayerInput

\* The packet handlers and a failed read keep every offer at one place.
LEMMA OfferTick ==
  ASSUME IInv, OneOffer, NEW p \in Peer, NetTick(p)
  PROVE  OneOffer'
<1> DEFINE q == Other(p)
           Offers == {"DRAW_OFFER"}
           Answers == {"DRAW_ACCEPT", "DRAW_DECLINE"}
<1>1. q \in Peer /\ q # p /\ Other(q) = p /\ \A r \in Peer : r = p \/ r = q
  BY Swaps
<1>2. OfferOf(p) /\ OfferOf(q)
  BY <1>1 DEF OneOffer
<1>3. SUFFICES OfferOf(p)' /\ OfferOf(q)'
  BY <1>1 DEF OneOffer
<1>4. received \in [Peer -> BOOLEAN] /\ pending \in [Peer -> BOOLEAN]
  BY DEF IInv, TypeOK
<1>5. CASE HandleMove(p)
  <2>1. /\ \A r \in Peer : Fades(inbox[r], inbox'[r], Offers) /\ Fades(inbox[r], inbox'[r], Answers)
        /\ UNCHANGED <<received, pending>>
    BY <1>5, MoveReadFades DEF HandleMove
  <2> QED
    BY <1>1, <1>2, <2>1, OfferFades
<1>6. CASE HandleResign(p) \/ HandleTimeSync(p)
  <2>1. Reads(p) /\ UNCHANGED <<received, pending>>
    BY <1>6, ReadQueues DEF HandleResign, HandleTimeSync
  <2>2. \A r \in Peer : Fades(inbox[r], inbox'[r], Offers) /\ Fades(inbox[r], inbox'[r], Answers)
    BY <2>1, ReadsFade
  <2> QED
    BY <1>1, <1>2, <2>1, <2>2, OfferFades
<1>7. CASE HandleDrawOffer(p)
  <2>1. /\ Reads(p) /\ Head(inbox[p]).type = "DRAW_OFFER"
        /\ received' \in {received, [received EXCEPT ![p] = TRUE]}
        /\ UNCHANGED pending
    BY <1>7, ReadQueues DEF HandleDrawOffer, Receive
  <2>2. \A r \in Peer : Fades(inbox[r], inbox'[r], Offers) /\ Fades(inbox[r], inbox'[r], Answers)
    BY <2>1, ReadsFade
  <2>3. OfferOf(p)'
    BY <1>1, <1>2, <1>4, <2>1, <2>2, OfferFades
  <2>4. Has(inbox[p], Offers) /\ One(inbox[p], Offers)
    BY <1>1, <1>2, <2>1, HasTail DEF Reads, OfferOf, OneOf
  <2>5. ~Has(inbox'[p], Offers)
    BY <2>1, <2>4, HasTail DEF Reads
  <2>6. ~Has(inbox'[q], Answers) /\ pending'[q]
    BY <1>1, <1>2, <2>1, <2>4 DEF Reads, OfferOf, OneOf
  <2>7. OfferOf(q)'
    BY <1>1, <1>2, <2>2, <2>5, <2>6 DEF OfferOf, OneOf, Fades
  <2> QED
    BY <2>3, <2>7
<1>8. CASE HandleDrawAccept(p) \/ HandleDrawDecline(p)
  <2>1. /\ Reads(p) /\ Head(inbox[p]).type \in Answers
        /\ pending' \in {pending, [pending EXCEPT ![p] = FALSE]}
        /\ UNCHANGED received
    BY <1>8, ReadQueues DEF HandleDrawAccept, HandleDrawDecline, Receive
  <2>2. \A r \in Peer : Fades(inbox[r], inbox'[r], Offers) /\ Fades(inbox[r], inbox'[r], Answers)
    BY <2>1, ReadsFade
  <2>3. OfferOf(q)'
    BY <1>1, <1>2, <1>4, <2>1, <2>2, OfferFades
  <2>4. Has(inbox[p], Answers) /\ One(inbox[p], Answers)
    BY <1>1, <1>2, <2>1, HasTail DEF Reads, OfferOf, OneOf
  <2>5. ~Has(inbox'[p], Answers)
    BY <2>1, <2>4, HasTail DEF Reads
  <2>6. ~Has(inbox'[q], Offers) /\ ~received'[q]
    BY <1>1, <1>2, <2>1, <2>4 DEF Reads, OfferOf, OneOf
  <2>7. OfferOf(p)'
    BY <1>1, <1>2, <2>2, <2>5, <2>6 DEF OfferOf, OneOf, Fades
  <2> QED
    BY <2>3, <2>7
<1>9. CASE ReceiveError(p)
  <2>1. \A r \in Peer : Fades(inbox[r], inbox'[r], Offers) /\ Fades(inbox[r], inbox'[r], Answers)
    BY <1>9, ErrorFades
  <2>2. UNCHANGED <<received, pending>>
    BY <1>9 DEF ReceiveError
  <2> QED
    BY <1>1, <1>2, <2>1, <2>2, OfferFades
<1> QED
  BY <1>5, <1>6, <1>7, <1>8, <1>9 DEF NetTick, DispatchIncomingPacket

\* Every step keeps every offer at one place.
LEMMA OfferNext ==
  ASSUME IInv, OneOffer, [Next]_vars
  PROVE  OneOffer'
<1>1. CASE ClockTimeout
  <2>1. \A r \in Peer : /\ Fades(inbox[r], inbox'[r], {"DRAW_OFFER"})
                        /\ Fades(inbox[r], inbox'[r], {"DRAW_ACCEPT", "DRAW_DECLINE"})
    BY <1>1, TimeoutFades
  <2>2. UNCHANGED <<received, pending>>
    BY <1>1 DEF ClockTimeout
  <2> QED
    BY <2>1, <2>2, Swaps, OfferFades DEF OneOffer
<1>2. CASE LinkBreak \/ UNCHANGED vars
  BY <1>2 DEF LinkBreak, vars, OneOffer, OfferOf
<1> QED
  BY <1>1, <1>2, OfferInput, OfferTick DEF Next

-----------------------------------------------------------------------------
(* The clocks *)

Sync(s, i) == s[i].type = "TIME_SYNC"

\* From the clocks shown on, one TIME_SYNC after the other, down to the server's.
RunDown(s, server, shown) ==
  /\ \A c \in Color : server[c] <= shown[c]
  /\ \A i \in 1..Len(s) : Sync(s, i) =>
       \A c \in Color :
         /\ server[c] <= s[i].clock[c] /\ s[i].clock[c] <= shown[c]
         /\ \A j \in 1..Len(s) : Sync(s, j) /\ i < j => s[j].clock[c] <= s[i].clock[c]

\* The last TIME_SYNC, or else what is shown, is the server's.
Newest(s, server, shown) ==
  IF \A i \in 1..Len(s) : ~Sync(s, i) THEN shown = server
  ELSE \E i \in 1..Len(s) : /\ Sync(s, i) /\ s[i].clock = server
                            /\ \A j \in 1..Len(s) : Sync(s, j) => j <= i

ClocksInStep ==
  /\ RunDown(inbox["CLIENT"], clock["SERVER"], clock["CLIENT"])
  /\ link = "up" => Newest(inbox["CLIENT"], clock["SERVER"], clock["CLIENT"])
  /\ ~Has(inbox["SERVER"], {"TIME_SYNC"})

\* The clocks of a TIME_SYNC are clocks.
LEMMA SyncClock ==
  ASSUME NEW s \in Seq(Msg), NEW i \in 1..Len(s), Sync(s, i)
  PROVE  s[i].clock \in Clock
<1>1. s[i] \in Msg
  OBVIOUS
<1> QED
  BY <1>1, Payloads DEF Sync

\* A read of another packet, a loss of everything, time the client has not been
\* told of.
LEMMA RunDownKept ==
  ASSUME NEW s \in Seq(Msg), NEW server \in Clock, NEW shown \in Clock,
         RunDown(s, server, shown)
  PROVE  /\ RunDown(<<>>, server, shown)
         /\ s # <<>> => RunDown(Tail(s), server, shown)
         /\ \A msg \in Msg : msg.type # "TIME_SYNC" => RunDown(Append(s, msg), server, shown)
         /\ \A ck \in Clock : (\A c \in Color : ck[c] <= server[c]) => RunDown(s, ck, shown)
<1>1. RunDown(<<>>, server, shown)
  BY DEF RunDown
<1>2. ASSUME s # <<>> PROVE RunDown(Tail(s), server, shown)
  <2>1. Len(s) \in Nat \ {0} /\ Len(Tail(s)) = Len(s) - 1
    BY <1>2
  <2>2. \A i \in 1..Len(Tail(s)) : i + 1 \in 1..Len(s) /\ Tail(s)[i] = s[i + 1]
    BY <1>2, <2>1
  <2>3. \A i, j \in 1..Len(Tail(s)) : i < j => i + 1 < j + 1
    OBVIOUS
  <2> QED
    BY <2>2, <2>3 DEF RunDown, Sync
<1>3. ASSUME NEW msg \in Msg, msg.type # "TIME_SYNC"
      PROVE  RunDown(Append(s, msg), server, shown)
  BY <1>3 DEF RunDown, Sync
<1>4. ASSUME NEW ck \in Clock, \A c \in Color : ck[c] <= server[c]
      PROVE  RunDown(s, ck, shown)
  <2>1. \A i \in 1..Len(s) : Sync(s, i) => s[i].clock \in Clock
    BY SyncClock
  <2> QED
    BY <1>4, <2>1, BoundsAssumption DEF RunDown, Clock
<1> QED
  BY <1>1, <1>2, <1>3, <1>4

\* A read or a write of another packet leaves the last TIME_SYNC the last.
LEMMA NewestKept ==
  ASSUME NEW s \in Seq(Msg), NEW server, NEW shown, Newest(s, server, shown)
  PROVE  /\ s # <<>> /\ Head(s).type # "TIME_SYNC" => Newest(Tail(s), server, shown)
         /\ \A msg \in Msg : msg.type # "TIME_SYNC" => Newest(Append(s, msg), server, shown)
<1>1. ASSUME s # <<>>, Head(s).type # "TIME_SYNC" PROVE Newest(Tail(s), server, shown)
  <2>1. Len(s) \in Nat \ {0} /\ Len(Tail(s)) = Len(s) - 1 /\ ~Sync(s, 1)
    BY <1>1 DEF Sync
  <2>2. \A i \in 1..Len(Tail(s)) : i + 1 \in 1..Len(s) /\ Tail(s)[i] = s[i + 1]
    BY <1>1, <2>1
  <2>3. CASE \A i \in 1..Len(s) : ~Sync(s, i)
    BY <2>2, <2>3 DEF Newest, Sync
  <2>4. CASE ~\A i \in 1..Len(s) : ~Sync(s, i)
    <3>1. PICK i \in 1..Len(s) : /\ Sync(s, i) /\ s[i].clock = server
                                 /\ \A j \in 1..Len(s) : Sync(s, j) => j <= i
      BY <2>4 DEF Newest
    <3>2. i - 1 \in 1..Len(Tail(s))
      BY <2>1, <3>1
    <3>3. Sync(Tail(s), i - 1) /\ Tail(s)[i - 1].clock = server
      BY <2>2, <3>1, <3>2 DEF Sync
    <3>4. ASSUME NEW j \in 1..Len(Tail(s)), Sync(Tail(s), j) PROVE j <= i - 1
      <4>1. j + 1 <= i
        BY <2>2, <3>1, <3>4 DEF Sync
      <4> QED
        BY <4>1
    <3> QED
      BY <3>2, <3>3, <3>4 DEF Newest
  <2> QED
    BY <2>3, <2>4
<1>2. ASSUME NEW msg \in Msg, msg.type # "TIME_SYNC"
      PROVE  Newest(Append(s, msg), server, shown)
  BY <1>2 DEF Newest, Sync
<1> QED
  BY <1>1, <1>2

\* The client reads a TIME_SYNC: it shows those clocks from then on.
LEMMA SyncRead ==
  ASSUME NEW s \in Seq(Msg), s # <<>>, Head(s).type = "TIME_SYNC",
         NEW server \in Clock, NEW shown \in Clock
  PROVE  /\ Head(s).clock \in Clock
         /\ RunDown(s, server, shown) => RunDown(Tail(s), server, Head(s).clock)
         /\ Newest(s, server, shown) => Newest(Tail(s), server, Head(s).clock)
<1>1. Len(s) \in Nat \ {0} /\ Len(Tail(s)) = Len(s) - 1 /\ Head(s) = s[1] /\ Sync(s, 1)
  BY DEF Sync
<1>2. \A i \in 1..Len(Tail(s)) : i + 1 \in 1..Len(s) /\ Tail(s)[i] = s[i + 1] /\ 1 < i + 1
  BY <1>1
<1>3. Head(s).clock \in Clock
  BY <1>1, SyncClock
<1>4. ASSUME RunDown(s, server, shown) PROVE RunDown(Tail(s), server, Head(s).clock)
  <2>1. \A i, j \in 1..Len(Tail(s)) : i < j => i + 1 < j + 1
    OBVIOUS
  <2> QED
    BY <1>1, <1>2, <1>4, <2>1 DEF RunDown, Sync
<1>5. ASSUME Newest(s, server, shown) PROVE Newest(Tail(s), server, Head(s).clock)
  <2>1. PICK i \in 1..Len(s) : /\ Sync(s, i) /\ s[i].clock = server
                               /\ \A j \in 1..Len(s) : Sync(s, j) => j <= i
    BY <1>1, <1>5 DEF Newest
  <2>2. CASE i = 1
    <3>1. ASSUME NEW j \in 1..Len(Tail(s)), Sync(Tail(s), j) PROVE FALSE
      <4>1. j + 1 <= 1
        BY <1>2, <2>1, <2>2, <3>1 DEF Sync
      <4> QED
        BY <4>1
    <3> QED
      BY <1>1, <2>1, <2>2, <3>1 DEF Newest
  <2>3. CASE i # 1
    <3>1. i - 1 \in 1..Len(Tail(s))
      BY <1>1, <2>1, <2>3
    <3>2. Sync(Tail(s), i - 1) /\ Tail(s)[i - 1].clock = server
      BY <1>2, <2>1, <3>1 DEF Sync
    <3>3. ASSUME NEW j \in 1..Len(Tail(s)), Sync(Tail(s), j) PROVE j <= i - 1
      <4>1. j + 1 <= i
        BY <1>2, <2>1, <3>3 DEF Sync
      <4> QED
        BY <4>1
    <3> QED
      BY <3>1, <3>2, <3>3 DEF Newest
  <2> QED
    BY <2>2, <2>3
<1> QED
  BY <1>3, <1>4, <1>5

\* The server sends the clocks it has just changed.
LEMMA SyncWritten ==
  ASSUME NEW s \in Seq(Msg), NEW server \in Clock, NEW shown \in Clock,
         RunDown(s, server, shown),
         NEW ck \in Clock, \A c \in Color : ck[c] <= server[c]
  PROVE  /\ RunDown(Append(s, SyncMsg(ck)), ck, shown)
         /\ Newest(Append(s, SyncMsg(ck)), ck, shown)
<1> DEFINE t == Append(s, SyncMsg(ck))
           n == Len(s) + 1
<1>1. /\ SyncMsg(ck) \in Msg /\ SyncMsg(ck).type = "TIME_SYNC"
      /\ SyncMsg(ck).clock = ck
  BY MsgTypes DEF SyncMsg
<1>2. /\ Len(s) \in Nat /\ Len(t) = n /\ t[n] = SyncMsg(ck)
      /\ \A i \in 1..Len(s) : t[i] = s[i] /\ i < n
      /\ \A i \in 1..n : i \in 1..Len(s) \/ i = n
  BY <1>1
<1>3. RunDown(s, ck, shown)
  BY RunDownKept
<1>4. \A i \in 1..Len(s) : Sync(s, i) => s[i].clock \in Clock
  BY SyncClock
<1> HIDE DEF t, n
<1>5. \A i \in 1..Len(t) : Sync(t, i) => \/ i = n /\ t[i].clock = ck
                                         \/ /\ i \in 1..Len(s) /\ Sync(s, i)
                                            /\ t[i].clock = s[i].clock
  BY <1>1, <1>2 DEF Sync
<1>6. \A c \in Color : ck[c] <= ck[c] /\ ck[c] <= shown[c]
  <2>1. ASSUME NEW c \in Color PROVE ck[c] <= ck[c]
    <3>1. ck[c] \in 0..TimeControl /\ TimeControl \in Nat
      BY BoundsAssumption DEF Clock
    <3> QED
      BY <3>1
  <2>2. \A c \in Color : ck[c] <= shown[c]
    BY <1>3 DEF RunDown
  <2> QED
    BY <2>1, <2>2
<1>7. \A i, j \in 1..Len(t) : i = n /\ i < j => FALSE
  BY <1>2 DEF n
<1>8. RunDown(t, ck, shown)
  <2>1. ASSUME NEW i \in 1..Len(t), Sync(t, i), NEW c \in Color
        PROVE  ck[c] <= t[i].clock[c] /\ t[i].clock[c] <= shown[c]
    BY <1>3, <1>5, <1>6, <2>1 DEF RunDown
  <2>2. ASSUME NEW i \in 1..Len(t), Sync(t, i), NEW c \in Color,
               NEW j \in 1..Len(t), Sync(t, j), i < j
        PROVE  t[j].clock[c] <= t[i].clock[c]
    <3>1. i \in 1..Len(s) /\ Sync(s, i) /\ t[i].clock = s[i].clock
      BY <1>5, <1>7, <2>2
    <3>2. CASE j = n /\ t[j].clock = ck
      BY <1>3, <3>1, <3>2 DEF RunDown
    <3>3. CASE j \in 1..Len(s) /\ Sync(s, j) /\ t[j].clock = s[j].clock
      BY <1>3, <2>2, <3>1, <3>3 DEF RunDown
    <3> QED
      BY <1>5, <2>2, <3>2, <3>3
  <2> QED
    BY <1>6, <2>1, <2>2 DEF RunDown
<1>9. Newest(t, ck, shown)
  <2>1. n \in 1..Len(t) /\ Sync(t, n) /\ t[n].clock = ck
    BY <1>1, <1>2 DEF Sync, n
  <2>2. \A j \in 1..Len(t) : j <= n
    BY <1>2 DEF n
  <2> QED
    BY <2>1, <2>2 DEF Newest
<1> QED
  BY <1>8, <1>9 DEF t

\* Deducting time only lowers clocks, and only the server deducts.
LEMMA DeductedBelow ==
  ASSUME TypeOK, NEW p \in Peer, NEW c \in Color, NEW ck \in Deducted(p, c)
  PROVE  /\ \A d \in Color : ck[d] <= clock[p][d]
         /\ ~(p = "SERVER" /\ ticking) => ck = clock[p]
<1>1. clock[p] \in Clock
  BY DEF TypeOK
<1>2. \A d \in Color : clock[p][d] <= clock[p][d]
  BY <1>1, BoundsAssumption DEF Clock
<1>3. ASSUME NEW left \in 0..clock[p][c], NEW d \in Color
      PROVE  [clock[p] EXCEPT ![c] = left][d] <= clock[p][d]
  BY <1>1, <1>2 DEF Clock
<1> QED
  BY <1>2, <1>3 DEF Deducted

\* The queues and the clocks after a step of p that, besides other packets, may
\* put the server's clocks at the end of the client's queue.
LEMMA ClocksTimed ==
  ASSUME IInv, ClocksInStep, NEW p \in Peer, NEW c \in Color,
         NEW ck \in Deducted(p, c), NEW b \in Seq(Msg), NEW q, q = Other(p),
         q = "CLIENT" => RunDown(b, clock["SERVER"], clock["CLIENT"]),
         q = "CLIENT" /\ link = "up" => Newest(b, clock["SERVER"], clock["CLIENT"]),
         q = "SERVER" => ~Has(b, {"TIME_SYNC"}),
         clock' = [clock EXCEPT ![p] = ck], UNCHANGED link,
         \/ inbox'[q] = Timed(p, ck, b)
         \/ link # "up" /\ inbox'[q] = inbox[q],
         p = "CLIENT" =>
           /\ RunDown(inbox'[p], clock["SERVER"], clock["CLIENT"])
           /\ link = "up" => Newest(inbox'[p], clock["SERVER"], clock["CLIENT"]),
         p = "SERVER" => ~Has(inbox'[p], {"TIME_SYNC"})
  PROVE  ClocksInStep'
<1>1. ck \in Clock /\ \A r \in Peer : clock[r] \in Clock /\ inbox[r] \in Seq(Msg)
  BY DeductedType DEF IInv, TypeOK
<1>2. \A d \in Color : ck[d] <= clock[p][d]
  BY DeductedBelow DEF IInv
<1>3. CASE p = "CLIENT"
  <2>1. q = "SERVER" /\ ck = clock[p]
    BY <1>3, DeductedBelow DEF Other, IInv
  <2>2. clock' = clock
    BY <2>1 DEF IInv, TypeOK
  <2>3. ~Has(inbox'["SERVER"], {"TIME_SYNC"})
    BY <1>3, <2>1 DEF Timed, ClocksInStep
  <2> QED
    BY <1>3, <2>2, <2>3 DEF ClocksInStep
<1>4. CASE p = "SERVER"
  <2>1. q = "CLIENT" /\ q \in Peer
    BY <1>4 DEF Other, Peer
  <2>2. clock'["SERVER"] = ck /\ clock'["CLIENT"] = clock["CLIENT"]
    BY <1>4, <2>1 DEF IInv, TypeOK
  <2>3. CASE link # "up" /\ inbox'[q] = inbox[q]
    <3>1. RunDown(inbox["CLIENT"], ck, clock["CLIENT"])
      BY <1>1, <1>2, <1>4, <2>1, RunDownKept DEF ClocksInStep
    <3> QED
      BY <1>4, <2>1, <2>2, <2>3, <3>1 DEF ClocksInStep
  <2>4. CASE inbox'[q] = Timed(p, ck, b)
    <3>1. CASE ticking
      <4>1. inbox'["CLIENT"] = Append(b, SyncMsg(ck))
        BY <1>4, <2>1, <2>4, <3>1 DEF Timed
      <4>2. /\ RunDown(Append(b, SyncMsg(ck)), ck, clock["CLIENT"])
            /\ Newest(Append(b, SyncMsg(ck)), ck, clock["CLIENT"])
        BY <1>1, <1>2, <1>4, <2>1, SyncWritten
      <4> QED
        BY <1>4, <2>2, <4>1, <4>2 DEF ClocksInStep
    <3>2. CASE ~ticking
      <4>1. inbox'["CLIENT"] = b /\ ck = clock["SERVER"]
        BY <1>4, <2>1, <2>4, <3>2, DeductedBelow DEF Timed, IInv
      <4> QED
        BY <1>4, <2>1, <2>2, <4>1 DEF ClocksInStep
    <3> QED
      BY <3>1, <3>2
  <2> QED
    BY <2>3, <2>4
<1> QED
  BY <1>3, <1>4 DEF Peer

\* A step that neither writes nor reads a TIME_SYNC.
LEMMA ClocksQuiet ==
  ASSUME IInv, ClocksInStep, UNCHANGED <<clock, link>>,
         \A r \in Peer :
           \/ inbox'[r] = inbox[r]
           \/ link # "up" /\ inbox'[r] = <<>>
           \/ \E msg \in Msg : msg.type # "TIME_SYNC" /\ inbox'[r] = Append(inbox[r], msg)
           \/ /\ inbox[r] # <<>> /\ Head(inbox[r]).type # "TIME_SYNC"
              /\ inbox'[r] = Tail(inbox[r])
  PROVE  ClocksInStep'
<1>1. \A r \in Peer : clock[r] \in Clock /\ inbox[r] \in Seq(Msg)
  BY DEF IInv, TypeOK
<1>2. "SERVER" \in Peer /\ "CLIENT" \in Peer
  BY DEF Peer
<1>3. RunDown(inbox'["CLIENT"], clock["SERVER"], clock["CLIENT"])
  BY <1>1, <1>2, RunDownKept DEF ClocksInStep
<1>4. link = "up" => Newest(inbox'["CLIENT"], clock["SERVER"], clock["CLIENT"])
  BY <1>1, <1>2, NewestKept DEF ClocksInStep
<1>5. ~Has(inbox'["SERVER"], {"TIME_SYNC"})
  <2>1. ~Has(inbox["SERVER"], {"TIME_SYNC"})
    BY DEF ClocksInStep
  <2>2. /\ ~Has(<<>>, {"TIME_SYNC"})
        /\ \A msg \in Msg : msg.type # "TIME_SYNC" =>
              ~Has(Append(inbox["SERVER"], msg), {"TIME_SYNC"})
        /\ inbox["SERVER"] # <<>> => ~Has(Tail(inbox["SERVER"]), {"TIME_SYNC"})
    BY <1>1, <1>2, <2>1, HasNothing, HasAppend, HasTail
  <2> QED
    BY <1>2, <2>1, <2>2
<1> QED
  BY <1>3, <1>4, <1>5 DEF ClocksInStep

\* The player's inputs keep the clocks in step.
LEMMA ClocksInput ==
  ASSUME IInv, ClocksInStep, NEW p \in Peer, PlayerInput(p)
  PROVE  ClocksInStep'
<1> DEFINE q == Other(p)
<1>1. q \in Peer /\ q # p /\ Other(q) = p /\ \A r \in Peer : r = p \/ r = q
  BY Swaps
<1>2. /\ \A r \in Peer : inbox[r] \in Seq(Msg) /\ clock[r] \in Clock
      /\ color[p] \in Color
  BY DEF IInv, TypeOK
<1>3. ASSUME NEW m \in Moves, TrySendLocalMove(p, m)
      PROVE  ClocksInStep'
  <2> DEFINE b == Moved(p, m, inbox[q])
             a == Refused(p, inbox[q])
  <2>1. PICK ck \in Deducted(p, color[p]) :
           /\ clock' = [clock EXCEPT ![p] = ck]
           /\ inbox'[p] \in {inbox[p], <<>>}
           /\ inbox'[q] \in {inbox[q], Timed(p, ck, b)}
           /\ link = "up" => inbox'[p] = inbox[p] /\ inbox'[q] = Timed(p, ck, b)
    BY <1>3, MoveQueues
  <2>2. UNCHANGED link
    BY <1>3 DEF TrySendLocalMove
  <2>3. /\ Bare("DRAW_DECLINE") \in Msg /\ Bare("DRAW_DECLINE").type # "TIME_SYNC"
        /\ MoveMsg(m) \in Msg /\ MoveMsg(m).type # "TIME_SYNC"
    BY MsgTypes DEF BareType, Bare
  <2>4. a \in Seq(Msg) /\ b = Append(a, MoveMsg(m)) /\ b \in Seq(Msg)
    BY <1>1, <1>2, <2>3 DEF Refused, Moved
  <2>5. ASSUME q = "CLIENT" PROVE RunDown(b, clock["SERVER"], clock["CLIENT"])
    <3>1. clock["SERVER"] \in Clock /\ clock["CLIENT"] \in Clock
      BY <1>2 DEF Peer
    <3>2. RunDown(inbox[q], clock["SERVER"], clock["CLIENT"]) /\ inbox[q] \in Seq(Msg)
      BY <1>1, <1>2, <2>5 DEF ClocksInStep
    <3>3. RunDown(a, clock["SERVER"], clock["CLIENT"])
      BY <2>3, <3>1, <3>2, RunDownKept DEF Refused
    <3> HIDE DEF a, b
    <3> QED
      BY <2>3, <2>4, <3>1, <3>3, RunDownKept
  <2>6. ASSUME q = "CLIENT", link = "up" PROVE Newest(b, clock["SERVER"], clock["CLIENT"])
    <3>1. Newest(inbox[q], clock["SERVER"], clock["CLIENT"]) /\ inbox[q] \in Seq(Msg)
      BY <1>1, <1>2, <2>6 DEF ClocksInStep
    <3>2. Newest(a, clock["SERVER"], clock["CLIENT"])
      BY <2>3, <3>1, NewestKept DEF Refused
    <3> HIDE DEF a, b
    <3> QED
      BY <2>3, <2>4, <3>2, NewestKept
  <2>7. ASSUME q = "SERVER" PROVE ~Has(b, {"TIME_SYNC"})
    <3>1. ~Has(inbox[q], {"TIME_SYNC"})
      BY <2>7 DEF ClocksInStep
    <3> QED
      BY <1>1, <1>2, <3>1, MovedFacts
  <2>8. p = "CLIENT" =>
           /\ RunDown(inbox'[p], clock["SERVER"], clock["CLIENT"])
           /\ link = "up" => Newest(inbox'[p], clock["SERVER"], clock["CLIENT"])
    <3>1. clock["SERVER"] \in Clock /\ clock["CLIENT"] \in Clock
      BY <1>2 DEF Peer
    <3> QED
      BY <1>2, <2>1, <3>1, RunDownKept DEF ClocksInStep
  <2>9. p = "SERVER" => ~Has(inbox'[p], {"TIME_SYNC"})
    BY <2>1, HasNothing DEF ClocksInStep
  <2>10. inbox'[q] = Timed(p, ck, b) \/ (link # "up" /\ inbox'[q] = inbox[q])
    BY <2>1
  <2> HIDE DEF a, b
  <2> QED
    BY <1>2, <2>1, <2>2, <2>4, <2>5, <2>6, <2>7, <2>8, <2>9, <2>10, ClocksTimed
<1>4. ASSUME Resign(p) \/ OfferDraw(p) \/ AcceptDraw(p) \/ DeclineDraw(p)
      PROVE  ClocksInStep'
  <2>1. PICK t \in BareType, over \in BOOLEAN :
           SendOrDisconnect(p, Sent(inbox, Other(p), Bare(t)), over)
    BY <1>4 DEF Resign, OfferDraw, AcceptDraw, DeclineDraw, BareType
  <2>2. Bare(t) \in Msg /\ Bare(t).type # "TIME_SYNC"
    BY MsgTypes DEF BareType, Bare
  <2>3. Writes(p, Bare(t)) /\ UNCHANGED <<clock, link>>
    BY <1>4, <2>1, <2>2, SendQueues DEF Resign, OfferDraw, AcceptDraw, DeclineDraw
  <2> QED
    BY <1>1, <2>2, <2>3, ClocksQuiet DEF Writes
<1> QED
  BY <1>3, <1>4 DEF PlayerInput

\* The packet handlers and a failed read keep the clocks in step.
LEMMA ClocksTick ==
  ASSUME IInv, ClocksInStep, NEW p \in Peer, NetTick(p)
  PROVE  ClocksInStep'
<1> DEFINE q == Other(p)
<1>1. q \in Peer /\ q # p /\ Other(q) = p /\ \A r \in Peer : r = p \/ r = q
  BY Swaps
<1>2. /\ \A r \in Peer : inbox[r] \in Seq(Msg) /\ clock[r] \in Clock
      /\ Opposite(color[p]) \in Color
  BY Swaps DEF IInv, TypeOK
<1>3. clock["SERVER"] \in Clock /\ clock["CLIENT"] \in Clock
  BY <1>2 DEF Peer
<1>4. CASE HandleMove(p)
  <2>1. /\ inbox[p] # <<>> /\ inbox'[p] = Tail(inbox[p]) /\ Head(inbox[p]).type = "MOVE"
        /\ UNCHANGED link
    BY <1>4, MoveReadQueues DEF HandleMove
  <2>2. PICK ck \in Deducted(p, Opposite(color[p])) :
          /\ clock' = [clock EXCEPT ![p] = ck]
          /\ inbox'[q] \in {inbox[q], Timed(p, ck, inbox[q])}
          /\ link = "up" => inbox'[q] = Timed(p, ck, inbox[q])
    BY <1>4, MoveReadQueues
  <2>3. p = "CLIENT" =>
           /\ RunDown(inbox'[p], clock["SERVER"], clock["CLIENT"])
           /\ link = "up" => Newest(inbox'[p], clock["SERVER"], clock["CLIENT"])
    BY <1>2, <1>3, <2>1, RunDownKept, NewestKept DEF ClocksInStep
  <2>4. p = "SERVER" => ~Has(inbox'[p], {"TIME_SYNC"})
    BY <1>2, <2>1, HasTail DEF ClocksInStep
  <2>5. /\ q = "CLIENT" => RunDown(inbox[q], clock["SERVER"], clock["CLIENT"])
        /\ q = "CLIENT" /\ link = "up" => Newest(inbox[q], clock["SERVER"], clock["CLIENT"])
        /\ q = "SERVER" => ~Has(inbox[q], {"TIME_SYNC"})
    BY DEF ClocksInStep
  <2>6. inbox'[q] = Timed(p, ck, inbox[q]) \/ (link # "up" /\ inbox'[q] = inbox[q])
    BY <2>2
  <2> QED
    BY <1>1, <1>2, <2>1, <2>2, <2>3, <2>4, <2>5, <2>6, ClocksTimed
<1>5. ASSUME \/ HandleResign(p) \/ HandleDrawOffer(p)
             \/ HandleDrawAccept(p) \/ HandleDrawDecline(p)
      PROVE  ClocksInStep'
  <2>1. Reads(p) /\ Head(inbox[p]).type # "TIME_SYNC" /\ UNCHANGED <<clock, link>>
    BY <1>5, ReadQueues DEF HandleResign, HandleDrawOffer, HandleDrawAccept,
                            HandleDrawDecline, Receive
  <2> QED
    BY <1>1, <2>1, ClocksQuiet DEF Reads
<1>6. CASE HandleTimeSync(p)
  <2>1. /\ Reads(p) /\ Head(inbox[p]).type = "TIME_SYNC" /\ UNCHANGED link
        /\ started[p]
    BY <1>6, ReadQueues DEF HandleTimeSync, Receive, IInv, OpenMeansStarted
  <2>2. p = "CLIENT" /\ q = "SERVER"
    <3>1. p # "SERVER"
      BY <2>1, HasTail DEF ClocksInStep, Reads
    <3> QED
      BY <3>1 DEF Peer, Other
  <2>3. clock' = [clock EXCEPT !["CLIENT"] = Head(inbox["CLIENT"]).clock]
    BY <1>6, <2>1, <2>2 DEF HandleTimeSync
  <2>4. /\ clock'["CLIENT"] = Head(inbox["CLIENT"]).clock
        /\ clock'["SERVER"] = clock["SERVER"]
    BY <2>3 DEF IInv, TypeOK, Peer
  <2>5. inbox["CLIENT"] \in Seq(Msg) /\ inbox["CLIENT"] # <<>>
    BY <2>1, <2>2 DEF Reads
  <2>6. /\ RunDown(Tail(inbox["CLIENT"]), clock["SERVER"], Head(inbox["CLIENT"]).clock)
        /\ link = "up" => Newest(Tail(inbox["CLIENT"]), clock["SERVER"], Head(inbox["CLIENT"]).clock)
    BY <1>3, <2>1, <2>2, <2>5, SyncRead DEF ClocksInStep
  <2> QED
    BY <2>1, <2>2, <2>4, <2>6 DEF ClocksInStep, Reads
<1>7. CASE ReceiveError(p)
  <2>1. UNCHANGED <<clock, link>> /\ link # "up"
    BY <1>7 DEF ReceiveError
  <2> QED
    BY <1>7, <2>1, ErrorFades, ClocksQuiet
<1> QED
  BY <1>4, <1>5, <1>6, <1>7 DEF NetTick, DispatchIncomingPacket

\* Every step keeps the clocks in step.
LEMMA ClocksNext ==
  ASSUME IInv, ClocksInStep, [Next]_vars
  PROVE  ClocksInStep'
<1>1. CASE ClockTimeout
  <2> DEFINE c  == SideToMove(hist["SERVER"])
             ck == [clock["SERVER"] EXCEPT ![c] = 0]
  <2>1. /\ clock["SERVER"] \in Clock /\ clock["CLIENT"] \in Clock
        /\ inbox["CLIENT"] \in Seq(Msg)
    BY DEF IInv, TypeOK, Peer
  <2>2. /\ c \in Color /\ ck \in Clock
        /\ clock' = [clock EXCEPT !["SERVER"] = ck]
        /\ inbox'["SERVER"] = inbox["SERVER"]
        /\ inbox'["CLIENT"] = IF link = "up" THEN Append(inbox["CLIENT"], SyncMsg(ck))
                                             ELSE inbox["CLIENT"]
        /\ UNCHANGED link
    BY <1>1, TimeoutQueues DEF ClockTimeout
  <2>3. \A d \in Color : ck[d] <= clock["SERVER"][d]
    BY <2>1, <2>2, BoundsAssumption DEF Clock
  <2> HIDE DEF c, ck
  <2>4. clock'["SERVER"] = ck /\ clock'["CLIENT"] = clock["CLIENT"]
    BY <2>2 DEF IInv, TypeOK, Peer
  <2>5. /\ RunDown(inbox["CLIENT"], ck, clock["CLIENT"])
        /\ RunDown(Append(inbox["CLIENT"], SyncMsg(ck)), ck, clock["CLIENT"])
        /\ Newest(Append(inbox["CLIENT"], SyncMsg(ck)), ck, clock["CLIENT"])
    BY <2>1, <2>2, <2>3, RunDownKept, SyncWritten DEF ClocksInStep
  <2> QED
    BY <2>2, <2>4, <2>5 DEF ClocksInStep
<1>2. CASE LinkBreak
  BY <1>2 DEF LinkBreak, ClocksInStep
<1>3. CASE UNCHANGED vars
  BY <1>3 DEF vars, ClocksInStep
<1> QED
  BY <1>1, <1>2, <1>3, ClocksInput, ClocksTick DEF Next

-----------------------------------------------------------------------------
(* The endings each program shows *)

\* Why p shows what it shows: a resignation on its way or shown was the other's
\* last word unless p has a result already; an acceptance, the same; and a draw
\* p alone shows is one it accepted, whose offer nobody has refused.
Explained(p) ==
  LET q == Other(p)
  IN  /\ Has(inbox[p], {"RESIGN"}) => outcome[q] = Resigned(color[q]) \/ Ended(p)
      /\ outcome[p] = Resigned(color[q]) => outcome[q] = outcome[p]
      /\ Has(inbox[p], {"DRAW_ACCEPT"}) => outcome[q] = "DRAW_AGREED" \/ Ended(p)
      /\ outcome[p] = "DRAW_AGREED" =>
           \/ outcome[q] = "DRAW_AGREED"
           \/ pending[q] /\ ~Has(inbox[q], {"DRAW_DECLINE"})

ZeroAtTimeout ==
  \A p \in Peer, c \in Color : outcome[p] = TimedOut(c) => clock[p][c] = 0

EndInv ==
  /\ IInv /\ BoardResultPrevails /\ OneOffer /\ ClocksInStep
  /\ \A p \in Peer : Explained(p)
  /\ ZeroAtTimeout

\* The results are different.
LEMMA OutcomesDiffer ==
  /\ "DRAW_AGREED" \notin BoardResult /\ "NONE" \notin BoardResult
  /\ \A c \in Color :
       /\ Resigned(c) \notin BoardResult \cup {"NONE", "DRAW_AGREED"}
       /\ TimedOut(c) \notin BoardResult \cup {"NONE", "DRAW_AGREED"}
       /\ \A d \in Color : /\ Resigned(c) # TimedOut(d)
                            /\ c # d => Resigned(c) # Resigned(d) /\ TimedOut(c) # TimedOut(d)
BY DEF Color, Resigned, TimedOut, BoardResult

\* The same for the two colours of a game.
LEMMA ResultsApart ==
  ASSUME NEW c \in Color, NEW d \in Color, c # d
  PROVE  /\ Resigned(c) \notin {"NONE", "DRAW_AGREED", Resigned(d)}
         /\ \A o \in BoardResult : o \notin {"NONE", "DRAW_AGREED", Resigned(c), Resigned(d)}
         /\ \A e \in Color : TimedOut(e) \notin {"NONE", "DRAW_AGREED", Resigned(c), Resigned(d)}
BY DEF Color, Resigned, TimedOut, BoardResult

\* Running out of time is no other ending.
LEMMA TimeoutsApart ==
  \A c, d \in Color : TimedOut(c) # "NONE" /\ TimedOut(c) # "DRAW_AGREED" /\ TimedOut(c) # Resigned(d)
BY DEF TimedOut, Resigned, Color

\* The two players have different colours.
LEMMA ColoursDiffer ==
  ASSUME IInv, NEW p \in Peer
  PROVE  /\ color[p] \in Color /\ color[Other(p)] \in Color
         /\ color[Other(p)] # color[p] /\ color[Other(p)] = Opposite(color[p])
BY Swaps DEF IInv, TypeOK, Other, Peer

\* A board's result is known; what a move leaves is it, or what was there.
LEMMA ResultOfBoard ==
  ASSUME IInv, NEW p \in Peer, NEW old
  PROVE  /\ Result(hist[p]) \in BoardResult \cup {"NONE"}
         /\ \/ OutcomeAfter(hist[p], old) = old /\ Result(hist[p]) = "NONE"
            \/ OutcomeAfter(hist[p], old) \in BoardResult /\ Result(hist[p]) # "NONE"
BY ResultType DEF IInv, TypeOK, Bounded, OutcomeAfter

\* p shows the move it plays and its result, if any.
LEMMA MoveOutcome ==
  ASSUME IInv, NEW p \in Peer, NEW m \in Moves, TrySendLocalMove(p, m)
  PROVE  LET q == Other(p) h == Append(hist[p], m) IN
         /\ ~Ended(p) /\ Legal(hist[p], m)
         /\ hist'[p] = h /\ hist'[q] = hist[q] /\ hist[q] = hist[p]
         /\ outcome'[p] = Result(h) /\ outcome'[q] = outcome[q]
         /\ outcome'[p] \in BoardResult \cup {"NONE"}
         /\ ~Has(inbox[p], {"MOVE"}) /\ ~Has(inbox[q], {"MOVE"})
<1> DEFINE q == Other(p)
           h == Append(hist[p], m)
<1>1. q \in Peer /\ q # p
  BY Swaps
<1>2. /\ ~Ended(p) /\ Legal(hist[p], m)
      /\ hist' = [hist EXCEPT ![p] = h]
      /\ outcome' = [outcome EXCEPT ![p] = OutcomeAfter(h, @)]
      /\ SideToMove(hist[p]) = color[p] /\ Len(hist[p]) < MaxPlies
  BY DEF TrySendLocalMove, InPlay, CanMove
<1>3. hist[p] = hist[q] /\ NoMove(inbox[p]) /\ NoMove(inbox[q])
  BY <1>2, MoverIsLevel
<1>4. h \in Seq(Moves) /\ Len(h) <= MaxPlies
  BY <1>2, BoundsAssumption DEF IInv, TypeOK
<1>5. Result(h) \in BoardResult \cup {"NONE"}
  BY <1>4, ResultType
<1>6. OutcomeAfter(h, outcome[p]) = Result(h)
  BY <1>2 DEF OutcomeAfter, Ended
<1> QED
  BY <1>1, <1>2, <1>3, <1>5, <1>6 DEF IInv, TypeOK, NoMove, Has

\* A result is only replaced by one the other program shows already.
LEMMA Overridden ==
  ASSUME IInv, BoardResultPrevails, NEW p \in Peer, HandleMove(p)
  PROVE  /\ outcome'[Other(p)] = outcome[Other(p)]
         /\ \/ outcome'[p] = outcome[p]
            \/ outcome'[p] \in BoardResult /\ outcome[Other(p)] \in BoardResult
<1>1. /\ outcome'[Other(p)] = outcome[Other(p)]
      /\ outcome'[p] = OutcomeAfter(hist[Other(p)], outcome[p])
      /\ Other(p) \in Peer
  BY MoveReadQueues, Swaps
<1> QED
  BY <1>1, ResultOfBoard DEF BoardResultPrevails

\* What is explained stays so as long as nothing but the board, or nobody, ends
\* p's game, and no word of the other's is written or taken back.
LEMMA ExplainedKept ==
  ASSUME NEW p \in Peer, NEW q, q = Other(p), Explained(p), IInv,
         outcome \in [Peer -> Outcome], UNCHANGED color,
         Has(inbox'[p], {"RESIGN"}) => Has(inbox[p], {"RESIGN"}),
         Has(inbox'[p], {"DRAW_ACCEPT"}) => Has(inbox[p], {"DRAW_ACCEPT"}),
         outcome[p] = "DRAW_AGREED" /\ Has(inbox'[q], {"DRAW_DECLINE"})
           => Has(inbox[q], {"DRAW_DECLINE"}),
         pending[q] => pending'[q],
         \/ outcome'[p] = outcome[p]
         \/ outcome'[p] \notin {"NONE", "DRAW_AGREED", Resigned(color[q])},
         outcome'[q] = outcome[q] \/ ~Ended(q) \/ outcome[p] \in BoardResult
  PROVE  Explained(p)'
<1>1. color[q] \in Color
  BY Swaps DEF IInv, TypeOK
<1>2. Ended(p) => Ended(p)'
  BY DEF Ended
<1>3. outcome[p] \in BoardResult => Ended(p) /\ outcome[p] \notin {"DRAW_AGREED", Resigned(color[q])}
  BY <1>1, OutcomesDiffer DEF Ended
<1>4. ~Ended(q) => outcome[q] \notin {"DRAW_AGREED", Resigned(color[q])}
  BY <1>1, OutcomesDiffer DEF Ended
<1>5. Has(inbox'[p], {"RESIGN"}) => outcome'[q] = Resigned(color'[q]) \/ Ended(p)'
  BY <1>2, <1>3, <1>4 DEF Explained
<1>6. outcome'[p] = Resigned(color'[q]) => outcome'[q] = outcome'[p]
  BY <1>3, <1>4 DEF Explained
<1>7. Has(inbox'[p], {"DRAW_ACCEPT"}) => outcome'[q] = "DRAW_AGREED" \/ Ended(p)'
  BY <1>2, <1>3, <1>4 DEF Explained
<1>8. outcome'[p] = "DRAW_AGREED" =>
           \/ outcome'[q] = "DRAW_AGREED"
           \/ pending'[q] /\ ~Has(inbox'[q], {"DRAW_DECLINE"})
  BY <1>3, <1>4 DEF Explained
<1> QED
  BY <1>5, <1>6, <1>7, <1>8 DEF Explained

\* The player's inputs leave every ending explained.
LEMMA ExplainedInput ==
  ASSUME EndInv, NEW p \in Peer, PlayerInput(p)
  PROVE  Explained(p)' /\ Explained(Other(p))'
<1> DEFINE q == Other(p)
           Answers == {"DRAW_ACCEPT", "DRAW_DECLINE"}
<1>1. q \in Peer /\ q # p /\ Other(q) = p
  BY Swaps
<1>2. IInv /\ OneOffer /\ Explained(p) /\ Explained(q)
  BY <1>1 DEF EndInv
<1>3. /\ outcome \in [Peer -> Outcome] /\ pending \in [Peer -> BOOLEAN]
      /\ inbox[p] \in Seq(Msg) /\ inbox[q] \in Seq(Msg)
      /\ color[p] \in Color /\ color[q] \in Color /\ color[p] # color[q]
  BY <1>1, <1>2, ColoursDiffer DEF IInv, TypeOK
<1>4. /\ Resigned(color[p]) \notin {"NONE", "DRAW_AGREED", Resigned(color[q])}
      /\ Resigned(color[q]) \notin {"NONE", "DRAW_AGREED"}
      /\ \A o \in BoardResult : o \notin {"NONE", "DRAW_AGREED", Resigned(color[p]), Resigned(color[q])}
  BY <1>3, ResultsApart
<1>5. ASSUME NEW m \in Moves, TrySendLocalMove(p, m)
      PROVE  Explained(p)' /\ Explained(q)'
  <2>1. /\ ~Ended(p) /\ outcome'[q] = outcome[q]
        /\ outcome'[p] \in BoardResult \cup {"NONE"}
        /\ UNCHANGED <<color, pending>>
    BY <1>2, <1>5, MoveOutcome DEF TrySendLocalMove
  <2>2. /\ \A T : Fades(inbox[p], inbox'[p], T)
        /\ Fades(inbox[q], inbox'[q], {"RESIGN"}) /\ Fades(inbox[q], inbox'[q], {"DRAW_ACCEPT"})
    <3>1. /\ {"MOVE", "TIME_SYNC"} \cap {"RESIGN"} = {} /\ "DRAW_DECLINE" \notin {"RESIGN"}
          /\ {"MOVE", "TIME_SYNC"} \cap {"DRAW_ACCEPT"} = {} /\ "DRAW_DECLINE" \notin {"DRAW_ACCEPT"}
      OBVIOUS
    <3> QED
      BY <1>2, <1>5, <3>1, MoveFades
  <2>3. outcome[p] # "DRAW_AGREED" /\ (outcome'[p] = outcome[p] \/ outcome'[p] \in BoardResult)
    BY <2>1 DEF Ended
  <2>4. Explained(p)'
    BY <1>1, <1>2, <1>3, <1>4, <2>1, <2>2, <2>3, ExplainedKept DEF Fades
  <2>5. Explained(q)'
    BY <1>1, <1>2, <1>3, <1>4, <2>1, <2>2, <2>3, ExplainedKept DEF Fades
  <2> QED
    BY <2>4, <2>5
<1>6. CASE Resign(p)
  <2>1. Bare("RESIGN") \in Msg /\ Bare("RESIGN").type = "RESIGN"
    BY MsgTypes DEF BareType
  <2>2. /\ Writes(p, Bare("RESIGN")) /\ UNCHANGED <<color, pending>> /\ ~Ended(p)
        /\ outcome'[p] = Resigned(color[p]) /\ outcome'[q] = outcome[q]
    BY <1>1, <1>2, <1>3, <1>6, <2>1, SendQueues DEF Resign, InPlay
  <2>3. /\ \A T : Fades(inbox[p], inbox'[p], T)
        /\ \A T : "RESIGN" \notin T => Fades(inbox[q], inbox'[q], T)
    BY <1>1, <1>2, <2>1, <2>2, WritesFade
  <2>4. Explained(p)'
    <3>1. "RESIGN" \notin {"DRAW_DECLINE"}
      OBVIOUS
    <3>2. Has(inbox'[q], {"DRAW_DECLINE"}) => Has(inbox[q], {"DRAW_DECLINE"})
      BY <2>3, <3>1 DEF Fades
    <3>3. /\ Has(inbox'[p], {"RESIGN"}) => Has(inbox[p], {"RESIGN"})
          /\ Has(inbox'[p], {"DRAW_ACCEPT"}) => Has(inbox[p], {"DRAW_ACCEPT"})
      BY <2>3 DEF Fades
    <3> QED
      BY <1>1, <1>2, <1>3, <1>4, <2>2, <3>2, <3>3, ExplainedKept
  <2>5. Explained(q)'
    <3>1. outcome'[p] = Resigned(color'[p])
      BY <2>2
    <3>2. outcome[q] # Resigned(color[p])
      BY <1>1, <1>2, <1>4, <2>2 DEF Explained, Ended
    <3>3. Has(inbox'[q], {"DRAW_ACCEPT"}) => Ended(q)'
      <4>1. "RESIGN" \notin {"DRAW_ACCEPT"}
        OBVIOUS
      <4>2. Has(inbox'[q], {"DRAW_ACCEPT"}) => Has(inbox[q], {"DRAW_ACCEPT"})
        BY <2>3, <4>1 DEF Fades
      <4> QED
        BY <1>1, <1>2, <2>2, <4>2 DEF Explained, Ended
    <3>4. outcome[q] = "DRAW_AGREED" => pending'[p] /\ ~Has(inbox'[p], {"DRAW_DECLINE"})
      BY <1>1, <1>2, <2>2, <2>3 DEF Explained, Ended, Fades
    <3> QED
      BY <1>1, <2>2, <3>1, <3>2, <3>3, <3>4 DEF Explained
  <2> QED
    BY <2>4, <2>5
<1>7. CASE OfferDraw(p)
  <2>1. Bare("DRAW_OFFER") \in Msg /\ Bare("DRAW_OFFER").type = "DRAW_OFFER"
    BY MsgTypes DEF BareType
  <2>2. /\ Writes(p, Bare("DRAW_OFFER")) /\ UNCHANGED <<color, outcome>>
        /\ pending'[p] /\ pending'[q] = pending[q]
    BY <1>1, <1>2, <1>3, <1>7, <2>1, SendQueues DEF OfferDraw
  <2>3. \A r \in Peer : \A T : "DRAW_OFFER" \notin T => Fades(inbox[r], inbox'[r], T)
    BY <1>1, <1>2, <2>1, <2>2, WritesFade, Swaps
  <2>4. \A r \in Peer, t \in {"RESIGN", "DRAW_ACCEPT", "DRAW_DECLINE"} :
           Has(inbox'[r], {t}) => Has(inbox[r], {t})
    BY <2>3 DEF Fades
  <2> QED
    BY <1>1, <1>2, <1>3, <2>2, <2>4, ExplainedKept
<1>8. CASE AcceptDraw(p)
  <2>1. Bare("DRAW_ACCEPT") \in Msg /\ Bare("DRAW_ACCEPT").type = "DRAW_ACCEPT"
    BY MsgTypes DEF BareType
  <2>2. /\ Writes(p, Bare("DRAW_ACCEPT")) /\ UNCHANGED <<color, pending>> /\ ~Ended(p)
        /\ outcome'[p] = "DRAW_AGREED" /\ outcome'[q] = outcome[q] /\ received[p]
    BY <1>1, <1>2, <1>3, <1>8, <2>1, SendQueues DEF AcceptDraw, InPlay
  <2>3. pending[q] /\ ~Has(inbox[q], Answers)
    BY <1>1, <1>2, <2>2 DEF OneOffer, OfferOf, OneOf
  <2>4. ~Has(inbox'[q], {"DRAW_DECLINE"})
    <3>1. ~Has(inbox[q], {"DRAW_DECLINE"})
      BY <2>3 DEF Has
    <3>2. Fades(inbox[q], inbox'[q], {"DRAW_DECLINE"})
      BY <1>2, <2>1, <2>2, WritesFade
    <3> QED
      BY <3>1, <3>2 DEF Fades
  <2>5. Explained(p)'
    BY <1>1, <1>4, <2>2, <2>3, <2>4 DEF Explained, Ended
  <2>6. Has(inbox'[q], {"RESIGN"}) => Ended(q)'
    <3>1. Fades(inbox[q], inbox'[q], {"RESIGN"})
      BY <1>2, <2>1, <2>2, WritesFade
    <3> QED
      BY <1>1, <1>2, <1>4, <2>2, <3>1 DEF Explained, Ended, Fades
  <2>7. outcome[q] # Resigned(color[p])
    BY <1>1, <1>2, <1>4, <2>2 DEF Explained, Ended
  <2>8. Explained(q)'
    BY <1>1, <2>2, <2>6, <2>7 DEF Explained
  <2> QED
    BY <2>5, <2>8
<1>9. CASE DeclineDraw(p)
  <2>1. Bare("DRAW_DECLINE") \in Msg /\ Bare("DRAW_DECLINE").type = "DRAW_DECLINE"
    BY MsgTypes DEF BareType
  <2>2. /\ Writes(p, Bare("DRAW_DECLINE")) /\ UNCHANGED <<color, pending, outcome>>
        /\ ~Ended(p)
    BY <1>1, <1>2, <1>3, <1>9, <2>1, SendQueues DEF DeclineDraw, InPlay
  <2>3. /\ \A T : Fades(inbox[p], inbox'[p], T)
        /\ \A T : "DRAW_DECLINE" \notin T => Fades(inbox[q], inbox'[q], T)
    BY <1>1, <1>2, <2>1, <2>2, WritesFade
  <2>4. outcome[p] # "DRAW_AGREED"
    BY <2>2 DEF Ended
  <2>5. \A t \in {"RESIGN", "DRAW_ACCEPT"} :
           /\ Has(inbox'[p], {t}) => Has(inbox[p], {t})
           /\ Has(inbox'[q], {t}) => Has(inbox[q], {t})
    BY <2>3 DEF Fades
  <2>6. Has(inbox'[p], {"DRAW_DECLINE"}) => Has(inbox[p], {"DRAW_DECLINE"})
    BY <2>3 DEF Fades
  <2> QED
    BY <1>1, <1>2, <1>3, <2>2, <2>4, <2>5, <2>6, ExplainedKept
<1> QED
  BY <1>5, <1>6, <1>7, <1>8, <1>9 DEF PlayerInput

\* The packet handlers and a failed read leave every ending explained.
LEMMA ExplainedTick ==
  ASSUME EndInv, NEW p \in Peer, NetTick(p)
  PROVE  Explained(p)' /\ Explained(Other(p))'
<1> DEFINE q == Other(p)
<1>1. q \in Peer /\ q # p /\ Other(q) = p
  BY Swaps
<1>2. IInv /\ BoardResultPrevails /\ Explained(p) /\ Explained(q)
  BY <1>1 DEF EndInv
<1>3. /\ outcome \in [Peer -> Outcome] /\ pending \in [Peer -> BOOLEAN]
      /\ inbox[p] \in Seq(Msg) /\ inbox[q] \in Seq(Msg)
      /\ color[p] \in Color /\ color[q] \in Color /\ color[p] # color[q]
      /\ color[q] = Opposite(color[p])
  BY <1>1, <1>2, ColoursDiffer DEF IInv, TypeOK
<1>4. /\ Resigned(color[p]) \notin {"NONE", "DRAW_AGREED", Resigned(color[q])}
      /\ Resigned(color[q]) \notin {"NONE", "DRAW_AGREED", Resigned(color[p])}
      /\ \A o \in BoardResult : o \notin {"NONE", "DRAW_AGREED", Resigned(color[p]), Resigned(color[q])}
      /\ \A c \in Color : TimedOut(c) \notin {"NONE", "DRAW_AGREED", Resigned(color[p]), Resigned(color[q])}
  BY <1>3, ResultsApart
<1> DEFINE Faded == \A r \in Peer, t \in {"RESIGN", "DRAW_ACCEPT", "DRAW_DECLINE"} :
                      Has(inbox'[r], {t}) => Has(inbox[r], {t})
<1>5. ASSUME Reads(p) PROVE Faded
  BY <1>5, ReadsFade DEF Fades
<1>6. ASSUME Faded, UNCHANGED <<color, pending>>, outcome'[q] = outcome[q],
             \/ outcome'[p] = outcome[p]
             \/ ~Ended(p) /\ outcome'[p] \notin {"NONE", "DRAW_AGREED", Resigned(color[q])}
             \/ outcome'[p] \in BoardResult /\ outcome[q] \in BoardResult
      PROVE  Explained(p)' /\ Explained(q)'
  <2>1. Explained(p)'
    BY <1>1, <1>2, <1>3, <1>4, <1>6, ExplainedKept
  <2>2. Explained(q)'
    BY <1>1, <1>2, <1>3, <1>4, <1>6, ExplainedKept
  <2> QED
    BY <2>1, <2>2
<1>7. CASE HandleMove(p)
  <2>1. Faded
    BY <1>2, <1>7, MoveReadFades DEF Fades
  <2>2. UNCHANGED <<color, pending>>
    BY <1>7 DEF HandleMove
  <2> QED
    BY <1>2, <1>6, <1>7, <2>1, <2>2, Overridden
<1>8. CASE HandleResign(p)
  <2>1. /\ Reads(p) /\ Head(inbox[p]).type = "RESIGN" /\ UNCHANGED <<color, pending>>
        /\ \/ outcome' = outcome
           \/ ~Ended(p) /\ outcome' = [outcome EXCEPT ![p] = Resigned(color[q])]
    BY <1>2, <1>3, <1>8, ReadQueues DEF HandleResign, Undecided, Receive
  <2>2. CASE outcome' = outcome
    BY <1>5, <1>6, <2>1, <2>2
  <2>3. CASE ~Ended(p) /\ outcome' = [outcome EXCEPT ![p] = Resigned(color[q])]
    <3>1. outcome'[p] = Resigned(color[q]) /\ outcome'[q] = outcome[q]
      BY <1>1, <1>3, <2>3
    <3>2. outcome[q] = Resigned(color[q])
      <4>1. Has(inbox[p], {"RESIGN"})
        BY <2>1, HasTail DEF Reads
      <4> QED
        BY <1>2, <2>3, <4>1 DEF Explained
    <3>3. Explained(p)'
      BY <1>4, <2>1, <3>1, <3>2 DEF Explained, Ended
    <3>4. Explained(q)'
      <4>1. outcome'[p] = outcome[p] \/ ~Ended(p)
        BY <2>3
      <4>2. Faded
        BY <1>5, <2>1
      <4> QED
        BY <1>1, <1>2, <1>3, <2>1, <3>1, <4>1, <4>2, ExplainedKept
    <3> QED
      BY <3>3, <3>4
  <2> QED
    BY <2>1, <2>2, <2>3
<1>9. CASE HandleDrawOffer(p)
  <2>1. Reads(p) /\ UNCHANGED <<color, pending, outcome>>
    BY <1>2, <1>9, ReadQueues DEF HandleDrawOffer
  <2> QED
    BY <1>5, <1>6, <2>1
<1>10. CASE HandleDrawAccept(p)
  <2>1. /\ Reads(p) /\ Head(inbox[p]).type = "DRAW_ACCEPT" /\ UNCHANGED color
        /\ \/ UNCHANGED <<outcome, pending>>
           \/ /\ ~Ended(p) /\ outcome' = [outcome EXCEPT ![p] = "DRAW_AGREED"]
              /\ pending' = [pending EXCEPT ![p] = FALSE]
    BY <1>2, <1>10, ReadQueues DEF HandleDrawAccept, Undecided, Receive
  <2>2. CASE UNCHANGED <<outcome, pending>>
    BY <1>5, <1>6, <2>1, <2>2
  <2>3. CASE /\ ~Ended(p) /\ outcome' = [outcome EXCEPT ![p] = "DRAW_AGREED"]
             /\ pending' = [pending EXCEPT ![p] = FALSE]
    <3>1. outcome'[p] = "DRAW_AGREED" /\ outcome'[q] = outcome[q]
      BY <1>1, <1>3, <2>3
    <3>2. outcome[q] = "DRAW_AGREED"
      <4>1. Has(inbox[p], {"DRAW_ACCEPT"})
        BY <2>1, HasTail DEF Reads
      <4> QED
        BY <1>2, <2>3, <4>1 DEF Explained
    <3>3. Explained(p)'
      BY <1>4, <2>1, <3>1, <3>2 DEF Explained, Ended
    <3>4. Explained(q)'
      BY <1>1, <1>4, <2>1, <3>1, <3>2 DEF Explained, Ended
    <3> QED
      BY <3>3, <3>4
  <2> QED
    BY <2>1, <2>2, <2>3
<1>11. CASE HandleDrawDecline(p)
  <2>1. /\ Reads(p) /\ Head(inbox[p]).type = "DRAW_DECLINE" /\ UNCHANGED <<color, outcome>>
        /\ pending' = [pending EXCEPT ![p] = FALSE]
    BY <1>2, <1>11, ReadQueues DEF HandleDrawDecline, Receive
  <2>2. Faded
    BY <1>5, <2>1
  <2>3. pending'[q] = pending[q]
    BY <1>1, <1>3, <2>1
  <2>4. Explained(p)'
    BY <1>1, <1>2, <1>3, <2>1, <2>2, <2>3, ExplainedKept
  <2>5. Explained(q)'
    <3>1. Has(inbox[p], {"DRAW_DECLINE"})
      BY <2>1, HasTail DEF Reads
    <3>2. outcome[q] = "DRAW_AGREED" => outcome[p] = "DRAW_AGREED"
      BY <1>1, <1>2, <3>1 DEF Explained
    <3> QED
      BY <1>1, <1>2, <2>1, <2>2, <3>2 DEF Explained, Ended
  <2> QED
    BY <2>4, <2>5
<1>12. CASE HandleTimeSync(p)
  <2>1. /\ Reads(p) /\ UNCHANGED <<color, pending>>
        /\ \/ outcome' = outcome
           \/ outcome' = [outcome EXCEPT ![p] = OutcomeAfterSync(Head(inbox[p]).clock, @)]
    BY <1>2, <1>12, ReadQueues DEF HandleTimeSync
  <2>2. \A ck, old : \/ OutcomeAfterSync(ck, old) = old
                     \/ old = "NONE" /\ OutcomeAfterSync(ck, old) \in {TimedOut("WHITE"), TimedOut("BLACK")}
    BY DEF OutcomeAfterSync
  <2>3. /\ outcome'[q] = outcome[q]
        /\ \/ outcome'[p] = outcome[p]
           \/ ~Ended(p) /\ \E c \in Color : outcome'[p] = TimedOut(c)
    <3>1. "WHITE" \in Color /\ "BLACK" \in Color
      BY DEF Color
    <3> QED
      BY <1>1, <1>3, <2>1, <2>2, <3>1 DEF Ended
  <2> QED
    BY <1>4, <1>5, <1>6, <2>1, <2>3
<1>13. CASE ReceiveError(p)
  <2>1. Faded
    BY <1>2, <1>13, ErrorFades DEF Fades
  <2>2. UNCHANGED <<color, outcome, pending>>
    BY <1>13 DEF ReceiveError
  <2> QED
    BY <1>6, <2>1, <2>2
<1> QED
  BY <1>7, <1>8, <1>9, <1>10, <1>11, <1>12, <1>13 DEF NetTick, DispatchIncomingPacket

\* No step leaves an ending unexplained.
LEMMA ExplainedNext ==
  ASSUME EndInv, [Next]_vars
  PROVE  \A p \in Peer : Explained(p)'
<1>1. IInv /\ \A p \in Peer : Explained(p)
  BY DEF EndInv
<1>2. CASE ClockTimeout
  <2>1. /\ UNCHANGED <<color, pending>> /\ ~Ended("SERVER")
        /\ "SERVER" \in Peer /\ "CLIENT" \in Peer
    BY <1>2 DEF ClockTimeout, Undecided, Peer
  <2>2. outcome'["CLIENT"] = outcome["CLIENT"]
        /\ \E c \in Color : outcome'["SERVER"] = TimedOut(c)
    BY <1>1, <1>2, <2>1, TimeoutQueues DEF IInv, TypeOK
  <2>3. \A c \in Color, d \in Color : TimedOut(c) \notin {"NONE", "DRAW_AGREED", Resigned(d)}
    BY TimeoutsApart
  <2>4. \A t \in {"RESIGN", "DRAW_ACCEPT", "DRAW_DECLINE"}, r \in Peer :
           Has(inbox'[r], {t}) => Has(inbox[r], {t})
    BY <1>1, <1>2, TimeoutFades DEF Fades
  <2>5. color["CLIENT"] \in Color /\ outcome \in [Peer -> Outcome]
    BY <1>1, <2>1 DEF IInv, TypeOK
  <2>6. Other("SERVER") = "CLIENT" /\ Other("CLIENT") = "SERVER"
    BY DEF Other
  <2>7. Explained("SERVER")'
    BY <1>1, <2>1, <2>2, <2>3, <2>4, <2>5, <2>6, ExplainedKept
  <2>8. Explained("CLIENT")'
    BY <1>1, <2>1, <2>2, <2>3, <2>4, <2>5, <2>6, ExplainedKept
  <2> QED
    BY <2>7, <2>8 DEF Peer
<1>3. CASE LinkBreak \/ UNCHANGED vars
  BY <1>1, <1>3 DEF LinkBreak, vars, Explained, Ended
<1>4. CASE \E p \in Peer : PlayerInput(p) \/ NetTick(p)
  <2>1. PICK p \in Peer : PlayerInput(p) \/ NetTick(p)
    BY <1>4
  <2>2. Explained(p)' /\ Explained(Other(p))'
    BY <2>1, ExplainedInput, ExplainedTick
  <2> QED
    BY <2>2, Swaps
<1> QED
  BY <1>2, <1>3, <1>4 DEF Next

-----------------------------------------------------------------------------
(* Timeouts *)

\* A clock at 0 stays there, whoever deducts what.
LEMMA ZeroKept ==
  ASSUME NEW r \in Peer, clock[r] \in Clock, clock'[r] \in Clock,
         \A c \in Color : clock'[r][c] <= clock[r][c],
         \A c \in Color : outcome[r] = TimedOut(c) => clock[r][c] = 0,
         \/ outcome'[r] = outcome[r]
         \/ \A c \in Color : outcome'[r] # TimedOut(c)
         \/ \E c \in Color : outcome'[r] = TimedOut(c) /\ clock'[r][c] = 0
  PROVE  \A c \in Color : outcome'[r] = TimedOut(c) => clock'[r][c] = 0
<1>1. \A c \in Color : clock[r][c] \in Nat /\ clock'[r][c] \in Nat
  BY BoundsAssumption DEF Clock
<1>2. \A c \in Color : clock[r][c] = 0 => clock'[r][c] = 0
  BY <1>1
<1>3. \A c, d \in Color : TimedOut(c) = TimedOut(d) => c = d
  BY DEF TimedOut, Color
<1> QED
  BY <1>2, <1>3

\* The clocks of p after a move of either player.
LEMMA MoveClocks ==
  ASSUME IInv, NEW p \in Peer, NEW c \in Color, NEW ck \in Deducted(p, c),
         clock' = [clock EXCEPT ![p] = ck]
  PROVE  \A r \in Peer : /\ clock[r] \in Clock /\ clock'[r] \in Clock
                         /\ \A d \in Color : clock'[r][d] <= clock[r][d]
<1>1. /\ clock \in [Peer -> Clock] /\ ck \in Clock
      /\ \A d \in Color : ck[d] <= clock[p][d]
  BY DeductedType, DeductedBelow DEF IInv, TypeOK
<1>2. \A r \in Peer, d \in Color : clock[r][d] \in Nat
  BY <1>1, BoundsAssumption DEF Clock
<1> QED
  BY <1>1, <1>2

\* A program that shows a timeout shows a clock at 0.
LEMMA ZeroNext ==
  ASSUME EndInv, [Next]_vars
  PROVE  ZeroAtTimeout'
<1>1. /\ IInv /\ BoardResultPrevails /\ ClocksInStep
      /\ \A r \in Peer, c \in Color : outcome[r] = TimedOut(c) => clock[r][c] = 0
  BY DEF EndInv, ZeroAtTimeout
<1>2. /\ clock \in [Peer -> Clock] /\ outcome \in [Peer -> Outcome]
      /\ \A r \in Peer : color[r] \in Color /\ Opposite(color[r]) \in Color
  BY <1>1, Swaps DEF IInv, TypeOK
<1>3. \A r \in Peer, c \in Color : clock[r][c] \in Nat
  BY <1>2, BoundsAssumption DEF Clock
<1>4. ASSUME NEW p \in Peer, NEW c \in Color, NEW ck \in Deducted(p, c),
             clock' = [clock EXCEPT ![p] = ck],
             \A r \in Peer : outcome'[r] = outcome[r] \/ outcome'[r] \in BoardResult \cup {"NONE"}
      PROVE  ZeroAtTimeout'
  <2>1. \A r \in Peer : outcome'[r] = outcome[r] \/ \A d \in Color : outcome'[r] # TimedOut(d)
    BY <1>4, OutcomesDiffer
  <2> QED
    BY <1>1, <1>4, <2>1, MoveClocks, ZeroKept DEF ZeroAtTimeout
<1>5. ASSUME UNCHANGED clock,
             \A r \in Peer : \/ outcome'[r] = outcome[r]
                             \/ outcome'[r] = "DRAW_AGREED"
                             \/ \E c \in Color : outcome'[r] = Resigned(c)
      PROVE  ZeroAtTimeout'
  <2>1. \A r \in Peer : outcome'[r] = outcome[r] \/ \A d \in Color : outcome'[r] # TimedOut(d)
    BY <1>5, TimeoutsApart
  <2> QED
    BY <1>1, <1>5, <2>1 DEF ZeroAtTimeout
<1>6. ASSUME NEW p \in Peer, NEW m \in Moves, TrySendLocalMove(p, m)
      PROVE  ZeroAtTimeout'
  <2>1. PICK ck \in Deducted(p, color[p]) : clock' = [clock EXCEPT ![p] = ck]
    BY <1>6 DEF TrySendLocalMove
  <2>2. /\ outcome'[p] \in BoardResult \cup {"NONE"}
        /\ outcome'[Other(p)] = outcome[Other(p)]
    BY <1>1, <1>6, MoveOutcome
  <2>3. \A r \in Peer : outcome'[r] = outcome[r] \/ outcome'[r] \in BoardResult \cup {"NONE"}
    BY <1>6, <2>2, Swaps
  <2> QED
    BY <1>2, <1>4, <1>6, <2>1, <2>3
<1>7. ASSUME NEW p \in Peer, Resign(p) \/ OfferDraw(p) \/ AcceptDraw(p) \/ DeclineDraw(p)
      PROVE  ZeroAtTimeout'
  BY <1>2, <1>5, <1>7 DEF Resign, OfferDraw, AcceptDraw, DeclineDraw
<1>8. ASSUME NEW p \in Peer, HandleMove(p)
      PROVE  ZeroAtTimeout'
  <2>1. PICK ck \in Deducted(p, Opposite(color[p])) : clock' = [clock EXCEPT ![p] = ck]
    BY <1>1, <1>8, MoveReadQueues
  <2>2. \A r \in Peer : outcome'[r] = outcome[r] \/ outcome'[r] \in BoardResult \cup {"NONE"}
    BY <1>1, <1>8, Overridden, Swaps
  <2> QED
    BY <1>2, <1>4, <1>8, <2>1, <2>2
<1>9. ASSUME NEW p \in Peer, \/ HandleResign(p) \/ HandleDrawOffer(p) \/ HandleDrawAccept(p)
                             \/ HandleDrawDecline(p) \/ ReceiveError(p)
      PROVE  ZeroAtTimeout'
  BY <1>2, <1>5, <1>9 DEF HandleResign, HandleDrawOffer, HandleDrawAccept,
                          HandleDrawDecline, ReceiveError
<1>10. ASSUME NEW p \in Peer, HandleTimeSync(p)
       PROVE  ZeroAtTimeout'
  <2> DEFINE ck == Head(inbox[p]).clock
  <2>1. /\ Reads(p) /\ Head(inbox[p]).type = "TIME_SYNC" /\ started[p]
        /\ clock' = [clock EXCEPT ![p] = ck]
        /\ outcome' = [outcome EXCEPT ![p] = OutcomeAfterSync(ck, @)]
    BY <1>1, <1>10, ReadQueues DEF HandleTimeSync, Receive, IInv, OpenMeansStarted
  <2>2. p = "CLIENT"
    <3>1. p # "SERVER"
      BY <1>1, <2>1, HasTail DEF ClocksInStep, Reads
    <3> QED
      BY <3>1 DEF Peer
  <2>3. ck \in Clock /\ \A d \in Color : ck[d] <= clock[p][d]
    <3>1. inbox[p] \in Seq(Msg) /\ 1 \in 1..Len(inbox[p]) /\ Head(inbox[p]) = inbox[p][1]
      BY <2>1 DEF Reads
    <3>2. Sync(inbox[p], 1)
      BY <2>1, <3>1 DEF Sync
    <3>3. ck \in Clock
      BY <3>1, <3>2, SyncClock
    <3> QED
      BY <1>1, <2>2, <3>1, <3>2, <3>3 DEF ClocksInStep, RunDown
  <2>4. \/ outcome'[p] = outcome[p]
        \/ \E c \in Color : outcome'[p] = TimedOut(c) /\ ck[c] = 0
    BY <1>2, <2>1 DEF OutcomeAfterSync, Color
  <2>5. \A c \in Color : outcome'[p] = TimedOut(c) => clock'[p][c] = 0
    <3>1. clock'[p] = ck
      BY <1>2, <2>1
    <3> HIDE DEF ck
    <3> QED
      BY <1>1, <1>2, <2>3, <2>4, <3>1, ZeroKept
  <2>6. clock'[Other(p)] = clock[Other(p)] /\ outcome'[Other(p)] = outcome[Other(p)]
    BY <1>2, <2>1, Swaps
  <2> QED
    BY <1>1, <2>5, <2>6, Swaps DEF ZeroAtTimeout
<1>11. CASE ClockTimeout
  <2> DEFINE c  == SideToMove(hist["SERVER"])
             ck == [clock["SERVER"] EXCEPT ![c] = 0]
  <2>1. /\ c \in Color /\ ck[c] = 0
        /\ clock' = [clock EXCEPT !["SERVER"] = ck]
        /\ outcome' = [outcome EXCEPT !["SERVER"] = TimedOut(c)]
    BY <1>1, <1>11, TimeoutQueues
  <2>2. clock'["SERVER"][c] = 0 /\ outcome'["SERVER"] = TimedOut(c)
    BY <1>2, <2>1 DEF Peer
  <2>3. clock'["CLIENT"] = clock["CLIENT"] /\ outcome'["CLIENT"] = outcome["CLIENT"]
    BY <1>2, <2>1 DEF Peer
  <2>4. \A d \in Color : outcome'["SERVER"] = TimedOut(d) => d = c
    BY <2>1, <2>2 DEF TimedOut, Color
  <2> QED
    BY <1>1, <2>2, <2>3, <2>4 DEF ZeroAtTimeout, Peer
<1>12. CASE LinkBreak \/ UNCHANGED vars
  BY <1>12, <1>1 DEF LinkBreak, vars, ZeroAtTimeout
<1> QED
  BY <1>6, <1>7, <1>8, <1>9, <1>10, <1>11, <1>12 DEF Next, PlayerInput, NetTick,
                                                      DispatchIncomingPacket

-----------------------------------------------------------------------------
(* The theorems *)

\* A new game satisfies the invariant of its endings.
LEMMA EndInit == Init => EndInv
<1> SUFFICES ASSUME Init PROVE EndInv
  OBVIOUS
<1>1. /\ \A p \in Peer : /\ outcome[p] = "NONE" /\ received[p] = FALSE /\ inbox[p] = <<>>
                         /\ clock[p] = [c \in Color |-> TimeControl] /\ hist[p] = <<>>
      /\ IInv
  BY InitInv DEF Init
<1>2. BoardResultPrevails
  BY <1>1, OpeningAssumption DEF BoardResultPrevails
<1>3. OneOffer
  BY <1>1, Swaps, HasNothing DEF OneOffer, OfferOf, OneOf
<1>4. ClocksInStep
  <2>1. "SERVER" \in Peer /\ "CLIENT" \in Peer
    BY DEF Peer
  <2>2. \A i \in 1..Len(<<>>) : FALSE
    OBVIOUS
  <2> QED
    BY <1>1, <2>1, <2>2, BoundsAssumption, HasNothing DEF ClocksInStep, RunDown, Newest
<1>5. \A p \in Peer : Explained(p)
  <2>1. \A p \in Peer : color[Other(p)] \in Color
    BY <1>1, Swaps DEF IInv, TypeOK
  <2> QED
    BY <1>1, <2>1, Swaps, HasNothing, OutcomesDiffer DEF Explained
<1>6. ZeroAtTimeout
  BY <1>1, TimeoutsApart DEF ZeroAtTimeout
<1> QED
  BY <1>1, <1>2, <1>3, <1>4, <1>5, <1>6 DEF EndInv

\* Every step preserves it.
LEMMA EndNext == EndInv /\ [Next]_vars => EndInv'
<1> SUFFICES ASSUME EndInv, [Next]_vars PROVE EndInv'
  OBVIOUS
<1>1. IInv /\ BoardResultPrevails /\ OneOffer /\ ClocksInStep
  BY DEF EndInv
<1>2. IInv' /\ BoardResultPrevails'
  BY <1>1, NextInv, BoardResultStep
<1>3. OneOffer' /\ ClocksInStep'
  BY <1>1, OfferNext, ClocksNext
<1>4. (\A p \in Peer : Explained(p)') /\ ZeroAtTimeout'
  BY ExplainedNext, ZeroNext
<1> QED
  BY <1>2, <1>3, <1>4 DEF EndInv

\* The invariant of the endings holds in every reachable state.
THEOREM EndInvariance == Spec => []EndInv
BY EndInit, EndNext, PTL DEF Spec

\* How many packets of the types T are in the queue of r.
LEMMA InFlightCount ==
  ASSUME NEW r \in Peer, inbox[r] \in Seq(Msg), NEW T
  PROVE  /\ ~Has(inbox[r], T) => Cardinality(InFlight(r, T)) = 0
         /\ Has(inbox[r], T) /\ One(inbox[r], T) => Cardinality(InFlight(r, T)) = 1
<1>1. ASSUME ~Has(inbox[r], T) PROVE Cardinality(InFlight(r, T)) = 0
  <2>1. InFlight(r, T) = {}
    BY <1>1 DEF InFlight, Has
  <2> QED
    BY <2>1, FS_EmptySet
<1>2. ASSUME Has(inbox[r], T), One(inbox[r], T) PROVE Cardinality(InFlight(r, T)) = 1
  <2>1. PICK i \in 1..Len(inbox[r]) : inbox[r][i].type \in T
    BY <1>2 DEF Has
  <2>2. InFlight(r, T) = {i}
    BY <1>2, <2>1 DEF InFlight, One
  <2> QED
    BY <2>2, FS_Singleton
<1> QED
  BY <1>1, <1>2

\* A draw offer is at one place at a time, in the queue, before the player or
\* on its way back as an answer, and pending all along: OfferButton keeps a
\* second one from being made before DRAW_ACCEPT or DRAW_DECLINE is read.
THEOREM OffersOneAtATime == Spec => []OneOfferOutstanding
<1>1. ASSUME EndInv PROVE OneOfferOutstanding
  <2> SUFFICES ASSUME NEW p \in Peer
               PROVE  Cardinality(InFlight(Other(p), {"DRAW_OFFER"}))
                        + Cardinality(InFlight(p, {"DRAW_ACCEPT", "DRAW_DECLINE"}))
                        + (IF received[Other(p)] THEN 1 ELSE 0)
                      <= (IF pending[p] THEN 1 ELSE 0)
    BY DEF OneOfferOutstanding
  <2>1. /\ Other(p) \in Peer /\ inbox[p] \in Seq(Msg) /\ inbox[Other(p)] \in Seq(Msg)
        /\ OfferOf(p)
    BY <1>1, Swaps DEF EndInv, OneOffer, IInv, TypeOK
  <2> DEFINE o == Cardinality(InFlight(Other(p), {"DRAW_OFFER"}))
             a == Cardinality(InFlight(p, {"DRAW_ACCEPT", "DRAW_DECLINE"}))
  <2>2. o = IF Has(inbox[Other(p)], {"DRAW_OFFER"}) THEN 1 ELSE 0
    BY <2>1, InFlightCount DEF OfferOf, OneOf
  <2>3. a = IF Has(inbox[p], {"DRAW_ACCEPT", "DRAW_DECLINE"}) THEN 1 ELSE 0
    BY <2>1, InFlightCount DEF OfferOf, OneOf
  <2> HIDE DEF o, a
  <2>4. o + a + (IF received[Other(p)] THEN 1 ELSE 0) <= (IF pending[p] THEN 1 ELSE 0)
    BY <2>1, <2>2, <2>3 DEF OfferOf, OneOf
  <2> QED
    BY <2>4 DEF o, a
<1> QED
  BY <1>1, EndInvariance, PTL

\* The client's clocks follow the server's from above, TIME_SYNC by TIME_SYNC,
\* and are equal once all are read: only the server deducts, and it sends what
\* it has deducted with every move and at the timeout.
THEOREM ClocksFollow == Spec => []ClocksRunTogether
<1>1. ASSUME EndInv PROVE ClocksRunTogether
  <2> DEFINE box == inbox["CLIENT"]
             syncs == InFlight("CLIENT", {"TIME_SYNC"})
  <2>1. syncs = {i \in 1..Len(box) : Sync(box, i)}
    BY DEF InFlight, Sync
  <2>2. RunDown(box, clock["SERVER"], clock["CLIENT"])
    BY <1>1 DEF EndInv, ClocksInStep
  <2>3. link = "up" => Newest(box, clock["SERVER"], clock["CLIENT"])
    BY <1>1 DEF EndInv, ClocksInStep
  <2>4. link = "up" =>
           IF syncs = {} THEN clock["CLIENT"] = clock["SERVER"]
           ELSE \E i \in syncs : /\ \A j \in syncs : j <= i
                                 /\ box[i].clock = clock["SERVER"]
    BY <2>1, <2>3 DEF Newest
  <2>5. /\ \A c \in Color : clock["SERVER"][c] <= clock["CLIENT"][c]
        /\ \A i \in syncs, c \in Color :
             /\ clock["SERVER"][c] <= box[i].clock[c]
             /\ box[i].clock[c] <= clock["CLIENT"][c]
             /\ \A j \in syncs : i < j => box[j].clock[c] <= box[i].clock[c]
    BY <2>1, <2>2 DEF RunDown
  <2> QED
    BY <2>4, <2>5 DEF ClocksRunTogether
<1> QED
  BY <1>1, EndInvariance, PTL

\* No program shows a decision nobody took: handle_resign_packet,
\* handle_draw_accept_packet and handle_time_sync_packet set an outcome only
\* after the other program, or the server's clock, did.
THEOREM EndingsAreReal == Spec => []NoInventedEnding
<1>1. EndInv => NoInventedEnding
  BY DEF EndInv, Explained, ZeroAtTimeout, NoInventedEnding
<1> QED
  BY <1>1, EndInvariance, PTL

-----------------------------------------------------------------------------
(* Endings that differ are decisions that crossed, or follow a timeout the    *)
(* client called by itself.  It takes that an ending one program alone shows  *)
(* is on its way to the other, or such a timeout (ToldOf), and that a result  *)
(* of the board is the result of that board.                                  *)

\* A TIME_SYNC that ends the game.
ZeroSync(s) == \E i \in 1..Len(s) : Sync(s, i) /\ \E c \in Color : s[i].clock[c] = 0

\* What will end q's game, or why p's alone has ended.
Telling(p, q) ==
  \/ Has(inbox[q], {"RESIGN"})
  \/ Has(inbox[q], {"DRAW_ACCEPT"}) /\ pending[q]
  \/ Has(inbox[q], {"MOVE"}) /\ Result(hist[p]) # "NONE"
  \/ q = "CLIENT" /\ ZeroSync(inbox[q])
  \/ p = "CLIENT" /\ \E c \in Color : outcome[p] = TimedOut(c)

ToldOf(p) == link = "up" /\ Ended(p) /\ ~Ended(Other(p)) => Telling(p, Other(p))

\* Boards that differ wait for a MOVE.
Level == link = "up" => \/ hist["SERVER"] = hist["CLIENT"]
                       \/ \E p \in Peer : Has(inbox[p], {"MOVE"})

\* No move is made on a board that has a result.
MovePastEnd == \A p \in Peer : Has(inbox[p], {"MOVE"}) => Result(hist[p]) = "NONE"

\* A result of the board is recorded from the board.
BoardOutcome == \A p \in Peer : outcome[p] \in BoardResult => Result(hist[p]) = outcome[p]

RestInv == EndInv /\ Level /\ MovePastEnd /\ BoardOutcome /\ \A p \in Peer : ToldOf(p)

-----------------------------------------------------------------------------
(* Queues *)

\* The queue t has whatever the queue s has, packets of the types T apart.
Keeps(s, t, T) == /\ \A U : U \cap T = {} /\ Has(s, U) => Has(t, U)
                  /\ "TIME_SYNC" \notin T /\ ZeroSync(s) => ZeroSync(t)

\* A write adds, a read takes the head.
LEMMA QueueKeeps ==
  ASSUME NEW s \in Seq(Msg)
  PROVE  /\ \A T : Keeps(s, s, T)
         /\ \A msg \in Msg : \A T : Keeps(s, Append(s, msg), T)
         /\ s # <<>> => Keeps(s, Tail(s), {Head(s).type})
<1>1. \A T : Keeps(s, s, T)
  BY DEF Keeps
<1>2. ASSUME NEW msg \in Msg, NEW T PROVE Keeps(s, Append(s, msg), T)
  <2>1. /\ \A i \in 1..Len(s) : i \in 1..Len(Append(s, msg)) /\ Append(s, msg)[i] = s[i]
    OBVIOUS
  <2> QED
    BY <2>1 DEF Keeps, Has, ZeroSync, Sync
<1>3. ASSUME s # <<>> PROVE Keeps(s, Tail(s), {Head(s).type})
  <2>1. Len(s) \in Nat \ {0} /\ Len(Tail(s)) = Len(s) - 1 /\ Head(s) = s[1]
    BY <1>3
  <2>2. \A i \in 1..Len(s) : i # 1 => i - 1 \in 1..Len(Tail(s)) /\ Tail(s)[i - 1] = s[i]
    BY <1>3, <2>1
  <2>3. ASSUME NEW U, U \cap {Head(s).type} = {}, Has(s, U) PROVE Has(Tail(s), U)
    <3>1. Head(s).type \notin U
      BY <2>3
    <3> QED
      BY <1>3, <2>3, <3>1, HasTail
  <2>4. ASSUME "TIME_SYNC" # Head(s).type, ZeroSync(s) PROVE ZeroSync(Tail(s))
    <3>1. PICK i \in 1..Len(s) : Sync(s, i) /\ \E c \in Color : s[i].clock[c] = 0
      BY <2>4 DEF ZeroSync
    <3>2. i # 1
      BY <2>1, <2>4, <3>1 DEF Sync
    <3> QED
      BY <2>2, <3>1, <3>2 DEF ZeroSync, Sync
  <2> QED
    BY <2>3, <2>4 DEF Keeps
<1> QED
  BY <1>1, <1>2, <1>3

\* What a write keeps in the two queues, and what it puts there.
LEMMA WritesKeep ==
  ASSUME IInv, NEW p \in Peer, NEW msg \in Msg, Writes(p, msg), link = "up"
  PROVE  /\ \A r \in Peer : \A T : Keeps(inbox[r], inbox'[r], T)
         /\ Has(inbox'[Other(p)], {msg.type})
<1>1. inbox[p] \in Seq(Msg) /\ inbox[Other(p)] \in Seq(Msg)
  BY Swaps DEF IInv, TypeOK
<1>2. inbox'[p] = inbox[p] /\ inbox'[Other(p)] = Append(inbox[Other(p)], msg)
  BY DEF Writes
<1>3. /\ \A T : Keeps(inbox[p], inbox'[p], T)
      /\ \A T : Keeps(inbox[Other(p)], inbox'[Other(p)], T)
  BY <1>1, <1>2, QueueKeeps
<1>4. Has(inbox'[Other(p)], {msg.type})
  BY <1>1, <1>2, HasAppend
<1> QED
  BY <1>3, <1>4, Swaps

\* What a read keeps.
LEMMA ReadsKeep ==
  ASSUME IInv, NEW p \in Peer, Reads(p)
  PROVE  /\ Keeps(inbox[p], inbox'[p], {Head(inbox[p]).type})
         /\ \A T : Keeps(inbox[Other(p)], inbox'[Other(p)], T)
         /\ Has(inbox[p], {Head(inbox[p]).type})
<1>1. inbox[p] \in Seq(Msg) /\ inbox[Other(p)] \in Seq(Msg)
  BY Swaps DEF IInv, TypeOK
<1> QED
  BY <1>1, QueueKeeps, HasTail DEF Reads

\* What is left in the queues by p's move and by p's reading of a MOVE.
LEMMA MoveKeeps ==
  ASSUME IInv, NEW p \in Peer, link = "up"
  PROVE  /\ \A m \in Moves : TrySendLocalMove(p, m) =>
              inbox'[p] = inbox[p] /\ Has(inbox'[Other(p)], {"MOVE"})
         /\ HandleMove(p) =>
                   /\ Keeps(inbox[p], inbox'[p], {"MOVE"})
                   /\ \A T : Keeps(inbox[Other(p)], inbox'[Other(p)], T)
<1>1. /\ inbox[p] \in Seq(Msg) /\ inbox[Other(p)] \in Seq(Msg)
      /\ Opposite(color[p]) \in Color
  BY Swaps DEF IInv, TypeOK
<1>2. ASSUME NEW m \in Moves, TrySendLocalMove(p, m)
      PROVE  inbox'[p] = inbox[p] /\ Has(inbox'[Other(p)], {"MOVE"})
  <2>1. inbox'[p] = inbox[p]
    BY <1>2, MoveQueues
  <2>2. "TIME_SYNC" \notin {"MOVE"}
    OBVIOUS
  <2> QED
    BY <1>2, <2>1, <2>2, MoveFades
<1>3. ASSUME HandleMove(p)
      PROVE  /\ Keeps(inbox[p], inbox'[p], {"MOVE"})
             /\ \A T : Keeps(inbox[Other(p)], inbox'[Other(p)], T)
  <2>1. PICK ck \in Deducted(p, Opposite(color[p])) :
          inbox'[Other(p)] = Timed(p, ck, inbox[Other(p)])
    BY <1>3, MoveReadQueues
  <2>2. SyncMsg(ck) \in Msg
    BY <1>1, DeductedType, MsgTypes DEF IInv
  <2>3. \A T : Keeps(inbox[Other(p)], inbox'[Other(p)], T)
    BY <1>1, <2>1, <2>2, QueueKeeps DEF Timed
  <2>4. inbox[p] # <<>> /\ inbox'[p] = Tail(inbox[p]) /\ Head(inbox[p]).type = "MOVE"
    BY <1>3, MoveReadQueues
  <2>5. Keeps(inbox[p], inbox'[p], {"MOVE"})
    BY <1>1, <2>4, QueueKeeps
  <2> QED
    BY <2>3, <2>5
<1> QED
  BY <1>2, <1>3

-----------------------------------------------------------------------------
(* The boards and their results *)

\* A step that is not a move leaves the boards, what is on its way between them
\* and the results they show.
LEMMA BoardsKept ==
  ASSUME EndInv, Next, ~\E p \in Peer : HandleMove(p) \/ \E m \in Moves : TrySendLocalMove(p, m)
  PROVE  /\ hist' = hist
         /\ \A r \in Peer : Fades(inbox[r], inbox'[r], {"MOVE"})
         /\ link' = "up" => \A r \in Peer : Has(inbox[r], {"MOVE"}) => Has(inbox'[r], {"MOVE"})
         /\ \A r \in Peer : outcome'[r] = outcome[r] \/ outcome'[r] \notin BoardResult
<1>1. IInv /\ outcome \in [Peer -> Outcome]
      /\ \A r \in Peer : color[r] \in Color /\ Opposite(color[r]) \in Color
  BY Swaps DEF EndInv, IInv, TypeOK
<1>2. ASSUME NEW p \in Peer, Resign(p) \/ OfferDraw(p) \/ AcceptDraw(p) \/ DeclineDraw(p)
      PROVE  /\ hist' = hist
             /\ \A r \in Peer : Fades(inbox[r], inbox'[r], {"MOVE"})
             /\ link' = "up" => \A r \in Peer : Has(inbox[r], {"MOVE"}) => Has(inbox'[r], {"MOVE"})
             /\ \A r \in Peer : outcome'[r] = outcome[r] \/ outcome'[r] \notin BoardResult
  <2>1. PICK t \in BareType, over \in BOOLEAN :
           SendOrDisconnect(p, Sent(inbox, Other(p), Bare(t)), over)
    BY <1>2 DEF Resign, OfferDraw, AcceptDraw, DeclineDraw, BareType
  <2>2. Bare(t) \in Msg /\ Bare(t).type \notin {"MOVE"}
    BY MsgTypes DEF BareType, Bare
  <2>3. Writes(p, Bare(t)) /\ UNCHANGED <<hist, link>>
    BY <1>1, <1>2, <2>1, <2>2, SendQueues DEF Resign, OfferDraw, AcceptDraw, DeclineDraw
  <2>4. \A r \in Peer : Fades(inbox[r], inbox'[r], {"MOVE"})
    BY <1>1, <2>2, <2>3, WritesFade, Swaps
  <2>5. link' = "up" => \A r \in Peer : Has(inbox[r], {"MOVE"}) => Has(inbox'[r], {"MOVE"})
    <3>1. link' = "up" => \A r \in Peer : Keeps(inbox[r], inbox'[r], {})
      BY <1>1, <2>2, <2>3, WritesKeep
    <3> QED
      BY <3>1 DEF Keeps
  <2>6. \A r \in Peer : \/ outcome'[r] = outcome[r] \/ outcome'[r] = "DRAW_AGREED"
                        \/ outcome'[r] = Resigned(color[p])
    BY <1>1, <1>2 DEF Resign, OfferDraw, AcceptDraw, DeclineDraw
  <2> QED
    BY <1>1, <2>3, <2>4, <2>5, <2>6, OutcomesDiffer
<1>3. ASSUME NEW p \in Peer, \/ HandleResign(p) \/ HandleDrawOffer(p) \/ HandleDrawAccept(p)
                             \/ HandleDrawDecline(p) \/ HandleTimeSync(p)
      PROVE  /\ hist' = hist
             /\ \A r \in Peer : Fades(inbox[r], inbox'[r], {"MOVE"})
             /\ link' = "up" => \A r \in Peer : Has(inbox[r], {"MOVE"}) => Has(inbox'[r], {"MOVE"})
             /\ \A r \in Peer : outcome'[r] = outcome[r] \/ outcome'[r] \notin BoardResult
  <2>1. Reads(p) /\ Head(inbox[p]).type # "MOVE" /\ UNCHANGED hist
    BY <1>1, <1>3, ReadQueues DEF HandleResign, HandleDrawOffer, HandleDrawAccept,
                                  HandleDrawDecline, HandleTimeSync, Receive
  <2>2. \A r \in Peer : Fades(inbox[r], inbox'[r], {"MOVE"})
    BY <2>1, ReadsFade
  <2>3. \A r \in Peer : Has(inbox[r], {"MOVE"}) => Has(inbox'[r], {"MOVE"})
    <3>1. {"MOVE"} \cap {Head(inbox[p]).type} = {} /\ {"MOVE"} \cap {} = {}
      BY <2>1
    <3>2. Keeps(inbox[p], inbox'[p], {Head(inbox[p]).type})
      BY <1>1, <2>1, ReadsKeep
    <3>3. Keeps(inbox[Other(p)], inbox'[Other(p)], {})
      BY <1>1, <2>1, ReadsKeep
    <3>4. Has(inbox[p], {"MOVE"}) => Has(inbox'[p], {"MOVE"})
      BY <3>1, <3>2 DEF Keeps
    <3>5. Has(inbox[Other(p)], {"MOVE"}) => Has(inbox'[Other(p)], {"MOVE"})
      BY <3>1, <3>3 DEF Keeps
    <3> QED
      BY <3>4, <3>5, Swaps DEF Peer
  <2>4. \A ck, old : \/ OutcomeAfterSync(ck, old) = old
                     \/ OutcomeAfterSync(ck, old) \in {TimedOut("WHITE"), TimedOut("BLACK")}
    BY DEF OutcomeAfterSync
  <2>5. \A r \in Peer : \/ outcome'[r] = outcome[r] \/ outcome'[r] = "DRAW_AGREED"
                        \/ \E c \in Color : outcome'[r] \in {Resigned(c), TimedOut(c)}
    <3>1. "WHITE" \in Color /\ "BLACK" \in Color
      BY DEF Color
    <3> QED
      BY <1>1, <1>3, <2>4, <3>1 DEF HandleResign, HandleDrawOffer, HandleDrawAccept,
                                     HandleDrawDecline, HandleTimeSync
  <2> QED
    BY <2>1, <2>2, <2>3, <2>5, OutcomesDiffer
<1>4. ASSUME NEW p \in Peer, ReceiveError(p)
      PROVE  /\ hist' = hist /\ link' # "up" /\ outcome' = outcome
             /\ \A r \in Peer : Fades(inbox[r], inbox'[r], {"MOVE"})
  BY <1>1, <1>4, ErrorFades DEF ReceiveError
<1>5. CASE ClockTimeout
  <2>1. \A r \in Peer : Fades(inbox[r], inbox'[r], {"MOVE"})
    <3>1. "TIME_SYNC" \notin {"MOVE"}
      OBVIOUS
    <3> QED
      BY <1>1, <1>5, <3>1, TimeoutFades
  <2>2. \A r \in Peer : Has(inbox[r], {"MOVE"}) => Has(inbox'[r], {"MOVE"})
    <3>1. inbox["CLIENT"] \in Seq(Msg)
      BY <1>1 DEF IInv, TypeOK, Peer
    <3> QED
      BY <1>1, <1>5, <3>1, TimeoutQueues, HasAppend DEF Peer
  <2>3. \A r \in Peer : outcome'[r] = outcome[r] \/ \E c \in Color : outcome'[r] = TimedOut(c)
    BY <1>1, <1>5, TimeoutQueues
  <2>4. \A r \in Peer : outcome'[r] = outcome[r] \/ outcome'[r] \notin BoardResult
    BY <2>3, OutcomesDiffer
  <2> QED
    BY <1>5, <2>1, <2>2, <2>4 DEF ClockTimeout
<1>6. CASE LinkBreak
  BY <1>6 DEF LinkBreak, Fades
<1> QED
  BY <1>2, <1>3, <1>4, <1>5, <1>6 DEF Next, PlayerInput, NetTick, DispatchIncomingPacket

\* Every step keeps the boards level, the moves on boards without a result, and
\* the results those of the boards.
LEMMA BoardsNext ==
  ASSUME EndInv, Level, MovePastEnd, BoardOutcome, [Next]_vars
  PROVE  Level' /\ MovePastEnd' /\ BoardOutcome'
<1>1. /\ IInv /\ BoardResultPrevails
      /\ "SERVER" \in Peer /\ "CLIENT" \in Peer
      /\ \A r \in Peer : r = "SERVER" \/ r = "CLIENT"
  BY DEF EndInv, Peer
<1>2. CASE UNCHANGED vars
  BY <1>2 DEF vars, Level, MovePastEnd, BoardOutcome
<1>3. CASE Next /\ ~\E p \in Peer : HandleMove(p) \/ \E m \in Moves : TrySendLocalMove(p, m)
  <2>1. /\ hist' = hist
        /\ \A r \in Peer : Has(inbox'[r], {"MOVE"}) => Has(inbox[r], {"MOVE"})
        /\ link' = "up" => \A r \in Peer : Has(inbox[r], {"MOVE"}) => Has(inbox'[r], {"MOVE"})
        /\ \A r \in Peer : outcome'[r] = outcome[r] \/ outcome'[r] \notin BoardResult
    BY <1>3, BoardsKept DEF Fades
  <2>2. link' = "up" => link = "up"
    BY <1>3 DEF Next, PlayerInput, NetTick, DispatchIncomingPacket, TrySendLocalMove,
                Resign, OfferDraw, AcceptDraw, DeclineDraw, HandleMove, HandleResign,
                HandleDrawOffer, HandleDrawAccept, HandleDrawDecline, HandleTimeSync,
                ReceiveError, ClockTimeout, LinkBreak
  <2>3. Level'
    BY <2>1, <2>2 DEF Level
  <2>4. MovePastEnd'
    BY <2>1 DEF MovePastEnd
  <2>5. BoardOutcome'
    BY <2>1 DEF BoardOutcome
  <2> QED
    BY <2>3, <2>4, <2>5
<1>4. ASSUME NEW p \in Peer, NEW m \in Moves, TrySendLocalMove(p, m)
      PROVE  Level' /\ MovePastEnd' /\ BoardOutcome'
  <2> DEFINE q == Other(p)
             h == Append(hist[p], m)
  <2>1. /\ q \in Peer /\ q # p /\ \A r \in Peer : r = p \/ r = q
        /\ ~Ended(p) /\ hist'[p] = h /\ hist'[q] = hist[q] /\ hist[q] = hist[p]
        /\ outcome'[p] = Result(h) /\ outcome'[q] = outcome[q]
        /\ ~Has(inbox[p], {"MOVE"})
        /\ link' = link
    BY <1>1, <1>4, MoveOutcome, Swaps DEF TrySendLocalMove
  <2>2. Result(hist[p]) = "NONE"
    BY <1>1, <2>1 DEF BoardResultPrevails, Ended
  <2>3. ~Has(inbox'[p], {"MOVE"})
    BY <1>1, <1>4, <2>1, MoveFades DEF Fades
  <2>4. link = "up" => Has(inbox'[q], {"MOVE"})
    BY <1>1, <1>4, MoveKeeps
  <2>5. Level'
    BY <2>1, <2>4 DEF Level
  <2>6. MovePastEnd'
    BY <2>1, <2>2, <2>3 DEF MovePastEnd
  <2>7. BoardOutcome'
    BY <2>1 DEF BoardOutcome
  <2> QED
    BY <2>5, <2>6, <2>7
<1>5. ASSUME NEW p \in Peer, HandleMove(p)
      PROVE  Level' /\ MovePastEnd' /\ BoardOutcome'
  <2> DEFINE q == Other(p)
  <2>1. /\ q \in Peer /\ q # p /\ \A r \in Peer : r = p \/ r = q
        /\ hist'[p] = hist[q] /\ hist'[q] = hist[q]
        /\ outcome'[p] = OutcomeAfter(hist[q], outcome[p]) /\ outcome'[q] = outcome[q]
        /\ ~Has(inbox'[p], {"MOVE"}) /\ ~Has(inbox[q], {"MOVE"})
    BY <1>1, <1>5, MoveReadQueues, Swaps
  <2>2. ~Has(inbox'[q], {"MOVE"})
    <3>1. "TIME_SYNC" \notin {"MOVE"}
      OBVIOUS
    <3> QED
      BY <1>1, <1>5, <2>1, <3>1, MoveReadFades DEF Fades
  <2>3. Result(hist[p]) = "NONE"
    <3>1. inbox[p] \in Seq(Msg) /\ inbox[p] # <<>> /\ Head(inbox[p]).type = "MOVE"
      BY <1>1, <1>5, MoveReadQueues DEF IInv, TypeOK
    <3>2. Has(inbox[p], {"MOVE"})
      BY <3>1, HasTail
    <3> QED
      BY <3>2 DEF MovePastEnd
  <2>4. Level'
    <3>1. hist'["SERVER"] = hist'["CLIENT"]
      BY <1>1, <2>1
    <3> QED
      BY <3>1 DEF Level
  <2>5. MovePastEnd'
    BY <2>1, <2>2 DEF MovePastEnd
  <2>6. BoardOutcome'
    <3>1. outcome[p] \notin BoardResult
      BY <2>3, OutcomesDiffer DEF BoardOutcome
    <3>2. outcome'[p] \in BoardResult => Result(hist'[p]) = outcome'[p]
      BY <2>1, <3>1 DEF OutcomeAfter
    <3> QED
      BY <2>1, <3>2 DEF BoardOutcome
  <2> QED
    BY <2>4, <2>5, <2>6
<1> QED
  BY <1>2, <1>3, <1>4, <1>5

-----------------------------------------------------------------------------
(* Endings on their way *)

\* An ending is not taken back.
LEMMA EndedStays ==
  ASSUME IInv, [Next]_vars, NEW p \in Peer, Ended(p)
  PROVE  Ended(p)'
<1>1. OutcomeStep(p)
  BY OutcomeSteps
<1> QED
  BY <1>1 DEF OutcomeStep, OutcomeAfter, Ended

\* What p's ending rests on is still there after a step that leaves p's game
\* as it is and does not end the other's.
LEMMA ToldKept ==
  ASSUME IInv, [Next]_vars, NEW p \in Peer, NEW q, q = Other(p), ToldOf(p), link' = link,
         outcome'[p] = outcome[p],
         link = "up" /\ ~Ended(q)' =>
           /\ Has(inbox[q], {"RESIGN"}) => Has(inbox'[q], {"RESIGN"})
           /\ Has(inbox[q], {"DRAW_ACCEPT"}) /\ pending[q]
                => Has(inbox'[q], {"DRAW_ACCEPT"}) /\ pending'[q]
           /\ Has(inbox[q], {"MOVE"}) /\ Result(hist[p]) # "NONE"
                => Has(inbox'[q], {"MOVE"}) /\ Result(hist'[p]) # "NONE"
           /\ q = "CLIENT" /\ ZeroSync(inbox[q]) => ZeroSync(inbox'[q])
  PROVE  ToldOf(p)'
<1>1. q \in Peer /\ (Ended(q) => Ended(q)')
  BY EndedStays, Swaps
<1>2. Ended(p)' => Ended(p)
  BY DEF Ended
<1>3. link = "up" /\ ~Ended(q)' /\ Telling(p, q) => Telling(p, q)'
  BY DEF Telling
<1> QED
  BY <1>1, <1>2, <1>3 DEF ToldOf

\* Nothing is owed once the other program has an ending.
LEMMA ToldBoth ==
  ASSUME NEW p \in Peer, (~Ended(p) \/ Ended(Other(p)))'
  PROVE  ToldOf(p)'
BY DEF ToldOf

\* The same when everything in q's queue stays there.
LEMMA ToldQuiet ==
  ASSUME IInv, [Next]_vars, NEW p \in Peer, NEW q, q = Other(p), ToldOf(p), link' = link,
         outcome'[p] = outcome[p], pending[q] => pending'[q], hist'[p] = hist[p],
         link = "up" => Keeps(inbox[q], inbox'[q], {})
  PROVE  ToldOf(p)'
<1>1. link = "up" => /\ \A t : Has(inbox[q], {t}) => Has(inbox'[q], {t})
                     /\ ZeroSync(inbox[q]) => ZeroSync(inbox'[q])
  BY DEF Keeps
<1> QED
  BY <1>1, ToldKept

\* What a player does is announced to the other.
LEMMA ToldInput ==
  ASSUME EndInv, \A r \in Peer : ToldOf(r), NEW p \in Peer, PlayerInput(p)
  PROVE  ToldOf(p)' /\ ToldOf(Other(p))'
<1> DEFINE q == Other(p)
<1>1. q \in Peer /\ q # p /\ Other(q) = p
  BY Swaps
<1>2. IInv /\ OneOffer /\ Next /\ [Next]_vars /\ ToldOf(p) /\ ToldOf(q)
  BY <1>1 DEF EndInv, Next
<1>3. /\ outcome \in [Peer -> Outcome] /\ pending \in [Peer -> BOOLEAN]
      /\ inbox[p] \in Seq(Msg) /\ inbox[q] \in Seq(Msg)
      /\ color[p] \in Color /\ color[q] \in Color
  BY <1>1, <1>2, ColoursDiffer DEF IInv, TypeOK
<1>4. ASSUME NEW m \in Moves, TrySendLocalMove(p, m)
      PROVE  ToldOf(p)' /\ ToldOf(q)'
  <2>1. /\ ~Ended(p) /\ hist'[p] = Append(hist[p], m) /\ hist'[q] = hist[q]
        /\ outcome'[p] = Result(Append(hist[p], m)) /\ outcome'[q] = outcome[q]
        /\ ~Has(inbox[p], {"MOVE"})
        /\ link' = link /\ pending' = pending
    BY <1>2, <1>4, MoveOutcome DEF TrySendLocalMove
  <2>2. link = "up" => inbox'[p] = inbox[p] /\ Has(inbox'[q], {"MOVE"})
    BY <1>2, <1>4, MoveKeeps
  <2>3. ToldOf(p)'
    BY <2>1, <2>2 DEF ToldOf, Telling, Ended
  <2>4. ToldOf(q)'
    BY <1>1, <1>2, <2>1, <2>2, ToldKept
  <2> QED
    BY <2>3, <2>4
<1>5. ASSUME NEW t \in BareType, Writes(p, Bare(t)), link' = link, hist' = hist
      PROVE  link = "up" => /\ \A r \in Peer : Keeps(inbox[r], inbox'[r], {})
                            /\ Has(inbox'[q], {t})
  <2>1. Bare(t) \in Msg /\ Bare(t).type = t
    BY MsgTypes
  <2> QED
    BY <1>2, <1>5, <2>1, WritesKeep
<1>6. CASE Resign(p)
  <2>1. "RESIGN" \in BareType /\ Bare("RESIGN") \in Msg
    BY MsgTypes DEF BareType
  <2>2. /\ Writes(p, Bare("RESIGN")) /\ UNCHANGED <<link, hist, pending>>
        /\ outcome'[p] = Resigned(color[p]) /\ outcome'[q] = outcome[q]
    BY <1>1, <1>2, <1>3, <1>6, <2>1, SendQueues DEF Resign
  <2>3. link = "up" => Has(inbox'[q], {"RESIGN"})
    BY <1>5, <2>1, <2>2
  <2>4. ToldOf(p)'
    BY <2>2, <2>3 DEF ToldOf, Telling
  <2>5. Ended(p)'
    BY <1>3, <2>2, OutcomesDiffer DEF Ended
  <2>6. ToldOf(q)'
    BY <1>1, <2>5, ToldBoth
  <2> QED
    BY <2>4, <2>6
<1>7. CASE OfferDraw(p)
  <2>1. "DRAW_OFFER" \in BareType /\ Bare("DRAW_OFFER") \in Msg
    BY MsgTypes DEF BareType
  <2>2. /\ Writes(p, Bare("DRAW_OFFER")) /\ UNCHANGED <<link, hist, outcome>>
        /\ pending[p] => pending'[p] /\ pending'[q] = pending[q]
    BY <1>1, <1>2, <1>3, <1>7, <2>1, SendQueues DEF OfferDraw
  <2>3. link = "up" => \A r \in Peer : Keeps(inbox[r], inbox'[r], {})
    BY <1>5, <2>1, <2>2
  <2>4. pending[q] => pending'[q]
    BY <1>1, <1>3, <1>7 DEF OfferDraw
  <2> QED
    BY <1>1, <1>2, <2>2, <2>3, <2>4, ToldQuiet
<1>8. CASE AcceptDraw(p)
  <2>1. "DRAW_ACCEPT" \in BareType /\ Bare("DRAW_ACCEPT") \in Msg
    BY MsgTypes DEF BareType
  <2>2. /\ Writes(p, Bare("DRAW_ACCEPT")) /\ UNCHANGED <<link, hist, pending>>
        /\ outcome'[p] = "DRAW_AGREED" /\ outcome'[q] = outcome[q] /\ received[p]
    BY <1>1, <1>2, <1>3, <1>8, <2>1, SendQueues DEF AcceptDraw
  <2>3. link = "up" => Has(inbox'[q], {"DRAW_ACCEPT"})
    BY <1>5, <2>1, <2>2
  <2>4. pending'[q]
    BY <1>1, <1>2, <2>2 DEF OneOffer, OfferOf, OneOf
  <2>5. ToldOf(p)'
    BY <2>2, <2>3, <2>4 DEF ToldOf, Telling
  <2>6. ToldOf(q)'
    BY <1>1, <2>2, ToldBoth DEF Ended
  <2> QED
    BY <2>5, <2>6
<1>9. CASE DeclineDraw(p)
  <2>1. "DRAW_DECLINE" \in BareType /\ Bare("DRAW_DECLINE") \in Msg
    BY MsgTypes DEF BareType
  <2>2. /\ Writes(p, Bare("DRAW_DECLINE")) /\ UNCHANGED <<link, hist, pending, outcome>>
    BY <1>1, <1>2, <1>3, <1>9, <2>1, SendQueues DEF DeclineDraw
  <2>3. link = "up" => \A r \in Peer : Keeps(inbox[r], inbox'[r], {})
    BY <1>5, <2>1, <2>2
  <2> QED
    BY <1>1, <1>2, <2>2, <2>3, ToldQuiet
<1> QED
  BY <1>4, <1>6, <1>7, <1>8, <1>9 DEF PlayerInput

\* What a program reads either ends its game or leaves what does.
LEMMA ToldTick ==
  ASSUME EndInv, \A r \in Peer : ToldOf(r), NEW p \in Peer, NetTick(p)
  PROVE  ToldOf(p)' /\ ToldOf(Other(p))'
<1> DEFINE q == Other(p)
           T == {Head(inbox[p]).type}
<1>1. q \in Peer /\ q # p /\ Other(q) = p
  BY Swaps
<1>2. /\ IInv /\ OneOffer /\ BoardResultPrevails /\ Explained(p) /\ ClocksInStep
      /\ Next /\ [Next]_vars /\ ToldOf(p) /\ ToldOf(q)
  BY <1>1 DEF EndInv, Next
<1>3. /\ outcome \in [Peer -> Outcome] /\ pending \in [Peer -> BOOLEAN]
      /\ inbox[p] \in Seq(Msg) /\ inbox[q] \in Seq(Msg)
      /\ color[p] \in Color /\ color[q] \in Color
      /\ color[q] = Opposite(color[p])
  BY <1>1, <1>2, ColoursDiffer DEF IInv, TypeOK
<1>4. ASSUME Reads(p)
      PROVE  /\ \A U : U \cap T = {} /\ Has(inbox[p], U) => Has(inbox'[p], U)
             /\ "TIME_SYNC" \notin T /\ ZeroSync(inbox[p]) => ZeroSync(inbox'[p])
             /\ Keeps(inbox[q], inbox'[q], {}) /\ Has(inbox[p], T)
  <2>1. /\ Keeps(inbox[p], inbox'[p], T) /\ Keeps(inbox[q], inbox'[q], {})
        /\ Has(inbox[p], T)
    BY <1>2, <1>4, ReadsKeep
  <2> HIDE DEF T
  <2> QED
    BY <2>1 DEF Keeps
\* p's own ending is known to q, or p had it before and q's queue is untouched
<1>5. ASSUME Keeps(inbox[q], inbox'[q], {}), UNCHANGED <<hist, link>>,
             pending[q] => pending'[q], outcome'[p] = outcome[p] \/ Ended(q)'
      PROVE  ToldOf(p)'
  BY <1>1, <1>2, <1>5, ToldBoth, ToldQuiet
<1>6. CASE HandleMove(p)
  <2>1. /\ hist'[p] = hist[q] /\ hist'[q] = hist[q]
        /\ outcome'[p] = OutcomeAfter(hist[q], outcome[p]) /\ outcome'[q] = outcome[q]
        /\ ~Has(inbox[q], {"MOVE"})
        /\ link' = link /\ pending' = pending
    BY <1>2, <1>6, MoveReadQueues DEF HandleMove
  <2>2. link = "up" => /\ \A t : t # "MOVE" /\ Has(inbox[p], {t}) => Has(inbox'[p], {t})
                       /\ ZeroSync(inbox[p]) => ZeroSync(inbox'[p])
                       /\ \A t : Has(inbox[q], {t}) => Has(inbox'[q], {t})
                       /\ ZeroSync(inbox[q]) => ZeroSync(inbox'[q])
    <3>1. \A t : t # "MOVE" => {t} \cap {"MOVE"} = {}
      OBVIOUS
    <3>2. link = "up" => Keeps(inbox[p], inbox'[p], {"MOVE"}) /\ Keeps(inbox[q], inbox'[q], {})
      BY <1>2, <1>6, MoveKeeps
    <3> QED
      BY <3>1, <3>2 DEF Keeps
  <2>3. CASE Result(hist[q]) = "NONE"
    <3>1. outcome'[p] = outcome[p]
      BY <2>1, <2>3 DEF OutcomeAfter
    <3>2. ToldOf(p)'
      BY <1>1, <1>2, <2>1, <2>2, <3>1, ToldKept
    <3>3. ToldOf(q)'
      BY <1>1, <1>2, <2>1, <2>2, <2>3, ToldKept
    <3> QED
      BY <3>2, <3>3
  <2>4. CASE Result(hist[q]) # "NONE"
    <3>1. Ended(p)' /\ Ended(q)'
      BY <1>1, <1>2, <2>1, <2>4 DEF OutcomeAfter, BoardResultPrevails, Ended
    <3> QED
      BY <1>1, <3>1, ToldBoth
  <2> QED
    BY <2>3, <2>4
<1>7. CASE HandleResign(p)
  <2>1. /\ Reads(p) /\ T = {"RESIGN"} /\ UNCHANGED <<hist, link, pending>>
        /\ started[p]
    BY <1>2, <1>7, ReadQueues DEF HandleResign, Receive, IInv, OpenMeansStarted
  <2>2. /\ outcome'[q] = outcome[q]
        /\ Ended(p) => outcome'[p] = outcome[p]
        /\ ~Ended(p) => outcome'[p] = Resigned(color[q])
    BY <1>1, <1>3, <1>7, <2>1 DEF HandleResign, Undecided
  <2>3. Ended(p)'
    BY <1>3, <2>2, OutcomesDiffer DEF Ended
  <2>4. ~Ended(p) => Ended(q)'
    <3>1. ~Ended(p) => outcome[q] = Resigned(color[q])
      BY <1>2, <1>4, <2>1 DEF Explained
    <3> QED
      BY <1>3, <2>2, <3>1, OutcomesDiffer DEF Ended
  <2>5. ToldOf(p)'
    BY <1>4, <1>5, <2>1, <2>2, <2>4
  <2>6. ToldOf(q)'
    BY <1>1, <2>3, ToldBoth
  <2> QED
    BY <2>5, <2>6
<1>8. CASE HandleDrawOffer(p)
  <2>1. /\ Reads(p) /\ T = {"DRAW_OFFER"} /\ UNCHANGED <<hist, link, pending, outcome>>
    BY <1>2, <1>8, ReadQueues DEF HandleDrawOffer, Receive
  <2>2. ToldOf(p)'
    BY <1>4, <1>5, <2>1
  <2>3. /\ \A t \in {"RESIGN", "DRAW_ACCEPT", "MOVE"} : Has(inbox[p], {t}) => Has(inbox'[p], {t})
        /\ ZeroSync(inbox[p]) => ZeroSync(inbox'[p])
    <3>1. /\ \A t \in {"RESIGN", "DRAW_ACCEPT", "MOVE"} : {t} \cap T = {}
          /\ "TIME_SYNC" \notin T
      BY <2>1
    <3> QED
      BY <1>4, <2>1, <3>1
  <2>4. ToldOf(q)'
    BY <1>1, <1>2, <2>1, <2>3, ToldKept
  <2> QED
    BY <2>2, <2>4
<1>9. CASE HandleDrawAccept(p)
  <2>1. /\ Reads(p) /\ T = {"DRAW_ACCEPT"} /\ UNCHANGED <<hist, link>>
        /\ started[p]
    BY <1>2, <1>9, ReadQueues DEF HandleDrawAccept, Receive, IInv, OpenMeansStarted
  <2>2. /\ pending'[q] = pending[q] /\ outcome'[q] = outcome[q]
        /\ Ended(p) \/ ~pending[p] => UNCHANGED <<outcome, pending>>
        /\ ~Ended(p) /\ pending[p] => outcome'[p] = "DRAW_AGREED"
    BY <1>1, <1>3, <1>9, <2>1 DEF HandleDrawAccept, Undecided
  <2>3. ~Ended(p) => Ended(q)'
    <3>1. ~Ended(p) => outcome[q] = "DRAW_AGREED"
      BY <1>2, <1>4, <2>1 DEF Explained
    <3> QED
      BY <2>2, <3>1 DEF Ended
  <2>4. ToldOf(p)'
    BY <1>4, <1>5, <2>1, <2>2, <2>3
  <2>5. CASE ~Ended(p) /\ pending[p]
    <3>1. Ended(p)'
      BY <2>2, <2>5 DEF Ended
    <3> QED
      BY <1>1, <2>4, <3>1, ToldBoth
  <2>6. CASE Ended(p)
    <3>1. Ended(p)'
      BY <1>2, <2>6, EndedStays
    <3> QED
      BY <1>1, <2>4, <3>1, ToldBoth
  <2>7. CASE ~Ended(p) /\ ~pending[p]
    <3>1. /\ \A t \in {"RESIGN", "MOVE"} : {t} \cap T = {}
          /\ "TIME_SYNC" \notin T
      BY <2>1
    <3>2. /\ \A t \in {"RESIGN", "MOVE"} : Has(inbox[p], {t}) => Has(inbox'[p], {t})
          /\ ZeroSync(inbox[p]) => ZeroSync(inbox'[p])
      BY <1>4, <2>1, <3>1
    <3>3. ToldOf(q)'
      BY <1>1, <1>2, <2>1, <2>2, <2>7, <3>2, ToldKept
    <3> QED
      BY <2>4, <3>3
  <2> QED
    BY <2>5, <2>6, <2>7
<1>10. CASE HandleDrawDecline(p)
  <2>1. /\ Reads(p) /\ T = {"DRAW_DECLINE"} /\ UNCHANGED <<hist, link, outcome>>
        /\ pending' = [pending EXCEPT ![p] = FALSE]
    BY <1>2, <1>10, ReadQueues DEF HandleDrawDecline, Receive
  <2>2. pending'[q] = pending[q]
    BY <1>1, <1>3, <2>1
  <2>3. ToldOf(p)'
    BY <1>4, <1>5, <2>1, <2>2
  <2>4. ~Has(inbox[p], {"DRAW_ACCEPT"})
    <3>1. One(inbox[p], {"DRAW_ACCEPT", "DRAW_DECLINE"}) /\ Has(inbox[p], {"DRAW_DECLINE"})
      BY <1>2, <1>4, <2>1 DEF OneOffer, OfferOf, OneOf
    <3> QED
      BY <3>1 DEF One, Has
  <2>5. /\ \A t \in {"RESIGN", "MOVE"} : {t} \cap T = {}
        /\ "TIME_SYNC" \notin T
    BY <2>1
  <2>6. /\ \A t \in {"RESIGN", "MOVE"} : Has(inbox[p], {t}) => Has(inbox'[p], {t})
        /\ ZeroSync(inbox[p]) => ZeroSync(inbox'[p])
    BY <1>4, <2>1, <2>5
  <2>7. ToldOf(q)'
    BY <1>1, <1>2, <2>1, <2>4, <2>6, ToldKept
  <2> QED
    BY <2>3, <2>7
<1>11. CASE HandleTimeSync(p)
  <2> DEFINE ck == Head(inbox[p]).clock
  <2>1. /\ Reads(p) /\ T = {"TIME_SYNC"} /\ UNCHANGED <<hist, link, pending>> /\ started[p]
        /\ outcome' = [outcome EXCEPT ![p] = OutcomeAfterSync(ck, @)]
    BY <1>2, <1>11, ReadQueues DEF HandleTimeSync, Receive, IInv, OpenMeansStarted
  <2>2. p = "CLIENT"
    <3>1. p # "SERVER"
      BY <1>2, <1>4, <2>1 DEF ClocksInStep
    <3> QED
      BY <3>1 DEF Peer
  <2>3. outcome'[p] = OutcomeAfterSync(ck, outcome[p]) /\ outcome'[q] = outcome[q]
    BY <1>1, <1>3, <2>1
  <2>4. ToldOf(p)'
    <3>1. \/ outcome'[p] = outcome[p]
          \/ \E c \in Color : outcome'[p] = TimedOut(c)
      BY <2>3 DEF OutcomeAfterSync, Color
    <3>2. CASE outcome'[p] = outcome[p]
      BY <1>4, <1>5, <2>1, <3>2
    <3>3. CASE \E c \in Color : outcome'[p] = TimedOut(c)
      BY <2>2, <3>3 DEF ToldOf, Telling
    <3> QED
      BY <3>1, <3>2, <3>3
  <2>5. ToldOf(q)'
    <3>1. CASE Ended(p)'
      BY <1>1, <3>1, ToldBoth
    <3>2. CASE ~Ended(p)'
      <4>1. \A c \in Color : ck[c] # 0
        BY <2>3, <3>2, TimeoutsApart DEF OutcomeAfterSync, Ended, Color
      <4>2. ZeroSync(inbox[p]) => ZeroSync(inbox'[p])
        <5>1. Len(inbox[p]) \in Nat \ {0} /\ Len(Tail(inbox[p])) = Len(inbox[p]) - 1
              /\ Head(inbox[p]) = inbox[p][1] /\ inbox'[p] = Tail(inbox[p])
          BY <1>3, <2>1 DEF Reads
        <5>2. \A i \in 1..Len(inbox[p]) : i # 1 =>
                i - 1 \in 1..Len(inbox'[p]) /\ inbox'[p][i - 1] = inbox[p][i]
          BY <1>3, <5>1
        <5> QED
          BY <4>1, <5>1, <5>2 DEF ZeroSync, Sync
      <4>3. \A t \in {"RESIGN", "MOVE", "DRAW_ACCEPT"} : {t} \cap T = {}
        BY <2>1
      <4>4. \A t \in {"RESIGN", "MOVE", "DRAW_ACCEPT"} : Has(inbox[p], {t}) => Has(inbox'[p], {t})
        BY <1>4, <2>1, <4>3
      <4> QED
        BY <1>1, <1>2, <2>1, <2>3, <4>2, <4>4, ToldKept
    <3> QED
      BY <3>1, <3>2
  <2> QED
    BY <2>4, <2>5
<1>12. CASE ReceiveError(p)
  BY <1>1, <1>12 DEF ReceiveError, ToldOf
<1> QED
  BY <1>6, <1>7, <1>8, <1>9, <1>10, <1>11, <1>12 DEF NetTick, DispatchIncomingPacket

\* Every step keeps an ending of one program alone on its way to the other.
LEMMA ToldNext ==
  ASSUME EndInv, \A r \in Peer : ToldOf(r), [Next]_vars
  PROVE  \A r \in Peer : ToldOf(r)'
<1>1. IInv
  BY DEF EndInv
<1>2. CASE ClockTimeout
  <2> DEFINE c  == SideToMove(hist["SERVER"])
             ck == [clock["SERVER"] EXCEPT ![c] = 0]
  <2>1. /\ c \in Color /\ ck[c] = 0
        /\ SyncMsg(ck) \in Msg /\ SyncMsg(ck).type = "TIME_SYNC"
        /\ outcome' = [outcome EXCEPT !["SERVER"] = TimedOut(c)]
        /\ inbox["CLIENT"] \in Seq(Msg) /\ outcome \in [Peer -> Outcome]
        /\ inbox'["CLIENT"] = IF link = "up" THEN Append(inbox["CLIENT"], SyncMsg(ck))
                                             ELSE inbox["CLIENT"]
        /\ link' = link
    BY <1>1, <1>2, TimeoutQueues DEF IInv, TypeOK, Peer, ClockTimeout
  <2>2. link = "up" => ZeroSync(inbox'["CLIENT"])
    <3> DEFINE n == Len(inbox["CLIENT"]) + 1
    <3>1. /\ n \in 1..Len(Append(inbox["CLIENT"], SyncMsg(ck)))
          /\ Append(inbox["CLIENT"], SyncMsg(ck))[n] = SyncMsg(ck)
      BY <2>1
    <3>2. SyncMsg(ck).clock = ck
      BY DEF SyncMsg
    <3> HIDE DEF ck, n
    <3> QED
      BY <2>1, <3>1, <3>2 DEF ZeroSync, Sync
  <2>3. outcome'["SERVER"] = TimedOut(c)
    BY <2>1 DEF Peer
  <2>4. Ended("SERVER")'
    BY <2>1, <2>3, TimeoutsApart DEF Ended
  <2>5. ToldOf("SERVER")'
    BY <2>1, <2>2 DEF ToldOf, Telling, Other
  <2>6. ToldOf("CLIENT")'
    BY <2>4, ToldBoth DEF Other, Peer
  <2> QED
    BY <2>5, <2>6 DEF Peer
<1>3. CASE LinkBreak
  BY <1>3 DEF LinkBreak, ToldOf
<1>4. CASE UNCHANGED vars
  BY <1>4 DEF vars, ToldOf, Telling, Ended
<1>5. CASE \E p \in Peer : PlayerInput(p) \/ NetTick(p)
  BY <1>5, ToldInput, ToldTick, Swaps
<1> QED
  BY <1>2, <1>3, <1>4, <1>5 DEF Next

-----------------------------------------------------------------------------
(* The theorem *)

\* The invariant of the game at rest holds in every reachable state.
THEOREM RestInvariance == Spec => []RestInv
<1>1. Init => RestInv
  <2> SUFFICES ASSUME Init PROVE RestInv
    OBVIOUS
  <2>1. \A p \in Peer : /\ outcome[p] = "NONE" /\ hist[p] = <<>> /\ inbox[p] = <<>>
    BY DEF Init
  <2>2. Level /\ MovePastEnd /\ BoardOutcome
    BY <2>1, HasNothing, OutcomesDiffer DEF Level, MovePastEnd, BoardOutcome, Peer
  <2>3. \A p \in Peer : ToldOf(p)
    BY <2>1 DEF ToldOf, Ended
  <2> QED
    BY <2>2, <2>3, EndInit DEF RestInv
<1>2. RestInv /\ [Next]_vars => RestInv'
  BY EndNext, BoardsNext, ToldNext DEF RestInv
<1> QED
  BY <1>1, <1>2, PTL DEF Spec

\* A timeout the client shows is one it called, or the server's.
LEMMA CalledTime ==
  (EndInv /\ \E c \in Color : outcome["CLIENT"] = TimedOut(c)) => ClientCalledTime
<1> SUFFICES ASSUME EndInv, NEW c \in Color, outcome["CLIENT"] = TimedOut(c)
             PROVE  ClientCalledTime
  OBVIOUS
<1>1. clock["CLIENT"][c] = 0 /\ clock["SERVER"][c] <= clock["CLIENT"][c]
  BY DEF EndInv, ZeroAtTimeout, ClocksInStep, RunDown, Peer
<1>2. clock["SERVER"][c] \in Nat
  <2>1. clock["SERVER"] \in Clock
    BY DEF EndInv, IInv, TypeOK, Peer
  <2> QED
    BY <2>1, BoundsAssumption DEF Clock
<1>3. clock["SERVER"][c] = 0
  BY <1>1, <1>2
<1> QED
  BY <1>3 DEF ClientCalledTime

\* What has told q's ending to p is a decision p has not read, or the client's
\* timeout.
LEMMA ToldIsUnread ==
  ASSUME NEW p \in Peer, NEW q, Telling(q, p)
  PROVE  \/ UnreadDecision(p, q)
         \/ q = "CLIENT" /\ \E c \in Color : outcome[q] = TimedOut(c)
BY DEF Telling, UnreadDecision, InFlight, Has, ZeroSync, Sync

\* A decision p takes by itself leaves the other's unread.
LEMMA StillUnread ==
  ASSUME RestInv, EndInv', NEW p \in Peer, NEW q, q = Other(p), link = "up",
         ~Ended(p), Ended(q)', inbox'[p] = inbox[p],
         hist'[q] = hist[q], outcome'[q] = outcome[q]
  PROVE  (UnreadDecision(p, q) \/ ClientCalledTime)'
<1>1. q \in Peer /\ Other(q) = p
  BY Swaps
<1>2. Telling(q, p)
  BY <1>1 DEF RestInv, ToldOf, Ended
<1>3. UnreadDecision(p, q) => UnreadDecision(p, q)'
  BY DEF UnreadDecision, InFlight
<1>4. CASE q = "CLIENT" /\ \E c \in Color : outcome[q] = TimedOut(c)
  <2>1. \E c \in Color : outcome'["CLIENT"] = TimedOut(c)
    BY <1>4
  <2>2. (EndInv /\ \E c \in Color : outcome["CLIENT"] = TimedOut(c))' => ClientCalledTime'
    BY CalledTime, PTL
  <2> QED
    BY <2>1, <2>2
<1> QED
  BY <1>2, <1>3, <1>4, ToldIsUnread

\* The other program's decisions do not change p's result; p's own do, and
\* with the result of a move, of a resignation or of an agreement that it reads
\* it follows the other's.
LEMMA CrossingStep ==
  ASSUME RestInv, EndInv', [Next]_vars, NEW p \in Peer, NEW q, q = Other(p),
         link = "up", outcome'[p] # outcome[p], Ended(q)', outcome'[p] # outcome'[q]
  PROVE  (UnreadDecision(p, q) \/ ClientCalledTime)'
<1>1. /\ q \in Peer /\ q # p /\ Other(q) = p
      /\ \A r \in Peer : r = p \/ r = q
  BY Swaps
<1>2. /\ EndInv /\ IInv /\ BoardResultPrevails /\ Explained(p) /\ ClocksInStep
      /\ outcome \in [Peer -> Outcome] /\ inbox[p] \in Seq(Msg)
  BY <1>1 DEF RestInv, EndInv, IInv, TypeOK
<1>3. ASSUME NEW r \in Peer, NEW m \in Moves, TrySendLocalMove(r, m)
      PROVE  (UnreadDecision(p, q) \/ ClientCalledTime)'
  <2>1. r = p
    BY <1>1, <1>2, <1>3, MoveOutcome
  <2>2. ~Ended(p) /\ hist'[q] = hist[q] /\ outcome'[q] = outcome[q]
    BY <1>1, <1>2, <1>3, <2>1, MoveOutcome
  <2>3. inbox'[p] = inbox[p]
    BY <1>2, <1>3, <2>1, MoveKeeps
  <2> QED
    BY <2>2, <2>3, StillUnread
<1>4. ASSUME NEW r \in Peer, Resign(r) \/ AcceptDraw(r)
      PROVE  (UnreadDecision(p, q) \/ ClientCalledTime)'
  <2>1. r = p /\ ~Ended(p) /\ hist'[q] = hist[q] /\ outcome'[q] = outcome[q]
    BY <1>1, <1>2, <1>4 DEF Resign, AcceptDraw, InPlay
  <2>2. PICK t \in BareType : SendOrDisconnect(p, Sent(inbox, Other(p), Bare(t)), TRUE)
    BY <1>4, <2>1 DEF Resign, AcceptDraw, BareType
  <2>3. Bare(t) \in Msg
    BY MsgTypes
  <2>4. Writes(p, Bare(t))
    BY <1>2, <2>2, <2>3, SendQueues
  <2>5. inbox'[p] = inbox[p]
    BY <2>4 DEF Writes
  <2> QED
    BY <2>1, <2>5, StillUnread
<1>5. ASSUME NEW r \in Peer, HandleMove(r)
      PROVE  FALSE
  <2>1. r = p
    BY <1>1, <1>2, <1>5, MoveReadQueues
  <2>2. outcome'[p] = OutcomeAfter(hist[q], outcome[p]) /\ outcome'[q] = outcome[q]
    BY <1>2, <1>5, <2>1, MoveReadQueues
  <2> QED
    BY <1>1, <1>2, <2>2 DEF OutcomeAfter, BoardResultPrevails
<1>6. ASSUME NEW r \in Peer, HandleResign(r) \/ HandleDrawAccept(r)
      PROVE  FALSE
  <2>1. r = p /\ ~Ended(p) /\ outcome'[q] = outcome[q]
    BY <1>1, <1>2, <1>6 DEF HandleResign, HandleDrawAccept, Undecided
  <2>2. CASE HandleResign(p)
    <3>1. outcome'[p] = Resigned(color[q])
      BY <1>2, <2>1, <2>2, ColoursDiffer DEF HandleResign, Undecided
    <3>2. Has(inbox[p], {"RESIGN"})
      BY <1>2, <2>2, HasTail DEF HandleResign, Receive
    <3> QED
      BY <1>2, <2>1, <3>1, <3>2 DEF Explained
  <2>3. CASE HandleDrawAccept(p)
    <3>1. outcome'[p] = "DRAW_AGREED"
      BY <1>2, <2>3 DEF HandleDrawAccept
    <3>2. Has(inbox[p], {"DRAW_ACCEPT"})
      BY <1>2, <2>3, HasTail DEF HandleDrawAccept, Receive
    <3> QED
      BY <1>2, <2>1, <3>1, <3>2 DEF Explained
  <2> QED
    BY <1>6, <2>1, <2>2, <2>3
<1>7. ASSUME NEW r \in Peer, HandleTimeSync(r)
      PROVE  ClientCalledTime'
  <2>1. r = p /\ outcome'[p] = OutcomeAfterSync(Head(inbox[p]).clock, outcome[p])
    BY <1>1, <1>2, <1>7 DEF HandleTimeSync
  <2>2. p # "SERVER"
    <3>1. inbox[p] # <<>> /\ Head(inbox[p]).type = "TIME_SYNC"
      BY <1>7, <2>1 DEF HandleTimeSync, Receive
    <3>2. Has(inbox[p], {"TIME_SYNC"})
      BY <1>2, <3>1, HasTail
    <3> QED
      BY <1>2, <3>2 DEF ClocksInStep
  <2>3. \E c \in Color : outcome'["CLIENT"] = TimedOut(c)
    BY <2>1, <2>2 DEF OutcomeAfterSync, Color, Peer
  <2>4. (EndInv /\ \E c \in Color : outcome["CLIENT"] = TimedOut(c))' => ClientCalledTime'
    BY CalledTime, PTL
  <2> QED
    BY <2>3, <2>4
<1>8. CASE ClockTimeout
  <2>1. /\ outcome' = [outcome EXCEPT !["SERVER"] = TimedOut(SideToMove(hist["SERVER"]))]
        /\ inbox'["SERVER"] = inbox["SERVER"] /\ hist' = hist /\ ~Ended("SERVER")
    BY <1>2, <1>8, TimeoutQueues DEF ClockTimeout, Undecided
  <2>2. p = "SERVER" /\ outcome'[q] = outcome[q]
    BY <1>1, <1>2, <2>1
  <2> QED
    BY <2>1, <2>2, StillUnread
<1>9. ASSUME NEW r \in Peer,
             \/ OfferDraw(r) \/ DeclineDraw(r) \/ HandleDrawOffer(r)
             \/ HandleDrawDecline(r) \/ ReceiveError(r)
      PROVE  FALSE
  BY <1>9 DEF OfferDraw, DeclineDraw, HandleDrawOffer, HandleDrawDecline, ReceiveError
<1>10. CASE LinkBreak \/ UNCHANGED vars
  BY <1>10 DEF LinkBreak, vars
<1> QED
  BY <1>3, <1>4, <1>5, <1>6, <1>7, <1>8, <1>9, <1>10
  DEF Next, PlayerInput, NetTick, DispatchIncomingPacket

\* Once both programs have read everything, handle_resign_packet,
\* handle_draw_accept_packet, handle_move_packet and handle_time_sync_packet
\* have brought the server's ending to the client, and a result of the board to
\* both; and the step that makes two results differ is a decision taken while
\* the other's was unread, or follows a timeout the client called by itself.
THEOREM EndingsAgree == Spec => AgreeAtRest
<1>1. ASSUME RestInv PROVE SettledAtRest
  <2> SUFFICES ASSUME AtRest
               PROVE  /\ Ended("SERVER") => Ended("CLIENT")
                      /\ Ended("CLIENT") /\ ~Ended("SERVER") => ClientCalledTime
                      /\ Ended("SERVER") /\ outcome["SERVER"] # outcome["CLIENT"] =>
                           \A p \in Peer : outcome[p] \notin BoardResult
    BY DEF SettledAtRest
  <2>1. /\ \A p \in Peer : inbox[p] = <<>>
        /\ link = "up" /\ "SERVER" \in Peer /\ "CLIENT" \in Peer
        /\ Other("SERVER") = "CLIENT" /\ Other("CLIENT") = "SERVER"
    BY DEF AtRest, Peer, Other
  <2>2. \A p \in Peer : ~ZeroSync(inbox[p]) /\ \A T : ~Has(inbox[p], T)
    BY <2>1 DEF ZeroSync, Has
  <2>3. /\ ToldOf("SERVER") /\ ToldOf("CLIENT") /\ Level /\ BoardOutcome
        /\ BoardResultPrevails
    BY <1>1, <2>1 DEF RestInv, EndInv
  <2>4. Ended("SERVER") => Ended("CLIENT")
    BY <2>1, <2>2, <2>3 DEF ToldOf, Telling
  <2>5. Ended("CLIENT") /\ ~Ended("SERVER") => ClientCalledTime
    <3>1. Ended("CLIENT") /\ ~Ended("SERVER") => \E c \in Color : outcome["CLIENT"] = TimedOut(c)
      BY <2>1, <2>2, <2>3 DEF ToldOf, Telling
    <3> QED
      BY <1>1, <3>1, CalledTime DEF RestInv
  <2>6. hist["SERVER"] = hist["CLIENT"]
    BY <2>1, <2>2, <2>3 DEF Level
  <2>7. ASSUME NEW p \in Peer, outcome[p] \in BoardResult
        PROVE  outcome["SERVER"] = outcome["CLIENT"]
    <3>1. Result(hist[p]) = outcome[p] /\ Result(hist[p]) # "NONE"
      BY <2>3, <2>7, OutcomesDiffer DEF BoardOutcome
    <3> QED
      BY <2>1, <2>3, <2>6, <3>1 DEF BoardResultPrevails, Peer
  <2> QED
    BY <2>4, <2>5, <2>7
<1>2. ASSUME RestInv, RestInv', [Next]_vars PROVE [DecisionsCross]_vars
  BY <1>2, CrossingStep DEF DecisionsCross, RestInv
<1> QED
  BY <1>1, <1>2, RestInvariance, PTL DEF Spec, AgreeAtRest
====
