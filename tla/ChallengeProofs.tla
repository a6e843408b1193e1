---- MODULE ChallengeProofs ----
(***************************************************************************)
(* Proofs about module Challenge, for any number of programs that come and *)
(* go, challenge each other and hang up: the lobby stays a lobby, and no   *)
(* challenge is pending that its player has not made, until a removal has  *)
(* left a challenge in a slot that is free (FREED_PENDING).                *)
(***************************************************************************)
EXTENDS Challenge, FiniteSetTheorems, TLAPS

-----------------------------------------------------------------------------
(* The inductive invariant *)

Side == {"dialer", "acceptor"}
Conns == [ConnId -> Connection]
Slots == [1 .. MaxSlots -> Slot]

\* The types of the variables, and of the connections as one function.
Types ==
  /\ slots \in [Program -> Slots]
  /\ count \in [Program -> 0 .. MaxSlots]
  /\ session \in [Program -> SessionType]
  /\ transport \in [Program -> 0 .. MaxConns]
  /\ conns \in Conns
  /\ backlog \in [Program -> Seq(ConnId)]
  /\ asked \in [Program -> SUBSET Program]

\* What a lobby of n peers is, whatever happens to it: its peers are other
\* programs, no two the same; a challenge whose third connect failed has ended;
\* and a slot no longer used has no connection.
LobbyOf(f, n, p) ==
  /\ \A i \in 1 .. n : f[i].peer \in Program \ {p}
  /\ \A i, j \in 1 .. n : f[i].peer = f[j].peer => i = j
  /\ \A i \in 1 .. MaxSlots : f[i].failures = 3 => f[i].state \notin {"NONE", "OUTGOING_PENDING"}
  /\ \A i \in 1 .. MaxSlots : i > n => f[i].fd = 0

Lobbies == \A p \in Program : LobbyOf(slots[p], count[p], p)

LobbyInv == Types /\ Lobbies

-----------------------------------------------------------------------------
(* Lemmas on the operators: what they return is of the type of what they     *)
(* take.                                                                     *)

LEMMA OppositeSide ==
  ASSUME NEW e \in Side
  PROVE  Opposite(e) \in Side /\ Opposite(Opposite(e)) = e /\ Opposite(e) # e
BY DEF Side, Opposite

LEMMA UnusedType ==
  ASSUME NEW st \in {"free", "queued", "open", "closed"}
  PROVE  Unused(st) \in Connection
BY ProgramsAssumption DEF Unused, Connection

LEMMA MessageFrom ==
  ASSUME NEW m \in Message
  PROVE  /\ m.type \in {"HELLO", "OFFER", "ACCEPT", "START", "ACK"}
         /\ m.type \in {"HELLO", "OFFER", "ACCEPT"} => m.from \in Program
BY DEF Message

LEMMA ConnectionFields ==
  ASSUME NEW k \in Connection, NEW e \in Side
  PROVE  /\ k.ends[e] \in Program \cup {None}
         /\ k.state[e] \in {"free", "queued", "open", "closed"}
         /\ k.toRead[e] \in Seq(Message)
BY DEF Connection, Side

LEMMA ConnectionChange ==
  ASSUME NEW k \in Connection, NEW e \in Side, NEW m \in Seq(Message)
  PROVE  [k EXCEPT !.toRead[e] = m] \in Connection
BY DEF Connection, Side

LEMMA ConnectionShut ==
  ASSUME NEW k \in Connection, NEW e \in Side
  PROVE  [k EXCEPT !.state[e] = "closed", !.toRead[e] = <<>>] \in Connection
<1>1. <<>> \in Seq(Message)
  OBVIOUS
<1>2. ASSUME NEW n \in Seq(Message)
      PROVE  [k EXCEPT !.state[e] = "closed", !.toRead[e] = n] \in Connection
  BY DEF Connection, Side
<1> QED
  BY <1>1, <1>2

LEMMA ClosedType ==
  ASSUME NEW cs \in Conns, NEW c \in 0 .. MaxConns, NEW e \in Side
  PROVE  Closed(cs, c, e) \in Conns
<1>1. CASE c = 0
  BY <1>1 DEF Closed
<1>2. CASE c # 0
  <2>1. c \in ConnId /\ cs[c] \in Connection
    BY <1>2, ProgramsAssumption DEF ConnId, Conns
  <2>2. cs[c].state[Opposite(e)] \in {"free", "queued", "open", "closed"}
    BY <2>1, OppositeSide, ConnectionFields
  <2>3. Unused(cs[c].state[Opposite(e)]) \in Connection
    BY <2>2, UnusedType
  <2>4. [cs[c] EXCEPT !.state[e] = "closed", !.toRead[e] = <<>>] \in Connection
    BY <2>1, ConnectionShut
  <2> QED
    BY <1>2, <2>1, <2>3, <2>4 DEF Closed, Conns
<1> QED
  BY <1>1, <1>2

LEMMA WrittenType ==
  ASSUME NEW cs \in Conns, NEW c \in ConnId, NEW e \in Side, NEW m \in Message
  PROVE  Written(cs, c, e, m) \in Conns
<1>1. cs[c] \in Connection
  BY DEF Conns
<1>2. Opposite(e) \in Side
  BY OppositeSide
<1>3. Append(cs[c].toRead[Opposite(e)], m) \in Seq(Message)
  BY <1>1, <1>2, ConnectionFields
<1>4. [cs[c] EXCEPT !.toRead[Opposite(e)] = Append(@, m)] \in Connection
  BY <1>1, <1>2, <1>3, ConnectionChange
<1> QED
  BY <1>1, <1>4 DEF Written, Conns

LEMMA ReadType ==
  ASSUME NEW cs \in Conns, NEW c \in ConnId, NEW e \in Side, cs[c].toRead[e] # <<>>
  PROVE  Read(cs, c, e) \in Conns
<1>1. cs[c] \in Connection
  BY DEF Conns
<1>2. cs[c].toRead[e] \in Seq(Message)
  BY <1>1, ConnectionFields
<1>3. Tail(cs[c].toRead[e]) \in Seq(Message)
  BY <1>2
<1>4. [cs[c] EXCEPT !.toRead[e] = Tail(@)] \in Connection
  BY <1>1, <1>3, ConnectionChange
<1> QED
  BY <1>1, <1>4 DEF Read, Conns

LEMMA AllClosedType ==
  ASSUME NEW cs \in Conns, NEW fds
  PROVE  AllClosed(cs, fds) \in Conns
<1>1. ASSUME NEW c \in ConnId
      PROVE  Closed(cs, c, "dialer") \in Conns
  BY ClosedType, ProgramsAssumption DEF ConnId, Side
<1> QED
  BY <1>1 DEF AllClosed, Conns

LEMMA DisconnectedType ==
  ASSUME NEW s \in Slot
  PROVE  /\ Disconnected(s) \in Slot
         /\ Disconnected(s).peer = s.peer /\ Disconnected(s).state = s.state
         /\ Disconnected(s).offerSent = s.offerSent
         /\ Disconnected(s).fd = 0 /\ Disconnected(s).failures = 0
         /\ ~Disconnected(s).connecting /\ Disconnected(s).hello = "no"
<1>1. 0 \in 0 .. MaxConns
  BY ProgramsAssumption
<1>2. Disconnected(s) \in Slot
  <2>1. [s EXCEPT !.fd = 0, !.connecting = FALSE, !.hello = "no"] \in Slot
    BY <1>1 DEF Slot
  <2>2. ASSUME NEW r \in Slot
        PROVE  [r EXCEPT !.failures = 0] \in Slot
    BY DEF Slot
  <2> QED
    BY <2>1, <2>2 DEF Disconnected
<1>3. /\ Disconnected(s).peer = s.peer /\ Disconnected(s).state = s.state
      /\ Disconnected(s).offerSent = s.offerSent
      /\ Disconnected(s).fd = 0 /\ Disconnected(s).failures = 0
      /\ ~Disconnected(s).connecting /\ Disconnected(s).hello = "no"
  BY DEF Disconnected, Slot
<1> QED
  BY <1>2, <1>3

LEMMA WithStateType ==
  ASSUME NEW s \in Slot, NEW st \in ChallengeState
  PROVE  /\ WithState(s, st) \in Slot
         /\ WithState(s, st).peer = s.peer /\ WithState(s, st).state = st
         /\ WithState(s, st).fd = s.fd /\ WithState(s, st).failures = s.failures
         /\ WithState(s, st).connecting = s.connecting
         /\ WithState(s, st).hello = s.hello
         /\ st = "NONE" => ~WithState(s, st).offerSent
         /\ st # "NONE" => WithState(s, st).offerSent = s.offerSent
<1>1. CASE st = "NONE"
  <2>1. WithState(s, st) = [s EXCEPT !.state = st, !.offerSent = FALSE]
    BY <1>1 DEF WithState
  <2> QED
    BY <1>1, <2>1 DEF Slot
<1>2. CASE st # "NONE"
  <2>1. WithState(s, st) = [s EXCEPT !.state = st]
    BY <1>2 DEF WithState, Slot
  <2> QED
    BY <1>2, <2>1 DEF Slot
<1> QED
  BY <1>1, <1>2

LEMMA SetRemoteType ==
  ASSUME NEW s \in SessionType, NEW q \in Program
  PROVE  SetRemote(s, q) \in SessionType
<1> DEFINE h == [s EXCEPT !.remote = q, !.hello = FALSE]
           t == [h EXCEPT !.challengeDone = FALSE, !.phase = "TCP_CONNECTING"]
<1>1. h \in SessionType
  BY DEF SessionType
<1>2. [s EXCEPT !.remote = q, !.hello = FALSE, !.challengeDone = FALSE,
                !.phase = "TCP_CONNECTING"] = t
  BY DEF SessionType
<1> HIDE DEF h
<1>3. t \in SessionType
  BY <1>1 DEF SessionType, Phase
<1> QED
  BY <1>2, <1>3 DEF SetRemote

LEMMA PromotedType ==
  ASSUME NEW s \in SessionType, NEW q \in Program
  PROVE  Promoted(s, q) \in SessionType /\ Accepting(s, q) \in SessionType
<1>1. ASSUME NEW r \in SessionType
      PROVE  [r EXCEPT !.phase = "GAME_STARTING"] \in SessionType
  BY DEF SessionType, Phase
<1>2. /\ [s EXCEPT !.challengeDone = TRUE, !.role = "SERVER"] \in SessionType
      /\ [s EXCEPT !.challengeDone = TRUE, !.role = "CLIENT", !.helloSent = TRUE,
                   !.helloReceived = TRUE, !.hello = TRUE] \in SessionType
  BY DEF SessionType
<1> QED
  BY <1>1, <1>2, SetRemoteType DEF Promoted, Accepting

LEMMA HungUpType ==
  ASSUME NEW s \in SessionType
  PROVE  HungUp(s) \in SessionType
BY DEF HungUp, SessionType

LEMMA NewSessionType == NewSession \in SessionType
BY DEF NewSession, SessionType, Phase

LEMMA AfterPacketType ==
  ASSUME NEW s \in SessionType, NEW m \in Message, m.type \in {"HELLO", "ACCEPT", "ACK"}
  PROVE  AfterPacket(s, m) \in SessionType
<1>1. CASE m.type = "HELLO"
  <2>1. m.from \in Program
    BY <1>1, MessageFrom
  <2>2. AfterPacket(s, m)
          = [s EXCEPT !.helloReceived = TRUE, !.remote = IF @ = None THEN m.from ELSE @]
    BY <1>1 DEF AfterPacket
  <2>3. (IF s.remote = None THEN m.from ELSE s.remote) \in Program \cup {None}
    BY <2>1 DEF SessionType
  <2> QED
    BY <2>2, <2>3 DEF SessionType
<1>2. CASE m.type = "ACCEPT"
  BY <1>2 DEF AfterPacket, SessionType, Phase
<1>3. CASE m.type = "ACK"
  BY <1>3 DEF AfterPacket, SessionType, Phase
<1> QED
  BY <1>1, <1>2, <1>3

LEMMA EmptySlotType == EmptySlot \in Slot
BY ProgramsAssumption DEF EmptySlot, Slot, ChallengeState

-----------------------------------------------------------------------------
(* Lemmas on the lobby *)

\* The slot of a peer that is listed.
LEMMA SlotFound ==
  ASSUME NEW p, NEW q, q \in Known(p)
  PROVE  /\ SlotOf(p, q) \in 1 .. count[p]
         /\ slots[p][SlotOf(p, q)].peer = q
BY DEF Known, SlotOf

\* A lobby that is replaced by another.
LEMMA LobbyChange ==
  ASSUME LobbyInv, NEW p \in Program, NEW f \in Slots, NEW n \in 0 .. MaxSlots,
         LobbyOf(f, n, p),
         slots' = [slots EXCEPT ![p] = f], count' = [count EXCEPT ![p] = n]
  PROVE  /\ slots' \in [Program -> Slots] /\ count' \in [Program -> 0 .. MaxSlots]
         /\ Lobbies'
<1>1. slots' \in [Program -> Slots] /\ count' \in [Program -> 0 .. MaxSlots]
  BY DEF LobbyInv, Types
<1>2. ASSUME NEW r \in Program
      PROVE  LobbyOf(slots'[r], count'[r], r)
  <2>1. CASE r = p
    BY <2>1 DEF LobbyInv, Types
  <2>2. CASE r # p
    <3>1. slots'[r] = slots[r] /\ count'[r] = count[r]
      BY <2>2 DEF LobbyInv, Types
    <3> QED
      BY <3>1 DEF LobbyInv, Lobbies
  <2> QED
    BY <2>1, <2>2
<1> QED
  BY <1>1, <1>2 DEF Lobbies

\* A lobby of the same peers.
LEMMA SamePeers ==
  ASSUME LobbyInv, NEW p \in Program, NEW f \in Slots,
         \A i \in 1 .. MaxSlots :
           /\ f[i].peer = slots[p][i].peer
           /\ f[i].failures = 3 => f[i].state \notin {"NONE", "OUTGOING_PENDING"}
           /\ i > count[p] => f[i].fd = 0
  PROVE  LobbyOf(f, count[p], p)
<1>1. 1 .. count[p] \subseteq 1 .. MaxSlots
  BY ProgramsAssumption DEF LobbyInv, Types
<1>2. LobbyOf(slots[p], count[p], p)
  BY DEF LobbyInv, Lobbies
<1> QED
  BY <1>1, <1>2 DEF LobbyOf

LobbySet(p, f) == slots' = [slots EXCEPT ![p] = f] /\ count' = count

LEMMA LobbyKept ==
  ASSUME LobbyInv, NEW p \in Program, NEW f \in Slots,
         \A i \in 1 .. MaxSlots :
           /\ f[i].peer = slots[p][i].peer
           /\ f[i].failures = 3 => f[i].state \notin {"NONE", "OUTGOING_PENDING"}
           /\ i > count[p] => f[i].fd = 0,
         LobbySet(p, f)
  PROVE  /\ slots' \in [Program -> Slots] /\ count' \in [Program -> 0 .. MaxSlots]
         /\ Lobbies'
<1>1. LobbyOf(f, count[p], p)
  BY SamePeers
<1>2. /\ count' = [count EXCEPT ![p] = count[p]] /\ count[p] \in 0 .. MaxSlots
      /\ slots' = [slots EXCEPT ![p] = f]
  BY DEF LobbySet, LobbyInv, Types
<1> QED
  BY <1>1, <1>2, LobbyChange

\* One slot that is replaced by another.
SlotSet(p, i, s) == slots' = [slots EXCEPT ![p][i] = s] /\ count' = count

LEMMA SlotChange ==
  ASSUME LobbyInv, NEW p \in Program, NEW i \in 1 .. count[p], NEW s \in Slot,
         s.peer = slots[p][i].peer,
         s.failures = 3 => s.state \notin {"NONE", "OUTGOING_PENDING"},
         SlotSet(p, i, s)
  PROVE  /\ slots' \in [Program -> Slots] /\ count' \in [Program -> 0 .. MaxSlots]
         /\ Lobbies'
<1> DEFINE f == [slots[p] EXCEPT ![i] = s]
<1>1. i \in 1 .. MaxSlots /\ slots[p] \in Slots /\ count[p] \in Nat
  BY ProgramsAssumption DEF LobbyInv, Types
<1>2. f \in Slots
  BY <1>1 DEF Slots
<1>3. ASSUME NEW j \in 1 .. MaxSlots
      PROVE  /\ f[j].peer = slots[p][j].peer
             /\ f[j].failures = 3 => f[j].state \notin {"NONE", "OUTGOING_PENDING"}
             /\ j > count[p] => f[j].fd = 0
  <2>1. CASE j = i
    <3>1. f[j] = s
      BY <1>1, <2>1 DEF Slots
    <3>2. j <= count[p]
      BY <1>1, <2>1
    <3> QED
      BY <1>1, <2>1, <3>1, <3>2
  <2>2. CASE j # i
    <3>1. f[j] = slots[p][j]
      BY <1>1, <2>2 DEF Slots
    <3>2. LobbyOf(slots[p], count[p], p)
      BY DEF LobbyInv, Lobbies
    <3> QED
      BY <3>1, <3>2 DEF LobbyOf
  <2> QED
    BY <2>1, <2>2
<1>4. LobbySet(p, f)
  BY DEF LobbySet, SlotSet, LobbyInv, Types
<1> HIDE DEF f
<1> QED
  BY <1>2, <1>3, <1>4, LobbyKept

\* The parts of an action that most actions leave alone.
LEMMA LobbyInvFrom ==
  ASSUME slots' \in [Program -> Slots], count' \in [Program -> 0 .. MaxSlots],
         session' \in [Program -> SessionType],
         transport' \in [Program -> 0 .. MaxConns], conns' \in Conns,
         backlog' \in [Program -> Seq(ConnId)], asked' \in [Program -> SUBSET Program],
         Lobbies'
  PROVE  LobbyInv'
BY DEF LobbyInv, Types

\* What is known of a program and a slot of its that is used.
LEMMA SlotKnown ==
  ASSUME LobbyInv, NEW p \in Program, NEW i \in 1 .. count[p]
  PROVE  /\ i \in 1 .. MaxSlots /\ slots[p][i] \in Slot
         /\ slots[p][i].peer \in Program /\ slots[p][i].peer # p
         /\ slots[p][i].fd \in 0 .. MaxConns /\ slots[p][i].failures \in 0 .. 3
         /\ slots[p][i].failures = 3 => slots[p][i].state \notin {"NONE", "OUTGOING_PENDING"}
<1>1. i \in 1 .. MaxSlots /\ slots[p] \in Slots
  BY ProgramsAssumption DEF LobbyInv, Types
<1>2. slots[p][i] \in Slot
  BY <1>1 DEF Slots
<1>3. LobbyOf(slots[p], count[p], p)
  BY DEF LobbyInv, Lobbies
<1> QED
  BY <1>1, <1>2, <1>3 DEF LobbyOf, Slot

\* What is known of a program's game connection.
LEMMA TransportKnown ==
  ASSUME LobbyInv, NEW p \in Program, transport[p] # 0
  PROVE  /\ transport[p] \in ConnId
         /\ End(transport[p], p) \in Side
BY ProgramsAssumption DEF LobbyInv, Types, ConnId, End, Side

LEMMA PacketKnown ==
  ASSUME LobbyInv, NEW p \in Program, NEW types, Incoming(p, types)
  PROVE  /\ Packet(p) \in Message /\ Packet(p).type \in types
         /\ Consumed(p) \in Conns
         /\ transport[p] \in ConnId /\ End(transport[p], p) \in Side
<1>1. transport[p] \in ConnId /\ End(transport[p], p) \in Side
  BY TransportKnown DEF Incoming
<1>2. conns \in Conns
  BY DEF LobbyInv, Types
<1>3. conns[transport[p]].toRead[End(transport[p], p)] \in Seq(Message)
  BY <1>1, <1>2, ConnectionFields DEF Conns
<1>4. Packet(p) \in Message /\ Packet(p).type \in types
  BY <1>3 DEF Packet, Incoming
<1>5. Consumed(p) \in Conns
  BY <1>1, <1>2, ReadType DEF Incoming, Consumed
<1> QED
  BY <1>1, <1>4, <1>5

-----------------------------------------------------------------------------
(* Every step keeps the invariant *)

LEMMA ClickChallengeLobby ==
  ASSUME LobbyInv, NEW p \in Program, NEW i \in 1 .. MaxSlots, ClickChallenge(p, i)
  PROVE  LobbyInv'
<1>1. i \in 1 .. count[p]
  BY DEF ClickChallenge, Listed
<1>2. WithState(slots[p][i], "OUTGOING_PENDING") \in Slot
  BY <1>1, SlotKnown, WithStateType DEF ChallengeState
<1>3. slots' \in [Program -> Slots] /\ count' \in [Program -> 0 .. MaxSlots] /\ Lobbies'
  <2> DEFINE s == WithState(slots[p][i], "OUTGOING_PENDING")
  <2>1. /\ s \in Slot /\ s.peer = slots[p][i].peer
        /\ s.failures = 3 => s.state \notin {"NONE", "OUTGOING_PENDING"}
    <3>1. /\ s.failures = slots[p][i].failures /\ s.peer = slots[p][i].peer
      BY <1>1, SlotKnown, WithStateType DEF ChallengeState
    <3> QED
      BY <1>1, <1>2, <3>1, SlotKnown DEF ClickChallenge
  <2>2. SlotSet(p, i, s)
    BY DEF SlotSet, ClickChallenge
  <2> HIDE DEF s
  <2> QED
    BY <1>1, <2>1, <2>2, SlotChange
<1>4. asked' \in [Program -> SUBSET Program]
  BY <1>1, SlotKnown DEF ClickChallenge, LobbyInv, Types
<1> QED
  BY <1>3, <1>4, LobbyInvFrom DEF ClickChallenge, net, LobbyInv, Types

\* A challenge that is withdrawn, whatever state it is left in.
LEMMA WithdrawLobby ==
  ASSUME LobbyInv, NEW p \in Program, NEW i \in 1 .. count[p],
         NEW st \in {"NONE", "OUTGOING_PENDING"}, Withdraw(p, i, st),
         asked' \in [Program -> SUBSET Program]
  PROVE  LobbyInv'
<1> DEFINE s == WithState(Disconnected(slots[p][i]), st)
<1>1. /\ s \in Slot /\ s.peer = slots[p][i].peer /\ s.failures = 0
  BY SlotKnown, DisconnectedType, WithStateType DEF ChallengeState
<1>2. SlotSet(p, i, s)
  BY DEF SlotSet, Withdraw
<1>3. conns' \in Conns
  BY SlotKnown, ClosedType DEF Withdraw, LobbyInv, Types, Side
<1> HIDE DEF s
<1>4. slots' \in [Program -> Slots] /\ count' \in [Program -> 0 .. MaxSlots] /\ Lobbies'
  BY <1>1, <1>2, SlotChange
<1> QED
  BY <1>3, <1>4, LobbyInvFrom DEF Withdraw, LobbyInv, Types

LEMMA ClickCancelLobby ==
  ASSUME LobbyInv, NEW p \in Program, NEW i \in 1 .. MaxSlots, ClickCancel(p, i)
  PROVE  LobbyInv'
<1>1. asked' \in [Program -> SUBSET Program]
  BY DEF ClickCancel, LobbyInv, Types
<1> QED
  BY <1>1, WithdrawLobby DEF ClickCancel, Listed

LEMMA ClickRetryLobby ==
  ASSUME LobbyInv, NEW p \in Program, NEW i \in 1 .. MaxSlots, ClickRetry(p, i)
  PROVE  LobbyInv'
<1>1. asked' \in [Program -> SUBSET Program]
  BY DEF ClickRetry, LobbyInv, Types
<1> QED
  BY <1>1, WithdrawLobby DEF ClickRetry, Listed

LEMMA ChallengeLostLobby ==
  ASSUME LobbyInv, NEW p \in Program, NEW i \in 1 .. MaxSlots, ChallengeLost(p, i)
  PROVE  LobbyInv'
<1>1. asked' \in [Program -> SUBSET Program]
  BY DEF ChallengeLost, LobbyInv, Types
<1> QED
  BY <1>1, WithdrawLobby DEF ChallengeLost, Advancing, Listed

LEMMA ConnectLobby ==
  ASSUME LobbyInv, NEW p \in Program, NEW i \in 1 .. MaxSlots, Connect(p, i)
  PROVE  LobbyInv'
<1>1. i \in 1 .. count[p]
  BY DEF Connect, Advancing, Listed
<1>2. PICK c \in ConnId :
        /\ conns' = [conns EXCEPT
             ![c].ends = [e \in {"dialer", "acceptor"} |->
                            IF e = "dialer" THEN p ELSE slots[p][i].peer],
             ![c].state["dialer"] = "open"]
        /\ slots' = [slots EXCEPT ![p][i].fd = c, ![p][i].connecting = TRUE]
  BY DEF Connect
<1>3. conns' \in Conns
  <2>1. slots[p][i].peer \in Program \cup {None} /\ conns[c] \in Connection /\ conns \in Conns
    BY <1>1, SlotKnown DEF LobbyInv, Types, Conns
  <2>2. [conns[c] EXCEPT !.ends = [e \in {"dialer", "acceptor"} |->
                            IF e = "dialer" THEN p ELSE slots[p][i].peer],
             !.state["dialer"] = "open"] \in Connection
    BY <2>1 DEF Connection
  <2> QED
    BY <1>2, <2>1, <2>2 DEF Conns
<1>4. slots' \in [Program -> Slots] /\ count' \in [Program -> 0 .. MaxSlots] /\ Lobbies'
  <2> DEFINE s == [slots[p][i] EXCEPT !.fd = c, !.connecting = TRUE]
  <2>1. c \in 0 .. MaxConns
    BY ProgramsAssumption DEF ConnId
  <2>2. i \in 1 .. MaxSlots /\ slots[p][i] \in Slot /\ slots \in [Program -> Slots]
    BY <1>1, SlotKnown DEF LobbyInv, Types
  <2>3. SlotSet(p, i, s)
    <3>1. slots' = [slots EXCEPT ![p][i].fd = c, ![p][i].connecting = TRUE]
      BY <1>2
    <3>2. slots' = [slots EXCEPT ![p][i] = s]
      BY <2>2, <3>1 DEF Slots
    <3> QED
      BY <3>2 DEF SlotSet, Connect
  <2>4. /\ s \in Slot /\ s.peer = slots[p][i].peer
        /\ s.failures = slots[p][i].failures /\ s.state = slots[p][i].state
    BY <2>1, <2>2 DEF Slot
  <2> HIDE DEF s
  <2> QED
    BY <1>1, <2>3, <2>4, SlotChange, SlotKnown
<1> QED
  BY <1>3, <1>4, LobbyInvFrom DEF Connect, LobbyInv, Types

LEMMA FinishConnectLobby ==
  ASSUME LobbyInv, NEW p \in Program, NEW i \in 1 .. MaxSlots, FinishConnect(p, i)
  PROVE  LobbyInv'
<1> DEFINE c == slots[p][i].fd
           q == slots[p][i].peer
           s == [slots[p][i] EXCEPT !.connecting = FALSE, !.failures = 0]
<1>1. i \in 1 .. count[p] /\ c \in ConnId /\ q \in Program
  <2>1. i \in 1 .. count[p] /\ c # 0
    BY DEF FinishConnect, Advancing, Listed
  <2>2. c \in 0 .. MaxConns /\ q \in Program
    BY <2>1, SlotKnown
  <2> QED
    BY <2>1, <2>2, ProgramsAssumption DEF ConnId
<1>2. conns' \in Conns
  <2>1. conns[c] \in Connection /\ conns \in Conns
    BY <1>1 DEF LobbyInv, Types, Conns
  <2>2. [conns[c] EXCEPT !.state["acceptor"] = "queued"] \in Connection
    BY <2>1 DEF Connection
  <2> QED
    BY <1>1, <2>1, <2>2 DEF FinishConnect, Conns
<1>3. backlog' \in [Program -> Seq(ConnId)]
  <2>1. backlog[q] \in Seq(ConnId)
    BY <1>1 DEF LobbyInv, Types
  <2>2. Append(backlog[q], c) \in Seq(ConnId)
    BY <1>1, <2>1
  <2> QED
    BY <1>1, <2>2 DEF FinishConnect, LobbyInv, Types
<1>4. slots' \in [Program -> Slots] /\ count' \in [Program -> 0 .. MaxSlots] /\ Lobbies'
  <2>1. s \in Slot /\ s.peer = slots[p][i].peer /\ s.failures = 0
    <3>1. slots[p][i] \in Slot
      BY <1>1, SlotKnown
    <3>2. [slots[p][i] EXCEPT !.connecting = FALSE] \in Slot
      BY <3>1 DEF Slot
    <3>3. ASSUME NEW r \in Slot
          PROVE  [r EXCEPT !.failures = 0] \in Slot
      BY DEF Slot
    <3> QED
      BY <3>1, <3>2, <3>3 DEF Slot
  <2>2. SlotSet(p, i, s)
    BY <1>1, SlotKnown DEF SlotSet, FinishConnect, LobbyInv, Types, Slots
  <2> HIDE DEF s
  <2> QED
    BY <1>1, <2>1, <2>2, SlotChange
<1> QED
  BY <1>2, <1>3, <1>4, LobbyInvFrom DEF FinishConnect, LobbyInv, Types

LEMMA FailedType ==
  ASSUME NEW s \in Slot, s.state = "OUTGOING_PENDING", s.failures # 3
  PROVE  /\ Failed(s) \in Slot /\ Failed(s).peer = s.peer /\ Failed(s).fd = 0
         /\ ~Failed(s).connecting
         /\ Failed(s).state \in {"OUTGOING_PENDING", "CONNECT_FAILED"}
         /\ Failed(s).failures = 3 => Failed(s).state = "CONNECT_FAILED"
<1>1. s.failures \in 0 .. 2 /\ 0 \in 0 .. MaxConns
  BY ProgramsAssumption DEF Slot
<1>2. PICK n \in 0 .. 3 : n = s.failures + 1
  BY <1>1
<1>3. PICK st \in {"OUTGOING_PENDING", "CONNECT_FAILED"} :
        /\ st = IF s.failures + 1 >= 3 THEN "CONNECT_FAILED" ELSE s.state
        /\ n = 3 => st = "CONNECT_FAILED"
  BY <1>2
<1>4. Failed(s) = [s EXCEPT !.fd = 0, !.connecting = FALSE, !.failures = n, !.state = st]
  BY <1>2, <1>3 DEF Failed, Slot
<1>5. [s EXCEPT !.fd = 0, !.connecting = FALSE] \in Slot
  BY <1>1 DEF Slot
<1>6. ASSUME NEW r \in Slot
      PROVE  [r EXCEPT !.failures = n, !.state = st] \in Slot
  BY DEF Slot, ChallengeState
<1>7. Failed(s) \in Slot
  BY <1>4, <1>5, <1>6
<1> QED
  BY <1>3, <1>4, <1>7 DEF Slot

LEMMA ConnectRefusedLobby ==
  ASSUME LobbyInv, NEW p \in Program, NEW i \in 1 .. MaxSlots, ConnectRefused(p, i)
  PROVE  LobbyInv'
<1>1. /\ i \in 1 .. count[p] /\ slots[p][i].state = "OUTGOING_PENDING"
      /\ slots[p][i].fd \in 0 .. MaxConns
  BY SlotKnown DEF ConnectRefused, Advancing, Listed
<1>2. slots[p][i] \in Slot /\ slots[p][i].failures # 3
  BY <1>1, SlotKnown
<1>3. slots' \in [Program -> Slots] /\ count' \in [Program -> 0 .. MaxSlots] /\ Lobbies'
  <2> DEFINE s == Failed(slots[p][i])
  <2>1. /\ s \in Slot /\ s.peer = slots[p][i].peer
        /\ s.failures = 3 => s.state \notin {"NONE", "OUTGOING_PENDING"}
    BY <1>1, <1>2, FailedType
  <2>2. SlotSet(p, i, s)
    BY DEF SlotSet, ConnectRefused
  <2> HIDE DEF s
  <2> QED
    BY <1>1, <2>1, <2>2, SlotChange
<1>4. conns' \in Conns
  BY <1>1, ClosedType DEF ConnectRefused, LobbyInv, Types, Side
<1> QED
  BY <1>3, <1>4, LobbyInvFrom DEF ConnectRefused, LobbyInv, Types

LEMMA SayHelloLobby ==
  ASSUME LobbyInv, NEW p \in Program, NEW i \in 1 .. MaxSlots, SayHello(p, i)
  PROVE  LobbyInv'
<1> DEFINE s == [slots[p][i] EXCEPT !.hello = "sent"]
<1>1. /\ i \in 1 .. count[p] /\ slots[p][i].fd \in ConnId
      /\ slots[p][i] \in Slot /\ slots \in [Program -> Slots]
  BY SlotKnown, ProgramsAssumption
     DEF SayHello, Advancing, Listed, Connected, ConnId, LobbyInv, Types
<1>2. slots' = [slots EXCEPT ![p][i] = s]
  BY <1>1 DEF SayHello, Slots
<1>3. SlotSet(p, i, s)
  BY <1>2 DEF SlotSet, SayHello
<1>4. /\ s \in Slot /\ s.peer = slots[p][i].peer
      /\ s.failures = slots[p][i].failures /\ s.state = slots[p][i].state
  BY <1>1 DEF Slot
<1>5. conns' \in Conns
  <2>1. [type |-> "HELLO", from |-> p] \in Message
    BY DEF Message
  <2> QED
    BY <1>1, <2>1, WrittenType DEF SayHello, LobbyInv, Types, Side
<1> HIDE DEF s
<1>6. slots' \in [Program -> Slots] /\ count' \in [Program -> 0 .. MaxSlots] /\ Lobbies'
  BY <1>1, <1>3, <1>4, SlotChange, SlotKnown
<1> QED
  BY <1>5, <1>6, LobbyInvFrom DEF SayHello, LobbyInv, Types

LEMMA SendOfferLobby ==
  ASSUME LobbyInv, NEW p \in Program, NEW i \in 1 .. MaxSlots, SendOffer(p, i)
  PROVE  LobbyInv'
<1> DEFINE s == [slots[p][i] EXCEPT !.offerSent = TRUE]
<1>1. /\ i \in 1 .. count[p] /\ slots[p][i].fd \in ConnId
      /\ slots[p][i] \in Slot /\ slots \in [Program -> Slots]
  BY SlotKnown, ProgramsAssumption
     DEF SendOffer, Advancing, Listed, Connected, ConnId, LobbyInv, Types
<1>2. slots' = [slots EXCEPT ![p][i] = s]
  BY <1>1 DEF SendOffer, Slots
<1>3. SlotSet(p, i, s)
  BY <1>2 DEF SlotSet, SendOffer
<1>4. /\ s \in Slot /\ s.peer = slots[p][i].peer
      /\ s.failures = slots[p][i].failures /\ s.state = slots[p][i].state
  BY <1>1 DEF Slot
<1>5. conns' \in Conns
  <2>1. [type |-> "OFFER", from |-> p] \in Message
    BY DEF Message
  <2> QED
    BY <1>1, <2>1, WrittenType DEF SendOffer, LobbyInv, Types, Side
<1> HIDE DEF s
<1>6. slots' \in [Program -> Slots] /\ count' \in [Program -> 0 .. MaxSlots] /\ Lobbies'
  BY <1>1, <1>3, <1>4, SlotChange, SlotKnown
<1> QED
  BY <1>5, <1>6, LobbyInvFrom DEF SendOffer, LobbyInv, Types

LEMMA HearHelloLobby ==
  ASSUME LobbyInv, NEW p \in Program, NEW i \in 1 .. MaxSlots, HearHello(p, i)
  PROVE  LobbyInv'
<1> DEFINE c == slots[p][i].fd
<1>1. /\ i \in 1 .. count[p] /\ slots[p][i].fd \in ConnId
      /\ slots[p][i] \in Slot /\ slots \in [Program -> Slots]
  BY SlotKnown, ProgramsAssumption
     DEF HearHello, Advancing, Listed, Connected, ConnId, LobbyInv, Types
<1>2. CASE Head(conns[c].toRead["dialer"]).type = "HELLO"
  <2> DEFINE s == [slots[p][i] EXCEPT !.hello = "completed"]
  <2>1. slots' = [slots EXCEPT ![p][i] = s]
    BY <1>1, <1>2 DEF HearHello, Slots
  <2>2. SlotSet(p, i, s)
    BY <1>2, <2>1 DEF SlotSet, HearHello
  <2>3. /\ s \in Slot /\ s.peer = slots[p][i].peer
        /\ s.failures = slots[p][i].failures /\ s.state = slots[p][i].state
    BY <1>1 DEF Slot
  <2>4. conns' \in Conns
    BY <1>1, <1>2, ReadType DEF HearHello, LobbyInv, Types, Side
  <2> HIDE DEF s
  <2>5. slots' \in [Program -> Slots] /\ count' \in [Program -> 0 .. MaxSlots] /\ Lobbies'
    BY <1>1, <2>2, <2>3, SlotChange, SlotKnown
  <2> QED
    BY <1>2, <2>4, <2>5, LobbyInvFrom DEF HearHello, LobbyInv, Types
<1>3. CASE Head(conns[c].toRead["dialer"]).type # "HELLO"
  <2>1. Withdraw(p, i, "NONE") /\ asked' \in [Program -> SUBSET Program]
    BY <1>3 DEF HearHello, LobbyInv, Types
  <2> QED
    BY <1>1, <2>1, WithdrawLobby
<1> QED
  BY <1>2, <1>3

\* The lobbies in which every connection has been closed.
LEMMA AllDisconnectedLobby ==
  ASSUME LobbyInv, NEW p \in Program
  PROVE  /\ AllDisconnected(p) \in Slots /\ Cleared(p) \in Slots
         /\ \A i \in 1 .. count[p] :
              /\ AllDisconnected(p)[i] = Disconnected(slots[p][i])
              /\ Cleared(p)[i] = WithState(Disconnected(slots[p][i]), "NONE")
         /\ \A i \in 1 .. MaxSlots : i > count[p] =>
              AllDisconnected(p)[i] = slots[p][i] /\ Cleared(p)[i] = slots[p][i]
<1>1. /\ 1 .. count[p] \subseteq 1 .. MaxSlots /\ count[p] \in Nat
      /\ \A i \in 1 .. MaxSlots : slots[p][i] \in Slot
  BY ProgramsAssumption DEF LobbyInv, Types, Slots
<1>2. \A i \in 1 .. MaxSlots : /\ Disconnected(slots[p][i]) \in Slot
                               /\ WithState(Disconnected(slots[p][i]), "NONE") \in Slot
  BY <1>1, DisconnectedType, WithStateType DEF ChallengeState
<1>3. AllDisconnected(p) \in Slots /\ Cleared(p) \in Slots
  BY <1>1, <1>2 DEF AllDisconnected, Cleared, Slots
<1>4. ASSUME NEW i \in 1 .. count[p]
      PROVE  /\ AllDisconnected(p)[i] = Disconnected(slots[p][i])
             /\ Cleared(p)[i] = WithState(Disconnected(slots[p][i]), "NONE")
  BY <1>1 DEF AllDisconnected, Cleared
<1>5. ASSUME NEW i \in 1 .. MaxSlots, i > count[p]
      PROVE  AllDisconnected(p)[i] = slots[p][i] /\ Cleared(p)[i] = slots[p][i]
  BY <1>1, <1>5 DEF AllDisconnected, Cleared
<1> QED
  BY <1>3, <1>4, <1>5

\* And the lobbies in which one challenge has become a game.
LEMMA MatchedLobby ==
  ASSUME LobbyInv, NEW p \in Program, NEW i \in 1 .. count[p], NEW f \in Slots,
         \A j \in 1 .. MaxSlots :
           /\ f[j].peer = slots[p][j].peer
           /\ j \in 1 .. count[p] /\ j # i => f[j].failures = 0
           /\ j = i => f[j].state = "MATCHED"
           /\ j \notin 1 .. count[p] => f[j] = slots[p][j],
         LobbySet(p, f)
  PROVE  /\ slots' \in [Program -> Slots] /\ count' \in [Program -> 0 .. MaxSlots]
         /\ Lobbies'
<1>1. LobbyOf(slots[p], count[p], p) /\ count[p] \in Nat
  BY ProgramsAssumption DEF LobbyInv, Lobbies, Types
<1>2. ASSUME NEW j \in 1 .. MaxSlots
      PROVE  /\ f[j].peer = slots[p][j].peer
             /\ f[j].failures = 3 => f[j].state \notin {"NONE", "OUTGOING_PENDING"}
             /\ j > count[p] => f[j].fd = 0
  <2>1. CASE j = i
    BY <1>1, <2>1
  <2>2. CASE j \in 1 .. count[p] /\ j # i
    BY <1>1, <2>2
  <2>3. CASE j \notin 1 .. count[p]
    <3>1. f[j] = slots[p][j]
      BY <2>3
    <3> QED
      BY <1>1, <3>1 DEF LobbyOf
  <2> QED
    BY <2>1, <2>2, <2>3
<1> QED
  BY <1>2, LobbyKept

LEMMA ClickAcceptLobby ==
  ASSUME LobbyInv, NEW p \in Program, NEW i \in 1 .. MaxSlots, ClickAccept(p, i)
  PROVE  LobbyInv'
<1> DEFINE f == [AllDisconnected(p) EXCEPT ![i].state = "MATCHED"]
           q == slots[p][i].peer
<1>1. i \in 1 .. count[p] /\ q \in Program /\ slots[p][i] \in Slot
  BY SlotKnown DEF ClickAccept, Listed
<1>2. /\ AllDisconnected(p) \in Slots
      /\ AllDisconnected(p)[i] = Disconnected(slots[p][i])
      /\ \A j \in 1 .. MaxSlots : AllDisconnected(p)[j] \in Slot
  BY <1>1, AllDisconnectedLobby DEF Slots
<1>3. ASSUME NEW s \in Slot
      PROVE  /\ [s EXCEPT !.state = "MATCHED"] \in Slot
             /\ [s EXCEPT !.state = "MATCHED"].peer = s.peer
             /\ [s EXCEPT !.state = "MATCHED"].state = "MATCHED"
  BY DEF Slot, ChallengeState
<1>4. f = [AllDisconnected(p) EXCEPT ![i] = [AllDisconnected(p)[i] EXCEPT !.state = "MATCHED"]]
  BY <1>2 DEF Slots
<1>5. f \in Slots
  BY <1>2, <1>3, <1>4 DEF Slots
<1>6. ASSUME NEW j \in 1 .. MaxSlots
      PROVE  /\ f[j].peer = slots[p][j].peer
             /\ j \in 1 .. count[p] /\ j # i => f[j].failures = 0
             /\ j = i => f[j].state = "MATCHED"
             /\ j \notin 1 .. count[p] => f[j] = slots[p][j]
  <2>1. CASE j = i
    <3>1. f[j] = [AllDisconnected(p)[i] EXCEPT !.state = "MATCHED"]
      BY <1>2, <1>4, <2>1 DEF Slots
    <3>2. f[j].peer = AllDisconnected(p)[i].peer /\ f[j].state = "MATCHED"
      BY <1>2, <3>1 DEF Slot
    <3> QED
      BY <1>1, <1>2, <2>1, <3>2, DisconnectedType
  <2>2. CASE j # i
    <3>1. f[j] = AllDisconnected(p)[j] /\ slots[p][j] \in Slot
      BY <1>2, <1>4, <2>2 DEF Slots, LobbyInv, Types
    <3>2. j \in 1 .. count[p] \/ j > count[p]
      BY DEF LobbyInv, Types
    <3> QED
      BY <2>2, <3>1, <3>2, DisconnectedType, AllDisconnectedLobby
  <2> QED
    BY <2>1, <2>2
<1>7. LobbySet(p, f)
  BY DEF LobbySet, ClickAccept
<1>8. session' \in [Program -> SessionType] /\ asked' \in [Program -> SUBSET Program]
  <2>1. Accepting(session[p], q) \in SessionType
    BY <1>1, PromotedType DEF LobbyInv, Types
  <2> QED
    BY <1>1, <2>1 DEF ClickAccept, LobbyInv, Types
<1>9. conns' \in Conns
  <2>1. [type |-> "ACCEPT", from |-> p] \in Message
    BY DEF Message
  <2>2. transport[p] \in ConnId /\ End(transport[p], p) \in Side
    BY TransportKnown DEF ClickAccept
  <2> QED
    BY <2>1, <2>2, WrittenType, AllClosedType DEF ClickAccept, LobbyInv, Types
<1> HIDE DEF f
<1>10. slots' \in [Program -> Slots] /\ count' \in [Program -> 0 .. MaxSlots] /\ Lobbies'
  BY <1>1, <1>5, <1>6, <1>7, MatchedLobby
<1> QED
  BY <1>8, <1>9, <1>10, LobbyInvFrom DEF ClickAccept, LobbyInv, Types

LEMMA OthersWithdrawnSlots ==
  ASSUME NEW ss \in Slots, NEW n \in 0 .. MaxSlots, NEW i \in 1 .. MaxSlots
  PROVE  /\ OthersWithdrawn(ss, n, i) \in Slots
         /\ \A j \in 1 .. MaxSlots :
              OthersWithdrawn(ss, n, i)[j] =
                IF j <= n /\ j # i /\ ss[j].state = "OUTGOING_PENDING"
                THEN WithState(ss[j], "NONE") ELSE ss[j]
<1>1. ASSUME NEW j \in 1 .. MaxSlots
      PROVE  ss[j] \in Slot /\ WithState(ss[j], "NONE") \in Slot
  BY WithStateType DEF Slots, ChallengeState
<1> QED
  BY <1>1 DEF OthersWithdrawn, Slots

\* A slot that is marked.
Marked(ss, i) == [ss EXCEPT ![i].state = "MATCHED"]

LEMMA SlotMatched ==
  ASSUME NEW ss \in Slots, NEW i \in 1 .. MaxSlots
  PROVE  /\ Marked(ss, i) \in Slots
         /\ Marked(ss, i)[i].state = "MATCHED"
         /\ Marked(ss, i)[i].peer = ss[i].peer /\ Marked(ss, i)[i].fd = ss[i].fd
         /\ \A j \in 1 .. MaxSlots : j # i => Marked(ss, i)[j] = ss[j]
<1>1. ss[i] \in Slot
  BY DEF Slots
<1>2. [ss[i] EXCEPT !.state = "MATCHED"] \in Slot
  BY <1>1 DEF Slot, ChallengeState
<1>3. Marked(ss, i) = [ss EXCEPT ![i] = [ss[i] EXCEPT !.state = "MATCHED"]]
  BY <1>1 DEF Marked, Slots
<1>4. Marked(ss, i) \in Slots
  BY <1>2, <1>3 DEF Slots
<1>5. /\ Marked(ss, i)[i].state = "MATCHED"
      /\ Marked(ss, i)[i].peer = ss[i].peer
      /\ Marked(ss, i)[i].fd = ss[i].fd
  BY <1>1 DEF Marked, Slots, Slot
<1>6. \A j \in 1 .. MaxSlots : j # i => Marked(ss, i)[j] = ss[j]
  BY DEF Marked, Slots
<1> QED
  BY <1>4, <1>5, <1>6

\* The lobby once challenge i has become the game, and the lobby of a program
\* that has answered a crossed OFFER.
AnsweredSlots(p, i) == Marked(OthersWithdrawn(AllDisconnected(p), count[p], i), i)

LEMMA OthersClosedSlots ==
  ASSUME LobbyInv, NEW p \in Program, NEW i \in 1 .. count[p],
         NEW f \in {OthersClosed(p, i), AnsweredSlots(p, i)}
  PROVE  /\ f \in Slots
         /\ f[i].state = "MATCHED" /\ f[i].peer = slots[p][i].peer /\ f[i].fd = 0
         /\ \A j \in 1 .. count[p] : j # i =>
              f[j] = IF slots[p][j].state = "OUTGOING_PENDING"
                     THEN WithState(Disconnected(slots[p][j]), "NONE")
                     ELSE Disconnected(slots[p][j])
         /\ \A j \in 1 .. MaxSlots : j > count[p] => f[j] = slots[p][j]
<1> DEFINE g == [AllDisconnected(p) EXCEPT ![i] = [slots[p][i] EXCEPT !.fd = 0]]
           D == AllDisconnected(p)
           Others(h) == /\ h[i].peer = slots[p][i].peer /\ h[i].fd = 0
                        /\ \A j \in 1 .. count[p] : j # i => h[j] = D[j]
                        /\ \A j \in 1 .. MaxSlots : j > count[p] => h[j] = slots[p][j]
<1>1. /\ i \in 1 .. MaxSlots /\ slots[p][i] \in Slot /\ count[p] \in 0 .. MaxSlots
      /\ MaxSlots \in Nat
  BY SlotKnown, ProgramsAssumption DEF LobbyInv, Types
<1>2. /\ D \in Slots
      /\ \A j \in 1 .. count[p] : D[j] = Disconnected(slots[p][j])
      /\ \A j \in 1 .. MaxSlots : j > count[p] => D[j] = slots[p][j]
  BY AllDisconnectedLobby
<1>3. g \in Slots
  <2>1. [slots[p][i] EXCEPT !.fd = 0] \in Slot
    BY <1>1, ProgramsAssumption DEF Slot
  <2> QED
    BY <1>2, <2>1 DEF Slots
<1>4. D[i].peer = slots[p][i].peer /\ D[i].fd = 0
  BY <1>1, <1>2, DisconnectedType
<1>5. Others(g)
  <2>1. g[i] = [slots[p][i] EXCEPT !.fd = 0]
    BY <1>1, <1>2 DEF Slots
  <2>2. g[i].peer = slots[p][i].peer /\ g[i].fd = 0
    BY <1>1, <2>1 DEF Slot
  <2>3. \A j \in 1 .. MaxSlots : j # i => g[j] = D[j]
    BY <1>1, <1>2 DEF Slots
  <2> QED
    BY <1>1, <1>2, <2>2, <2>3
<1>6. Others(D)
  BY <1>1, <1>2, <1>4
<1>7. ASSUME NEW h \in Slots, Others(h), f = Marked(OthersWithdrawn(h, count[p], i), i)
      PROVE  /\ f \in Slots
             /\ f[i].state = "MATCHED" /\ f[i].peer = slots[p][i].peer /\ f[i].fd = 0
             /\ \A j \in 1 .. count[p] : j # i =>
                  f[j] = IF slots[p][j].state = "OUTGOING_PENDING"
                         THEN WithState(Disconnected(slots[p][j]), "NONE")
                         ELSE Disconnected(slots[p][j])
             /\ \A j \in 1 .. MaxSlots : j > count[p] => f[j] = slots[p][j]
  <2> DEFINE w == OthersWithdrawn(h, count[p], i)
  <2>1. /\ w \in Slots
        /\ \A j \in 1 .. MaxSlots :
             w[j] = IF j <= count[p] /\ j # i /\ h[j].state = "OUTGOING_PENDING"
                    THEN WithState(h[j], "NONE") ELSE h[j]
    BY <1>1, OthersWithdrawnSlots
  <2>2. /\ f \in Slots /\ f[i].state = "MATCHED"
        /\ f[i].peer = w[i].peer /\ f[i].fd = w[i].fd
        /\ \A j \in 1 .. MaxSlots : j # i => f[j] = w[j]
    <3> HIDE DEF w
    <3>1. f = Marked(w, i)
      BY <1>7 DEF w
    <3> QED
      BY <1>1, <2>1, <3>1, SlotMatched
  <2> HIDE DEF w, D
  <2>3. w[i] = h[i]
    BY <1>1, <2>1
  <2>4. ASSUME NEW j \in 1 .. count[p], j # i
        PROVE  f[j] = IF slots[p][j].state = "OUTGOING_PENDING"
                      THEN WithState(Disconnected(slots[p][j]), "NONE")
                      ELSE Disconnected(slots[p][j])
    <3>1. j \in 1 .. MaxSlots /\ j <= count[p] /\ slots[p][j] \in Slot
      BY <1>1, SlotKnown
    <3>2. h[j] = Disconnected(slots[p][j])
      BY <1>2, <1>7, <2>4
    <3>3. h[j].state = slots[p][j].state
      BY <3>1, <3>2, DisconnectedType
    <3> QED
      BY <2>1, <2>2, <2>4, <3>1, <3>2, <3>3
  <2>5. ASSUME NEW j \in 1 .. MaxSlots, j > count[p]
        PROVE  f[j] = slots[p][j]
    <3>1. j # i /\ ~(j <= count[p])
      BY <1>1, <2>5
    <3> QED
      BY <1>7, <2>1, <2>2, <2>5, <3>1
  <2> QED
    BY <1>7, <2>2, <2>3, <2>4, <2>5
<1>8. CASE f = OthersClosed(p, i)
  <2>1. f = Marked(OthersWithdrawn(g, count[p], i), i)
    BY <1>8 DEF OthersClosed, Marked
  <2> HIDE DEF g
  <2> QED
    BY <1>3, <1>5, <1>7, <2>1
<1>9. CASE f = AnsweredSlots(p, i)
  <2>1. f = Marked(OthersWithdrawn(D, count[p], i), i)
    BY <1>9 DEF AnsweredSlots
  <2> QED
    BY <1>2, <1>6, <1>7, <2>1
<1> QED
  BY <1>8, <1>9

LEMMA OthersClosedLobby ==
  ASSUME LobbyInv, NEW p \in Program, NEW i \in 1 .. count[p],
         NEW f \in {OthersClosed(p, i), AnsweredSlots(p, i)}, LobbySet(p, f)
  PROVE  /\ slots' \in [Program -> Slots] /\ count' \in [Program -> 0 .. MaxSlots]
         /\ Lobbies'
<1>1. /\ f \in Slots
      /\ f[i].state = "MATCHED" /\ f[i].peer = slots[p][i].peer
      /\ \A j \in 1 .. count[p] : j # i =>
           f[j] = IF slots[p][j].state = "OUTGOING_PENDING"
                  THEN WithState(Disconnected(slots[p][j]), "NONE")
                  ELSE Disconnected(slots[p][j])
      /\ \A j \in 1 .. MaxSlots : j > count[p] => f[j] = slots[p][j]
  BY OthersClosedSlots
<1>2. ASSUME NEW j \in 1 .. MaxSlots
      PROVE  /\ f[j].peer = slots[p][j].peer
             /\ j \in 1 .. count[p] /\ j # i => f[j].failures = 0
             /\ j = i => f[j].state = "MATCHED"
             /\ j \notin 1 .. count[p] => f[j] = slots[p][j]
  <2>1. CASE j = i
    BY <1>1, <2>1
  <2>2. CASE j \in 1 .. count[p] /\ j # i
    <3>1. slots[p][j] \in Slot
      BY <2>2, SlotKnown
    <3>2. /\ Disconnected(slots[p][j]).peer = slots[p][j].peer
          /\ Disconnected(slots[p][j]).failures = 0
          /\ WithState(Disconnected(slots[p][j]), "NONE").peer = slots[p][j].peer
          /\ WithState(Disconnected(slots[p][j]), "NONE").failures = 0
      BY <3>1, DisconnectedType, WithStateType DEF ChallengeState
    <3> QED
      BY <1>1, <2>2, <3>2
  <2>3. CASE j \notin 1 .. count[p]
    <3>1. j > count[p]
      BY <2>3 DEF LobbyInv, Types
    <3> QED
      BY <1>1, <2>3, <3>1
  <2> QED
    BY <2>1, <2>2, <2>3
<1> QED
  BY <1>1, <1>2, MatchedLobby

LEMMA HearAcceptLobby ==
  ASSUME LobbyInv, NEW p \in Program, NEW i \in 1 .. MaxSlots, HearAccept(p, i)
  PROVE  LobbyInv'
<1> DEFINE c == slots[p][i].fd
           t == transport[p]
           q == slots[p][i].peer
           cs == IF t = 0 THEN Read(conns, c, "dialer")
                 ELSE Closed(Read(conns, c, "dialer"), t, End(t, p))
<1>1. /\ i \in 1 .. count[p] /\ c \in ConnId /\ q \in Program
  <2>1. i \in 1 .. count[p] /\ c # 0
    BY DEF HearAccept, Advancing, Listed, Connected
  <2>2. c \in 0 .. MaxConns /\ q \in Program
    BY <2>1, SlotKnown
  <2> QED
    BY <2>1, <2>2, ProgramsAssumption DEF ConnId
<1>2. slots' \in [Program -> Slots] /\ count' \in [Program -> 0 .. MaxSlots] /\ Lobbies'
  <2>1. LobbySet(p, OthersClosed(p, i))
    BY DEF LobbySet, HearAccept
  <2> QED
    BY <1>1, <2>1, OthersClosedLobby
<1>3. session' \in [Program -> SessionType]
  <2>1. Promoted(session[p], q) \in SessionType
    BY <1>1, PromotedType DEF LobbyInv, Types
  <2> QED
    BY <2>1 DEF HearAccept, LobbyInv, Types
<1>4. transport' \in [Program -> 0 .. MaxConns]
  <2>1. c \in 0 .. MaxConns
    BY <1>1, ProgramsAssumption DEF ConnId
  <2>2. transport' = [transport EXCEPT ![p] = c]
    BY DEF HearAccept
  <2> QED
    BY <2>1, <2>2 DEF LobbyInv, Types
<1>5. conns' \in Conns
  <2>1. Read(conns, c, "dialer") \in Conns
    BY <1>1, ReadType DEF HearAccept, LobbyInv, Types, Side
  <2>2. t \in 0 .. MaxConns /\ (t # 0 => End(t, p) \in Side)
    BY TransportKnown DEF LobbyInv, Types
  <2>3. cs \in Conns
    BY <2>1, <2>2, ClosedType
  <2> QED
    BY <2>3, AllClosedType DEF HearAccept
<1> QED
  BY <1>2, <1>3, <1>4, <1>5, LobbyInvFrom DEF HearAccept, LobbyInv, Types

LEMMA AcceptLobby ==
  ASSUME LobbyInv, NEW p \in Program, Accept(p)
  PROVE  LobbyInv'
<1> DEFINE c == Head(backlog[p])
<1>1. c \in ConnId /\ Tail(backlog[p]) \in Seq(ConnId)
  <2>1. backlog[p] \in Seq(ConnId) /\ backlog[p] # <<>>
    BY DEF Accept, LobbyInv, Types
  <2> QED
    BY <2>1
<1>2. conns' \in Conns
  <2>1. conns[c] \in Connection /\ conns \in Conns
    BY <1>1 DEF LobbyInv, Types, Conns
  <2>2. [conns[c] EXCEPT !.state["acceptor"] = "open"] \in Connection
    BY <2>1 DEF Connection
  <2>3. conns' = [conns EXCEPT ![c].state["acceptor"] = "open"]
    BY DEF Accept
  <2> HIDE DEF c
  <2> QED
    BY <1>1, <2>1, <2>2, <2>3 DEF Conns
<1>3. backlog' \in [Program -> Seq(ConnId)]
  BY <1>1 DEF Accept, LobbyInv, Types
<1>4. transport' \in [Program -> 0 .. MaxConns]
  BY <1>1, ProgramsAssumption DEF Accept, LobbyInv, Types, ConnId
<1>5. slots' = slots /\ count' = count /\ Lobbies'
  BY DEF Accept, lobby, LobbyInv, Lobbies
<1> QED
  BY <1>2, <1>3, <1>4, <1>5, LobbyInvFrom DEF Accept, LobbyInv, Types

LEMMA AdvanceHelloLobby ==
  ASSUME LobbyInv, NEW p \in Program, AdvanceHello(p)
  PROVE  LobbyInv'
<1>1. transport[p] \in ConnId /\ End(transport[p], p) \in Side
  BY TransportKnown DEF AdvanceHello
<1>2. conns' \in Conns
  <2>1. [type |-> "HELLO", from |-> p] \in Message
    BY DEF Message
  <2> QED
    BY <1>1, <2>1, WrittenType DEF AdvanceHello, LobbyInv, Types
<1>3. session' \in [Program -> SessionType]
  <2>1. session[p] \in SessionType
    BY DEF LobbyInv, Types
  <2>2. /\ [session[p] EXCEPT !.role = "SERVER", !.helloSent = TRUE, !.hello = TRUE,
                              !.phase = "AUTHENTICATED"] \in SessionType
        /\ [session[p] EXCEPT !.role = "SERVER"] \in SessionType
    BY <2>1 DEF SessionType, Phase
  <2>3. CASE session[p].helloReceived
    BY <2>2, <2>3 DEF AdvanceHello, LobbyInv, Types
  <2>4. CASE ~session[p].helloReceived
    BY <2>2, <2>4 DEF AdvanceHello, LobbyInv, Types
  <2> QED
    BY <2>3, <2>4
<1>4. slots' = slots /\ count' = count /\ Lobbies'
  BY DEF AdvanceHello, lobby, LobbyInv, Lobbies
<1> QED
  BY <1>2, <1>3, <1>4, LobbyInvFrom DEF AdvanceHello, LobbyInv, Types

LEMMA SendStartLobby ==
  ASSUME LobbyInv, NEW p \in Program, SendStart(p)
  PROVE  LobbyInv'
<1>1. transport[p] \in ConnId /\ End(transport[p], p) \in Side
  BY TransportKnown DEF SendStart
<1>2. conns' \in Conns
  <2>1. [type |-> "START"] \in Message
    BY DEF Message
  <2> QED
    BY <1>1, <2>1, WrittenType DEF SendStart, LobbyInv, Types
<1>3. session' \in [Program -> SessionType]
  <2>1. [session[p] EXCEPT !.startSent = TRUE] \in SessionType
    <3>1. session[p] \in SessionType
      BY DEF LobbyInv, Types
    <3> QED
      BY <3>1 DEF SessionType
  <2>2. session' = [session EXCEPT ![p] = [session[p] EXCEPT !.startSent = TRUE]]
    BY DEF SendStart, LobbyInv, Types
  <2> QED
    BY <2>1, <2>2 DEF LobbyInv, Types
<1>4. slots' = slots /\ count' = count /\ Lobbies'
  BY DEF SendStart, lobby, LobbyInv, Lobbies
<1> QED
  BY <1>2, <1>3, <1>4, LobbyInvFrom DEF SendStart, LobbyInv, Types

LEMMA RetryStartLobby ==
  ASSUME LobbyInv, NEW p \in Program, RetryStart(p)
  PROVE  LobbyInv'
<1>1. session' \in [Program -> SessionType]
  <2>1. [session[p] EXCEPT !.startSent = FALSE] \in SessionType
    <3>1. session[p] \in SessionType
      BY DEF LobbyInv, Types
    <3> QED
      BY <3>1 DEF SessionType
  <2>2. session' = [session EXCEPT ![p] = [session[p] EXCEPT !.startSent = FALSE]]
    BY DEF RetryStart, LobbyInv, Types
  <2> QED
    BY <2>1, <2>2 DEF LobbyInv, Types
<1>2. slots' = slots /\ count' = count /\ Lobbies'
  BY DEF RetryStart, lobby, LobbyInv, Lobbies
<1> QED
  BY <1>1, <1>2, LobbyInvFrom DEF RetryStart, net, LobbyInv, Types

LEMMA HandleStartLobby ==
  ASSUME LobbyInv, NEW p \in Program, HandleStart(p)
  PROVE  LobbyInv'
<1>1. /\ Consumed(p) \in Conns
      /\ transport[p] \in ConnId /\ End(transport[p], p) \in Side
  BY PacketKnown DEF HandleStart
<1>2. Answered(p, "ACK") \in Conns
  <2>1. [type |-> "ACK"] \in Message
    BY DEF Message
  <2> QED
    BY <1>1, <2>1, WrittenType DEF Answered
<1>3. session' \in [Program -> SessionType]
  <2>1. [session[p] EXCEPT !.startDone = TRUE, !.phase = "IN_GAME"] \in SessionType
    <3>1. session[p] \in SessionType
      BY DEF LobbyInv, Types
    <3> QED
      BY <3>1 DEF SessionType, Phase
  <2>2. CASE session[p].role = "CLIENT" /\ ~session[p].startDone
    <3>1. session' = [session EXCEPT ![p] =
                        [session[p] EXCEPT !.startDone = TRUE, !.phase = "IN_GAME"]]
      BY <2>2 DEF HandleStart, LobbyInv, Types
    <3> QED
      BY <2>1, <3>1 DEF LobbyInv, Types
  <2>3. CASE ~(session[p].role = "CLIENT" /\ ~session[p].startDone)
    BY <2>3 DEF HandleStart, LobbyInv, Types
  <2> QED
    BY <2>2, <2>3
<1>4. conns' \in Conns
  BY <1>1, <1>2 DEF HandleStart
<1>5. slots' = slots /\ count' = count /\ Lobbies'
  BY DEF HandleStart, lobby, LobbyInv, Lobbies
<1> QED
  BY <1>3, <1>4, <1>5, LobbyInvFrom DEF HandleStart, LobbyInv, Types

\* The slot an ACCEPT marks, if any.
LEMMA PacketMarks ==
  ASSUME NEW p \in Program, HandlePacket(p)
  PROVE  /\ count' = count /\ asked' = asked
         /\ \/ slots' = slots
            \/ \E i \in 1 .. count[p] : slots' = [slots EXCEPT ![p][i].state = "MATCHED"]
<1>1. count' = count /\ asked' = asked
  BY DEF HandlePacket
<1>2. CASE Packet(p).type = "ACCEPT" /\ ~session[p].challengeDone
  <2>1. PICK i \in MayMatch(p, Packet(p).from) :
          slots' = IF i = 0 THEN slots ELSE [slots EXCEPT ![p][i].state = "MATCHED"]
    BY <1>2 DEF HandlePacket
  <2>2. i = 0 \/ i \in 1 .. count[p]
    BY <2>1, SlotFound DEF MayMatch
  <2> QED
    BY <1>1, <2>1, <2>2
<1>3. CASE ~(Packet(p).type = "ACCEPT" /\ ~session[p].challengeDone)
  BY <1>1, <1>3 DEF HandlePacket
<1> QED
  BY <1>2, <1>3

LEMMA HandlePacketLobby ==
  ASSUME LobbyInv, NEW p \in Program, HandlePacket(p)
  PROVE  LobbyInv'
<1>1. /\ Packet(p) \in Message /\ Packet(p).type \in {"HELLO", "ACCEPT", "ACK"}
      /\ Consumed(p) \in Conns
  BY PacketKnown DEF HandlePacket
<1>2. session' \in [Program -> SessionType]
  BY <1>1, AfterPacketType DEF HandlePacket, LobbyInv, Types
<1>3. slots' \in [Program -> Slots] /\ count' \in [Program -> 0 .. MaxSlots] /\ Lobbies'
  <2>1. ASSUME NEW i \in 1 .. count[p], slots' = [slots EXCEPT ![p][i].state = "MATCHED"]
        PROVE  slots' \in [Program -> Slots] /\ count' \in [Program -> 0 .. MaxSlots] /\ Lobbies'
    <3> DEFINE s == [slots[p][i] EXCEPT !.state = "MATCHED"]
    <3>1. /\ slots[p][i] \in Slot /\ i \in 1 .. MaxSlots
          /\ slots \in [Program -> Slots] /\ count' = count
      BY SlotKnown, PacketMarks DEF LobbyInv, Types
    <3>2. slots' = [slots EXCEPT ![p][i] = s]
      BY <2>1, <3>1 DEF Slots
    <3>3. SlotSet(p, i, s)
      BY <3>1, <3>2 DEF SlotSet
    <3>4. s \in Slot /\ s.peer = slots[p][i].peer /\ s.state = "MATCHED"
      BY <3>1 DEF Slot, ChallengeState
    <3> HIDE DEF s
    <3> QED
      BY <3>3, <3>4, SlotChange
  <2>2. CASE slots' = slots
    <3>1. count' = count
      BY PacketMarks
    <3> QED
      BY <2>2, <3>1 DEF LobbyInv, Lobbies, Types
  <2> QED
    BY <2>1, <2>2, PacketMarks
<1>4. conns' \in Conns
  BY <1>1 DEF HandlePacket
<1> QED
  BY <1>2, <1>3, <1>4, LobbyInvFrom DEF HandlePacket, LobbyInv, Types

LEMMA HandleOfferLobby ==
  ASSUME LobbyInv, NEW p \in Program, HandleOffer(p)
  PROVE  LobbyInv'
<1> DEFINE t == transport[p]
           q == Packet(p).from
           i == SlotOf(p, q)
<1>1. /\ q \in Program /\ Consumed(p) \in Conns /\ session[p] \in SessionType
      /\ transport[p] \in ConnId /\ End(transport[p], p) \in Side
  <2>1. Packet(p) \in Message /\ Packet(p).type \in {"OFFER"}
    BY PacketKnown DEF HandleOffer
  <2> QED
    BY <2>1, MessageFrom, PacketKnown DEF HandleOffer, LobbyInv, Types
<1>2. Answered(p, "ACCEPT") \in Conns
  <2>1. [type |-> "ACCEPT", from |-> p] \in Message
    BY DEF Message
  <2> QED
    BY <1>1, <2>1, WrittenType DEF Answered
<1>3. conns' \in Conns
  BY <1>1, <1>2, AllClosedType DEF HandleOffer
<1> SUFFICES /\ slots' \in [Program -> Slots] /\ count' \in [Program -> 0 .. MaxSlots]
             /\ Lobbies' /\ session' \in [Program -> SessionType]
  BY <1>3, LobbyInvFrom DEF HandleOffer, LobbyInv, Types
<1>4. CASE UNCHANGED <<slots, session>>
  BY <1>4 DEF HandleOffer, LobbyInv, Lobbies, Types
<1>5. CASE /\ q \in Known(p)
           /\ slots' = [slots EXCEPT ![p] =
                 [OthersWithdrawn(AllDisconnected(p), count[p], i)
                    EXCEPT ![i].state = "MATCHED"]]
           /\ session' = [session EXCEPT ![p] = Accepting([@ EXCEPT !.hello = TRUE], q)]
  <2>1. i \in 1 .. count[p]
    BY <1>5, SlotFound
  <2>2. LobbySet(p, AnsweredSlots(p, i))
    BY <1>5 DEF LobbySet, AnsweredSlots, Marked, HandleOffer
  <2>3. [session[p] EXCEPT !.hello = TRUE] \in SessionType
    BY <1>1 DEF SessionType
  <2>4. Accepting([session[p] EXCEPT !.hello = TRUE], q) \in SessionType
    BY <1>1, <2>3, PromotedType
  <2>5. session' = [session EXCEPT ![p] = Accepting([session[p] EXCEPT !.hello = TRUE], q)]
    BY <1>5 DEF LobbyInv, Types
  <2>6. session' \in [Program -> SessionType]
    BY <2>4, <2>5 DEF LobbyInv, Types
  <2> HIDE DEF i
  <2> QED
    BY <2>1, <2>2, <2>6, OthersClosedLobby
<1>6. CASE /\ q \in Known(p)
           /\ slots' = [slots EXCEPT ![p][i] = WithState(@, "INCOMING_PENDING")]
           /\ session' = [session EXCEPT ![p] = SetRemote(@, q)]
  <2> DEFINE s == WithState(slots[p][i], "INCOMING_PENDING")
  <2>1. i \in 1 .. count[p]
    BY <1>6, SlotFound
  <2>2. s \in Slot /\ s.peer = slots[p][i].peer /\ s.state = "INCOMING_PENDING"
    BY <2>1, SlotKnown, WithStateType DEF ChallengeState
  <2>3. SlotSet(p, i, s)
    BY <1>6 DEF SlotSet, HandleOffer
  <2>4. session' \in [Program -> SessionType]
    BY <1>1, <1>6, SetRemoteType DEF LobbyInv, Types
  <2> HIDE DEF i, s
  <2> QED
    BY <2>1, <2>2, <2>3, <2>4, SlotChange
<1>7. CASE /\ session' = [session EXCEPT ![p].offer = q]
           /\ UNCHANGED slots
  <2>1. [session[p] EXCEPT !.offer = q] \in SessionType
    BY <1>1 DEF SessionType
  <2>2. session' = [session EXCEPT ![p] = [session[p] EXCEPT !.offer = q]]
    BY <1>7 DEF LobbyInv, Types
  <2>3. session' \in [Program -> SessionType]
    BY <2>1, <2>2 DEF LobbyInv, Types
  <2> QED
    BY <1>7, <2>3 DEF HandleOffer, LobbyInv, Lobbies, Types
<1> QED
  BY <1>4, <1>5, <1>6, <1>7 DEF HandleOffer

LEMMA ReceiveErrorLobby ==
  ASSUME LobbyInv, NEW p \in Program, ReceiveError(p)
  PROVE  LobbyInv'
<1>1. /\ session[p] \in SessionType /\ count[p] \in 0 .. MaxSlots
      /\ transport[p] \in 0 .. MaxConns /\ End(transport[p], p) \in Side
  BY TransportKnown DEF ReceiveError, LobbyInv, Types
<1>2. HungUp(session[p]) \in SessionType
  BY <1>1, HungUpType
<1>3. Closed(conns, transport[p], End(transport[p], p)) \in Conns
  BY <1>1, ClosedType DEF LobbyInv, Types
<1>4. conns' \in Conns
  BY <1>3, AllClosedType DEF ReceiveError
<1>5. transport' \in [Program -> 0 .. MaxConns]
  BY ProgramsAssumption DEF ReceiveError, LobbyInv, Types
<1>6. CASE session[p].startDone
  <2>1. [HungUp(session[p]) EXCEPT !.phase = "DISCONNECTED"] \in SessionType
    BY <1>2 DEF SessionType, Phase
  <2>2. session' \in [Program -> SessionType]
    BY <1>6, <2>1 DEF ReceiveError, LobbyInv, Types
  <2> QED
    BY <1>4, <1>5, <1>6, <2>2, LobbyInvFrom DEF ReceiveError, LobbyInv, Lobbies, Types
<1>7. CASE ~session[p].startDone
  <2>1. [HungUp(session[p]) EXCEPT !.role = "UNKNOWN", !.phase = "IDLE"] \in SessionType
    BY <1>2 DEF SessionType, Phase
  <2>2. session' \in [Program -> SessionType]
    BY <1>7, <2>1 DEF ReceiveError, LobbyInv, Types
  <2>3. LobbySet(p, Cleared(p))
    BY <1>7 DEF ReceiveError, LobbySet
  <2>4. ASSUME NEW i \in 1 .. MaxSlots
        PROVE  /\ Cleared(p)[i].peer = slots[p][i].peer
               /\ Cleared(p)[i].failures = 3 =>
                    Cleared(p)[i].state \notin {"NONE", "OUTGOING_PENDING"}
               /\ i > count[p] => Cleared(p)[i].fd = 0
    <3>1. CASE i \in 1 .. count[p]
      <4>1. slots[p][i] \in Slot /\ ~(i > count[p])
        BY <1>1, <3>1, SlotKnown
      <4>2. Cleared(p)[i] = WithState(Disconnected(slots[p][i]), "NONE")
        BY <3>1, AllDisconnectedLobby
      <4> QED
        BY <4>1, <4>2, DisconnectedType, WithStateType DEF ChallengeState
    <3>2. CASE i > count[p]
      <4>1. Cleared(p)[i] = slots[p][i]
        BY <3>2, AllDisconnectedLobby
      <4>2. LobbyOf(slots[p], count[p], p)
        BY DEF LobbyInv, Lobbies
      <4> QED
        BY <3>2, <4>1, <4>2 DEF LobbyOf
    <3> QED
      BY <1>1, <3>1, <3>2
  <2>5. slots' \in [Program -> Slots] /\ count' \in [Program -> 0 .. MaxSlots] /\ Lobbies'
    BY <2>3, <2>4, AllDisconnectedLobby, LobbyKept
  <2>6. asked' \in [Program -> SUBSET Program]
    BY <1>7 DEF ReceiveError, LobbyInv, Types
  <2> QED
    BY <1>4, <1>5, <2>2, <2>5, <2>6, LobbyInvFrom DEF ReceiveError, LobbyInv, Types
<1> QED
  BY <1>6, <1>7

\* The lobby of a program that starts afresh.
LEMMA EmptyLobby ==
  ASSUME NEW p \in Program
  PROVE  /\ [i \in 1 .. MaxSlots |-> EmptySlot] \in Slots
         /\ LobbyOf([i \in 1 .. MaxSlots |-> EmptySlot], 0, p)
<1>1. [i \in 1 .. MaxSlots |-> EmptySlot] \in Slots
  BY EmptySlotType DEF Slots
<1>2. EmptySlot.failures = 0 /\ EmptySlot.fd = 0
  BY DEF EmptySlot
<1>3. 1 .. 0 = {}
  OBVIOUS
<1> QED
  BY <1>1, <1>2, <1>3 DEF LobbyOf

LEMMA ReturnToLobbyLobby ==
  ASSUME LobbyInv, NEW p \in Program, ReturnToLobby(p)
  PROVE  LobbyInv'
<1>1. conns' \in Conns
  <2>1. transport[p] \in 0 .. MaxConns /\ (transport[p] # 0 => End(transport[p], p) \in Side)
    BY TransportKnown DEF LobbyInv, Types
  <2>2. conns \in Conns /\ (transport[p] # 0 =>
                              Closed(conns, transport[p], End(transport[p], p)) \in Conns)
    BY <2>1, ClosedType DEF LobbyInv, Types
  <2> QED
    BY <2>2, AllClosedType DEF ReturnToLobby
<1>2. slots' \in [Program -> Slots] /\ count' \in [Program -> 0 .. MaxSlots] /\ Lobbies'
  <2> DEFINE f == [i \in 1 .. MaxSlots |-> EmptySlot]
  <2>1. f \in Slots /\ LobbyOf(f, 0, p) /\ 0 \in 0 .. MaxSlots
    BY EmptyLobby, ProgramsAssumption
  <2>2. slots' = [slots EXCEPT ![p] = f] /\ count' = [count EXCEPT ![p] = 0]
    BY DEF ReturnToLobby
  <2> HIDE DEF f
  <2> QED
    BY <2>1, <2>2, LobbyChange
<1>3. /\ transport' \in [Program -> 0 .. MaxConns] /\ asked' \in [Program -> SUBSET Program]
      /\ session' \in [Program -> SessionType]
  BY NewSessionType, ProgramsAssumption DEF ReturnToLobby, LobbyInv, Types
<1> QED
  BY <1>1, <1>2, <1>3, LobbyInvFrom DEF ReturnToLobby, LobbyInv, Types

\* A peer found when the lobby is full leaves it as it is.
LEMMA Overlooked ==
  ASSUME NEW p \in Program, NEW q \in Program, DiscoverPeer(p, q), ~(count[p] < MaxSlots)
  PROVE  /\ slots' = slots /\ count' = count /\ transport' = transport /\ conns' = conns
         /\ backlog' = backlog /\ asked' = asked /\ session[p].offer = q
         /\ session' = [session EXCEPT ![p].offer = None]
BY DEF DiscoverPeer, net

LEMMA OverlookedLobby ==
  ASSUME LobbyInv, NEW p \in Program, NEW q \in Program, DiscoverPeer(p, q),
         ~(count[p] < MaxSlots)
  PROVE  LobbyInv'
<1>1. session' \in [Program -> SessionType]
  <2>1. session[p] \in SessionType
    BY DEF LobbyInv, Types
  <2>2. [session[p] EXCEPT !.offer = None] \in SessionType
    BY <2>1 DEF SessionType
  <2>3. session' = [session EXCEPT ![p] = [session[p] EXCEPT !.offer = None]]
    BY Overlooked DEF LobbyInv, Types
  <2> QED
    BY <2>2, <2>3 DEF LobbyInv, Types
<1>2. slots' = slots /\ count' = count /\ Lobbies'
  BY Overlooked DEF LobbyInv, Lobbies
<1> QED
  BY <1>1, <1>2, Overlooked, LobbyInvFrom DEF LobbyInv, Types

LEMMA ListedLobby ==
  ASSUME LobbyInv, NEW p \in Program, NEW q \in Program, DiscoverPeer(p, q),
         count[p] < MaxSlots
  PROVE  LobbyInv'
<1> DEFINE n == count[p] + 1
           s == AddedTo(slots[p][n], q)
           u == IF session[p].offer = q THEN WithState(s, "INCOMING_PENDING") ELSE s
           f == [slots[p] EXCEPT ![n] = u]
<1>1. /\ n \in 1 .. MaxSlots /\ n \in 0 .. MaxSlots /\ slots[p] \in Slots /\ count[p] \in Nat
      /\ slots[p][n] \in Slot /\ LobbyOf(slots[p], count[p], p)
      /\ q # p
  <2>1. /\ count[p] \in 0 .. MaxSlots /\ count[p] < MaxSlots /\ MaxSlots \in Nat
        /\ slots[p] \in Slots
    BY ProgramsAssumption DEF DiscoverPeer, LobbyInv, Types
  <2>2. n \in 1 .. MaxSlots
    BY <2>1
  <2>3. slots[p][n] \in Slot
    BY <2>1, <2>2 DEF Slots
  <2>4. q # p
    BY LobbyAssumption DEF DiscoverPeer
  <2>5. LobbyOf(slots[p], count[p], p)
    BY DEF LobbyInv, Lobbies
  <2> QED
    BY <2>1, <2>2, <2>3, <2>4, <2>5
<1>2. /\ s \in Slot /\ s.peer = q /\ s.fd = 0
      /\ s.state = slots[p][n].state /\ s.failures = slots[p][n].failures
  <2>1. 0 \in 0 .. MaxConns
    BY ProgramsAssumption
  <2> QED
    BY <1>1, <2>1 DEF AddedTo, Slot
<1>3. /\ u \in Slot /\ u.peer = q /\ u.fd = 0
      /\ u.failures = 3 => u.state \notin {"NONE", "OUTGOING_PENDING"}
  <2>1. s.failures = 3 => s.state \notin {"NONE", "OUTGOING_PENDING"}
    BY <1>1, <1>2 DEF LobbyOf
  <2> HIDE DEF s
  <2> QED
    BY <1>2, <2>1, WithStateType DEF ChallengeState
<1>4. f \in Slots /\ f[n] = u /\ \A j \in 1 .. MaxSlots : j # n => f[j] = slots[p][j]
  BY <1>1, <1>3 DEF Slots
<1>5. slots' = [slots EXCEPT ![p] = f] /\ count' = [count EXCEPT ![p] = n]
  <2>1. [[slots[p] EXCEPT ![n] = s] EXCEPT ![n] = WithState(@, "INCOMING_PENDING")]
          = [slots[p] EXCEPT ![n] = WithState(s, "INCOMING_PENDING")]
    BY <1>1 DEF Slots
  <2> QED
    BY <1>1, <2>1 DEF DiscoverPeer
<1>6. LobbyOf(f, n, p)
  <2> HIDE DEF n, u, f
  <2>1. ASSUME NEW j \in 1 .. n
        PROVE  /\ j \in 1 .. MaxSlots
               /\ j = n \/ (j # n /\ j \in 1 .. count[p])
    <3>1. MaxSlots \in Nat /\ count[p] \in Nat /\ n = count[p] + 1 /\ n <= MaxSlots
      BY <1>1, ProgramsAssumption DEF n
    <3> QED
      BY <3>1
  <2>2. ASSUME NEW j \in 1 .. count[p]
        PROVE  slots[p][j].peer # q
    BY DEF DiscoverPeer, Known
  <2>3. \A j \in 1 .. n : f[j].peer \in Program \ {p}
    BY <1>1, <1>3, <1>4, <2>1 DEF LobbyOf
  <2>4. \A j, k \in 1 .. n : f[j].peer = f[k].peer => j = k
    BY <1>1, <1>3, <1>4, <2>1, <2>2 DEF LobbyOf
  <2>5. \A j \in 1 .. MaxSlots : f[j].failures = 3 => f[j].state \notin {"NONE", "OUTGOING_PENDING"}
    BY <1>1, <1>3, <1>4 DEF LobbyOf
  <2>6. \A j \in 1 .. MaxSlots : j > n => f[j].fd = 0
    <3>1. \A j \in 1 .. MaxSlots : j > n => j # n /\ j > count[p]
      BY <1>1 DEF n
    <3> QED
      BY <1>1, <1>4, <3>1 DEF LobbyOf
  <2> QED
    BY <2>3, <2>4, <2>5, <2>6 DEF LobbyOf
<1>7. session' \in [Program -> SessionType]
  <2>1. CASE session[p].offer = q
    <3>1. SetRemote(session[p], q) \in SessionType
      BY SetRemoteType DEF LobbyInv, Types
    <3>2. [SetRemote(session[p], q) EXCEPT !.offer = None] \in SessionType
      BY <3>1 DEF SessionType
    <3> QED
      BY <2>1, <3>2 DEF DiscoverPeer, LobbyInv, Types
  <2>2. CASE session[p].offer # q
    BY <2>2 DEF DiscoverPeer, LobbyInv, Types
  <2> QED
    BY <2>1, <2>2
<1> HIDE DEF n, f
<1>8. slots' \in [Program -> Slots] /\ count' \in [Program -> 0 .. MaxSlots] /\ Lobbies'
  BY <1>1, <1>4, <1>5, <1>6, LobbyChange
<1> QED
  BY <1>7, <1>8, LobbyInvFrom DEF DiscoverPeer, net, LobbyInv, Types

LEMMA DiscoverPeerLobby ==
  ASSUME LobbyInv, NEW p \in Program, NEW q \in Program, DiscoverPeer(p, q)
  PROVE  LobbyInv'
BY OverlookedLobby, ListedLobby

\* A slot of the lobby that one peer has left: the slot itself or the next, and
\* the same peer as in the one or the other.
LEMMA RemovedSlots ==
  ASSUME LobbyInv, NEW p \in Program, NEW q \in Program, RemovePeer(p, q),
         NEW f, f = slots'[p], NEW k, k = SlotOf(p, q)
  PROVE  /\ f \in Slots /\ k \in 1 .. count[p]
         /\ \A j \in 1 .. count[p] - 1 :
              f[j] = IF j < k THEN slots[p][j] ELSE slots[p][j + 1]
         /\ k # count[p] => f[count[p]] = [slots[p][count[p]] EXCEPT !.fd = 0]
         /\ k = count[p] => f[count[p]] = Disconnected(slots[p][count[p]])
         /\ \A j \in 1 .. MaxSlots : j > count[p] => f[j] = slots[p][j]
<1>1. /\ k \in 1 .. count[p] /\ count[p] \in 0 .. MaxSlots /\ MaxSlots \in Nat
      /\ \A j \in 1 .. MaxSlots : slots[p][j] \in Slot
  BY SlotFound, ProgramsAssumption DEF RemovePeer, LobbyInv, Types, Slots
<1>2. f = [j \in 1 .. MaxSlots |->
              IF j \in k .. count[p] - 1 THEN slots[p][j + 1]
              ELSE IF j = k THEN Disconnected(slots[p][j])
              ELSE IF j = count[p] THEN [slots[p][j] EXCEPT !.fd = 0]
              ELSE slots[p][j]]
  BY DEF RemovePeer, LobbyInv, Types
<1>3. ASSUME NEW s \in Slot
      PROVE  Disconnected(s) \in Slot /\ [s EXCEPT !.fd = 0] \in Slot
  <2>1. 0 \in 0 .. MaxConns
    BY ProgramsAssumption
  <2>2. [s EXCEPT !.fd = 0] \in Slot
    BY <2>1 DEF Slot
  <2> QED
    BY <2>2, DisconnectedType
<1>4. ASSUME NEW j \in 1 .. MaxSlots
      PROVE  f[j] \in Slot
  <2>1. CASE j \in k .. count[p] - 1
    <3>1. f[j] = slots[p][j + 1] /\ j + 1 \in 1 .. MaxSlots
      BY <1>1, <1>2, <2>1
    <3> QED
      BY <1>1, <3>1
  <2>2. CASE j \notin k .. count[p] - 1
    <3>1. \/ f[j] = Disconnected(slots[p][j]) \/ f[j] = [slots[p][j] EXCEPT !.fd = 0]
          \/ f[j] = slots[p][j]
      BY <1>2, <2>2
    <3>2. slots[p][j] \in Slot
      BY <1>1
    <3>3. Disconnected(slots[p][j]) \in Slot
      BY <3>2, DisconnectedType
    <3>4. [slots[p][j] EXCEPT !.fd = 0] \in Slot
      BY <3>2, ProgramsAssumption DEF Slot
    <3> QED
      BY <3>1, <3>2, <3>3, <3>4
  <2> QED
    BY <2>1, <2>2
<1>5. f \in Slots
  BY <1>2, <1>4 DEF Slots
<1>6. ASSUME NEW j \in 1 .. count[p] - 1
      PROVE  f[j] = IF j < k THEN slots[p][j] ELSE slots[p][j + 1]
  <2>1. j \in 1 .. MaxSlots /\ j # count[p]
    BY <1>1
  <2>2. CASE j < k
    <3>1. j \notin k .. count[p] - 1 /\ j # k
      BY <1>1, <2>2
    <3> QED
      BY <1>2, <2>1, <2>2, <3>1
  <2>3. CASE ~(j < k)
    <3>1. j \in k .. count[p] - 1
      BY <1>1, <2>3
    <3> QED
      BY <1>2, <2>1, <2>3, <3>1
  <2> QED
    BY <2>2, <2>3
<1>7. count[p] \in 1 .. MaxSlots /\ count[p] \notin k .. count[p] - 1
  BY <1>1
<1>8. /\ k # count[p] => f[count[p]] = [slots[p][count[p]] EXCEPT !.fd = 0]
      /\ k = count[p] => f[count[p]] = Disconnected(slots[p][count[p]])
  BY <1>2, <1>7
<1>9. ASSUME NEW j \in 1 .. MaxSlots, j > count[p]
      PROVE  f[j] = slots[p][j]
  <2>1. j \notin k .. count[p] - 1 /\ j # k /\ j # count[p]
    BY <1>1, <1>9
  <2> QED
    BY <1>2, <2>1
<1> QED
  BY <1>1, <1>5, <1>6, <1>8, <1>9

LEMMA RemovePeerLobby ==
  ASSUME LobbyInv, NEW p \in Program, NEW q \in Program, RemovePeer(p, q)
  PROVE  LobbyInv'
<1> DEFINE f == slots'[p]
           k == SlotOf(p, q)
           n == count[p] - 1
<1>1. /\ f \in Slots /\ k \in 1 .. count[p]
      /\ \A j \in 1 .. count[p] - 1 : f[j] = IF j < k THEN slots[p][j] ELSE slots[p][j + 1]
      /\ k # count[p] => f[count[p]] = [slots[p][count[p]] EXCEPT !.fd = 0]
      /\ k = count[p] => f[count[p]] = Disconnected(slots[p][count[p]])
      /\ \A j \in 1 .. MaxSlots : j > count[p] => f[j] = slots[p][j]
  BY RemovedSlots
<1>2. /\ count[p] \in 1 .. MaxSlots /\ MaxSlots \in Nat /\ n \in 0 .. MaxSlots
      /\ LobbyOf(slots[p], count[p], p) /\ slots[p][count[p]] \in Slot
      /\ 1 .. count[p] \subseteq 1 .. MaxSlots
  <2>1. count[p] \in 0 .. MaxSlots /\ k \in 1 .. count[p] /\ MaxSlots \in Nat
        /\ slots[p] \in Slots
    BY <1>1, ProgramsAssumption DEF LobbyInv, Types
  <2>2. count[p] \in 1 .. MaxSlots
    BY <2>1
  <2>3. slots[p][count[p]] \in Slot
    BY <2>1, <2>2 DEF Slots
  <2> QED
    BY <2>1, <2>2, <2>3 DEF LobbyInv, Lobbies
<1>3. slots' = [slots EXCEPT ![p] = f] /\ count' = [count EXCEPT ![p] = n]
  BY DEF RemovePeer, LobbyInv, Types
<1>4. LobbyOf(f, n, p)
  <2> HIDE DEF f, k, n
  <2> DEFINE o(j) == IF j < k THEN j ELSE j + 1
  <2>1. ASSUME NEW j \in 1 .. n
        PROVE  o(j) \in 1 .. count[p] /\ f[j] = slots[p][o(j)]
    BY <1>1, <1>2 DEF n
  <2>2. ASSUME NEW i \in 1 .. n, NEW j \in 1 .. n, o(i) = o(j)
        PROVE  i = j
    BY <1>1, <1>2, <2>2 DEF n
  <2>3. f[count[p]].fd = 0 /\ (f[count[p]].failures = 3 =>
                                 f[count[p]].state \notin {"NONE", "OUTGOING_PENDING"})
    <3>1. CASE k = count[p]
      BY <1>1, <1>2, <3>1, DisconnectedType
    <3>2. CASE k # count[p]
      <4>1. /\ f[count[p]].fd = 0 /\ f[count[p]].state = slots[p][count[p]].state
            /\ f[count[p]].failures = slots[p][count[p]].failures
        BY <1>1, <1>2, <3>2 DEF Slot
      <4> QED
        BY <1>2, <4>1 DEF LobbyOf
    <3> QED
      BY <3>1, <3>2
  <2>4. ASSUME NEW j \in 1 .. MaxSlots
        PROVE  j \in 1 .. n \/ j = count[p] \/ (j > count[p] /\ f[j] = slots[p][j])
    BY <1>1, <1>2 DEF n
  <2> HIDE DEF o
  <2>5. \A j \in 1 .. n : f[j].peer \in Program \ {p}
    BY <1>2, <2>1 DEF LobbyOf
  <2>6. \A i, j \in 1 .. n : f[i].peer = f[j].peer => i = j
    BY <1>2, <2>1, <2>2 DEF LobbyOf
  <2>7. \A j \in 1 .. MaxSlots : f[j].failures = 3 => f[j].state \notin {"NONE", "OUTGOING_PENDING"}
    BY <1>2, <2>1, <2>3, <2>4 DEF LobbyOf
  <2>8. \A j \in 1 .. MaxSlots : j > n => f[j].fd = 0
    <3>1. \A j \in 1 .. MaxSlots : j > n => j \notin 1 .. n
      BY <1>2
    <3> QED
      BY <1>2, <2>3, <2>4, <3>1 DEF LobbyOf
  <2> QED
    BY <2>5, <2>6, <2>7, <2>8 DEF LobbyOf
<1>5. conns' \in Conns
  BY AllClosedType DEF RemovePeer, LobbyInv, Types
<1> HIDE DEF f, n
<1>6. slots' \in [Program -> Slots] /\ count' \in [Program -> 0 .. MaxSlots] /\ Lobbies'
  BY <1>1, <1>2, <1>3, <1>4, LobbyChange
<1> QED
  BY <1>5, <1>6, LobbyInvFrom DEF RemovePeer, LobbyInv, Types

LEMMA NextLobby == LobbyInv /\ [Next]_vars => LobbyInv'
<1> SUFFICES ASSUME LobbyInv, [Next]_vars
             PROVE  LobbyInv'
  OBVIOUS
<1>1. CASE UNCHANGED vars
  BY <1>1 DEF vars, LobbyInv, Types, Lobbies
<1>2. ASSUME NEW p \in Program, GamePart(p)
      PROVE  LobbyInv'
  BY <1>2, AcceptLobby, AdvanceHelloLobby, HandlePacketLobby, HandleOfferLobby,
     HandleStartLobby, SendStartLobby, RetryStartLobby, ReceiveErrorLobby DEF GamePart
<1>3. ASSUME NEW p \in Program, Click(p)
      PROVE  LobbyInv'
  BY <1>3, ClickChallengeLobby, ClickCancelLobby, ClickRetryLobby, ClickAcceptLobby,
     ReturnToLobbyLobby DEF Click
<1>4. ASSUME NEW p \in Program, Discovery(p)
      PROVE  LobbyInv'
  BY <1>4, DiscoverPeerLobby, RemovePeerLobby DEF Discovery
<1>5. ASSUME NEW p \in Program, NEW i \in 1 .. MaxSlots, Stage(p, i)
      PROVE  LobbyInv'
  BY <1>5, ConnectLobby, FinishConnectLobby, ConnectRefusedLobby, SayHelloLobby,
     HearHelloLobby, SendOfferLobby, HearAcceptLobby, ChallengeLostLobby DEF Stage
<1> QED
  BY <1>1, <1>2, <1>3, <1>4, <1>5 DEF Next

\* The n peers a program knows are as many programs: what its slots show is a
\* bijection.
LEMMA PeersCounted ==
  ASSUME NEW n \in Nat, NEW g, NEW S, S = {g[i] : i \in 1 .. n}
  PROVE  (\A i, j \in 1 .. n : g[i] = g[j] => i = j) <=> Cardinality(S) = n
<1> DEFINE f == [i \in 1 .. n |-> g[i]]
<1>1. f \in Surjection(1 .. n, S)
  BY DEF Surjection
<1>2. IsFiniteSet(1 .. n) /\ Cardinality(1 .. n) = n
  <2>1. 1 \in Int /\ n \in Int
    OBVIOUS
  <2>2. IsFiniteSet(1 .. n) /\ Cardinality(1 .. n) = IF 1 > n THEN 0 ELSE n - 1 + 1
    BY <2>1, FS_Interval, ZenonT(30)
  <2>3. (IF 1 > n THEN 0 ELSE n - 1 + 1) = n
    OBVIOUS
  <2> QED
    BY <2>2, <2>3
<1>3. Cardinality(S) = n <=> f \in Injection(1 .. n, S)
  BY <1>1, <1>2, FS_Surjection
<1>4. f \in Injection(1 .. n, S) <=> \A i, j \in 1 .. n : g[i] = g[j] => i = j
  BY <1>1 DEF Injection, IsInjective, Surjection
<1> QED
  BY <1>3, <1>4

LEMMA KnownCounted ==
  ASSUME NEW p, count[p] \in Nat
  PROVE  (\A i, j \in 1 .. count[p] : slots[p][i].peer = slots[p][j].peer => i = j)
           <=> Cardinality(Known(p)) = count[p]
<1> DEFINE g == [i \in 1 .. count[p] |-> slots[p][i].peer]
<1>1. Known(p) = {g[i] : i \in 1 .. count[p]}
  BY DEF Known
<1>2. \A i \in 1 .. count[p] : g[i] = slots[p][i].peer
  OBVIOUS
<1> HIDE DEF g
<1>3. (\A i, j \in 1 .. count[p] : g[i] = g[j] => i = j) <=> Cardinality(Known(p)) = count[p]
  BY <1>1, PeersCounted
<1> QED
  BY <1>2, <1>3

LEMMA InitLobby == Init => LobbyInv
<1> SUFFICES ASSUME Init
             PROVE  LobbyInv
  OBVIOUS
<1>1. ASSUME NEW p \in Program
      PROVE  count[p] = Cardinality({q \in Program : <<p, q>> \in KnownAtFirst})
             /\ count[p] \in 0 .. MaxSlots
  <2> DEFINE K == {q \in Program : <<p, q>> \in KnownAtFirst}
  <2>1. count[p] = Cardinality(K)
    BY DEF Init
  <2>2. IsFiniteSet(K)
    BY LobbyAssumption, FS_Subset
  <2>3. Cardinality(K) <= MaxSlots
    BY LobbyAssumption
  <2> HIDE DEF K
  <2>4. count[p] \in Nat /\ MaxSlots \in Nat
    BY <2>1, <2>2, FS_CardinalityType, ProgramsAssumption
  <2>5. count[p] \in 0 .. MaxSlots
    BY <2>1, <2>3, <2>4
  <2> QED
    BY <2>1, <2>5 DEF K
<1>2. count \in [Program -> 0 .. MaxSlots]
  BY <1>1 DEF Init
<1>3. ASSUME NEW q \in Program \cup {None}
      PROVE  /\ [EmptySlot EXCEPT !.peer = q] \in Slot
             /\ [EmptySlot EXCEPT !.peer = q].failures = 0
             /\ [EmptySlot EXCEPT !.peer = q].fd = 0
  <2>1. EmptySlot \in Slot /\ EmptySlot.failures = 0 /\ EmptySlot.fd = 0
    BY EmptySlotType DEF EmptySlot
  <2> QED
    BY <2>1 DEF Slot
<1>4. ASSUME NEW p \in Program, NEW i \in 1 .. MaxSlots
      PROVE  slots[p][i] \in Slot /\ slots[p][i].failures = 0 /\ slots[p][i].fd = 0
  <2> DEFINE First == {[EmptySlot EXCEPT !.peer = q] : q \in Program \cup {None}}
  <2>1. ASSUME NEW s \in First
        PROVE  s \in Slot /\ s.failures = 0 /\ s.fd = 0
    <3>1. PICK q \in Program \cup {None} : s = [EmptySlot EXCEPT !.peer = q]
      OBVIOUS
    <3> QED
      BY <1>3, <3>1
  <2>2. slots \in [Program -> [1 .. MaxSlots -> First]]
    BY DEF Init
  <2> HIDE DEF First
  <2>3. slots[p][i] \in First
    BY <2>2
  <2> QED
    BY <2>1, <2>3
<1>5. slots \in [Program -> Slots]
  BY <1>4 DEF Init, Slots
<1>6. ASSUME NEW p \in Program
      PROVE  LobbyOf(slots[p], count[p], p)
  <2>1. Known(p) = {q \in Program : <<p, q>> \in KnownAtFirst} /\ count[p] \in Nat
    BY <1>1 DEF Init
  <2>2. \A i \in 1 .. count[p] : slots[p][i].peer \in Program \ {p}
    BY <2>1, LobbyAssumption DEF Known
  <2>3. \A i, j \in 1 .. count[p] : slots[p][i].peer = slots[p][j].peer => i = j
    BY <1>1, <2>1, KnownCounted
  <2> QED
    BY <1>4, <2>2, <2>3 DEF LobbyOf
<1>7. session \in [Program -> SessionType] /\ transport \in [Program -> 0 .. MaxConns]
  BY NewSessionType, ProgramsAssumption DEF Init
<1>8. conns \in Conns
  BY UnusedType DEF Init, Conns, NoConnection
<1>9. backlog \in [Program -> Seq(ConnId)] /\ asked \in [Program -> SUBSET Program]
  BY DEF Init
<1> QED
  BY <1>2, <1>5, <1>6, <1>7, <1>8, <1>9 DEF LobbyInv, Types, Lobbies

LEMMA LobbyInvariance == Spec => []LobbyInv
BY InitLobby, NextLobby, PTL DEF Spec

\* What has gone astray is never forgotten.
StrayedGrows == strayed \subseteq strayed' /\ strayed' \subseteq strayed \cup Straying

LEMMA StrayedSteps ==
  ASSUME [Next]_vars
  PROVE  strayed \subseteq strayed' /\ strayed' \subseteq strayed \cup Straying
<1>1. CASE UNCHANGED vars
  BY <1>1 DEF vars, StrayedGrows
<1>2. ASSUME NEW p \in Program, GamePart(p) PROVE strayed' = strayed
  BY <1>2 DEF GamePart, Accept, AdvanceHello, HandlePacket, HandleOffer, HandleStart,
              SendStart, RetryStart, ReceiveError
<1>3. ASSUME NEW p \in Program, Click(p) PROVE StrayedGrows
  BY <1>3 DEF Click, ClickChallenge, ClickCancel, ClickRetry, ClickAccept, ReturnToLobby,
              Strays, Straying, StrayedGrows
<1>4. ASSUME NEW p \in Program, Discovery(p) PROVE StrayedGrows
  <2>1. ASSUME NEW q \in Program, DiscoverPeer(p, q) PROVE StrayedGrows
    BY <2>1 DEF DiscoverPeer, Strays, Straying, StrayedGrows
  <2>2. ASSUME NEW q \in Program, RemovePeer(p, q) PROVE StrayedGrows
    BY <2>2 DEF RemovePeer, Straying, StrayedGrows
  <2> QED
    BY <1>4, <2>1, <2>2 DEF Discovery
<1>5. ASSUME NEW p \in Program, NEW i \in 1 .. MaxSlots, Stage(p, i)
      PROVE  strayed' = strayed
  BY <1>5 DEF Stage, Connect, FinishConnect, ConnectRefused, SayHello, HearHello, SendOffer,
              HearAccept, ChallengeLost
<1> QED
  BY <1>1, <1>2, <1>3, <1>4, <1>5 DEF Next, StrayedGrows

LEMMA StrayedTyped == Spec => [](strayed \subseteq Straying)
<1>1. Init => strayed \subseteq Straying
  BY DEF Init
<1>2. strayed \subseteq Straying /\ [Next]_vars => (strayed \subseteq Straying)'
  BY StrayedSteps DEF Straying
<1> QED
  BY <1>1, <1>2, PTL DEF Spec

LEMMA LobbyTyped == LobbyInv /\ strayed \subseteq Straying => TypeOK
<1> SUFFICES ASSUME LobbyInv, strayed \subseteq Straying
             PROVE  TypeOK
  OBVIOUS
<1>1. ASSUME NEW p \in Program
      PROVE  Cardinality(Known(p)) = count[p]
  <2>1. LobbyOf(slots[p], count[p], p) /\ count[p] \in Nat
    BY DEF LobbyInv, Lobbies, Types
  <2> QED
    BY <2>1, KnownCounted DEF LobbyOf
<1> QED
  BY <1>1 DEF LobbyInv, Types, TypeOK, Slots, Conns

\* The variables have their types, for any programs, lobbies and connections,
\* and the peers a program lists are as many as it counts: no program is listed
\* twice, however its slots move (lobby_state.c), and no challenge counts more
\* refused connects than it may have.
THEOREM LobbiesWellFormed == Spec => []TypeOK
BY LobbyInvariance, StrayedTyped, LobbyTyped, PTL

-----------------------------------------------------------------------------
(* The inductive invariant of a lobby no slot of which is freed with a challenge *)

\* A slot without a challenge is clean: it has no connection and nothing of an
\* earlier challenge in it; one with a challenge of the program's own shows a
\* peer the player has asked.
SlotQuiet(s, a) ==
  /\ s.state = "NONE" => s.fd = 0 /\ ~s.connecting /\ s.hello = "no" /\ ~s.offerSent
  /\ s.state \in {"OUTGOING_PENDING", "CONNECT_FAILED"} => s.peer \in a

\* Slots beyond the peers listed are without a challenge: what the next peer
\* found finds in its slot is clean.
LobbyQuiet(f, n, a) ==
  \A i \in 1 .. MaxSlots : SlotQuiet(f[i], a) /\ (i > n => f[i].state = "NONE")

Quiet == \A p \in Program : LobbyQuiet(slots[p], count[p], asked[p])

\* Both invariants, each of which the other needs.
AskedInv == LobbyInv /\ Quiet

-----------------------------------------------------------------------------
(* Lemmas on what is asked *)

\* What is known of one slot.
LEMMA QuietSlot ==
  ASSUME AskedInv, NEW p \in Program, NEW i \in 1 .. MaxSlots
  PROVE  /\ slots[p][i] \in Slot /\ SlotQuiet(slots[p][i], asked[p])
         /\ i > count[p] => slots[p][i].state = "NONE"
BY DEF AskedInv, LobbyInv, Types, Slots, Quiet, LobbyQuiet

\* One lobby and what its player has asked are replaced.
LEMMA QuietChange ==
  ASSUME AskedInv, NEW p \in Program, NEW f \in Slots, NEW n \in 0 .. MaxSlots,
         NEW a \in SUBSET Program, LobbyQuiet(f, n, a),
         slots' = [slots EXCEPT ![p] = f], count' = [count EXCEPT ![p] = n],
         asked' = [asked EXCEPT ![p] = a]
  PROVE  Quiet'
<1>1. ASSUME NEW r \in Program
      PROVE  LobbyQuiet(slots'[r], count'[r], asked'[r])
  <2>1. CASE r = p
    BY <2>1 DEF AskedInv, LobbyInv, Types
  <2>2. CASE r # p
    <3>1. slots'[r] = slots[r] /\ count'[r] = count[r] /\ asked'[r] = asked[r]
      BY <2>2 DEF AskedInv, LobbyInv, Types
    <3> QED
      BY <3>1 DEF AskedInv, Quiet
  <2> QED
    BY <2>1, <2>2
<1> QED
  BY <1>1 DEF Quiet

\* One lobby is replaced by another that lists as many peers.
LEMMA QuietLobby ==
  ASSUME AskedInv, NEW p \in Program, NEW f \in Slots, LobbySet(p, f),
         NEW a \in SUBSET Program, asked' = [asked EXCEPT ![p] = a],
         \A j \in 1 .. count[p] : SlotQuiet(f[j], a),
         \A j \in 1 .. MaxSlots : j > count[p] => f[j] = slots[p][j]
  PROVE  Quiet'
<1>1. count[p] \in 0 .. MaxSlots /\ MaxSlots \in Nat /\ count' = [count EXCEPT ![p] = count[p]]
  BY ProgramsAssumption DEF AskedInv, LobbyInv, Types, LobbySet
<1>2. ASSUME NEW j \in 1 .. MaxSlots
      PROVE  SlotQuiet(f[j], a) /\ (j > count[p] => f[j].state = "NONE")
  <2>1. CASE j \in 1 .. count[p]
    BY <1>1, <2>1
  <2>2. CASE j \notin 1 .. count[p]
    <3>1. j > count[p] /\ f[j] = slots[p][j]
      BY <1>1, <2>2
    <3>2. f[j].state = "NONE" /\ SlotQuiet(f[j], asked[p])
      BY <3>1, QuietSlot
    <3> QED
      BY <3>2 DEF SlotQuiet
  <2> QED
    BY <2>1, <2>2
<1> QED
  BY <1>1, <1>2, QuietChange DEF LobbySet, LobbyQuiet

\* One slot is replaced.
LEMMA QuietSlotSet ==
  ASSUME AskedInv, NEW p \in Program, NEW i \in 1 .. count[p], NEW s \in Slot,
         SlotSet(p, i, s), NEW a \in SUBSET Program, asked' = [asked EXCEPT ![p] = a],
         SlotQuiet(s, a),
         \A j \in 1 .. count[p] : j # i => SlotQuiet(slots[p][j], a)
  PROVE  Quiet'
<1> DEFINE f == [slots[p] EXCEPT ![i] = s]
<1>1. /\ i \in 1 .. MaxSlots /\ slots[p] \in Slots /\ count[p] \in 0 .. MaxSlots
      /\ MaxSlots \in Nat
  BY ProgramsAssumption DEF AskedInv, LobbyInv, Types
<1>2. f \in Slots /\ f[i] = s /\ \A j \in 1 .. MaxSlots : j # i => f[j] = slots[p][j]
  BY <1>1 DEF Slots
<1>3. LobbySet(p, f)
  BY DEF LobbySet, SlotSet, AskedInv, LobbyInv, Types
<1> HIDE DEF f
<1>4. \A j \in 1 .. count[p] : SlotQuiet(f[j], a)
  BY <1>1, <1>2
<1>5. \A j \in 1 .. MaxSlots : j > count[p] => f[j] = slots[p][j]
  BY <1>1, <1>2
<1> QED
  BY <1>2, <1>3, <1>4, <1>5, QuietLobby

\* The same, when the player asks for nothing and takes nothing back.
LEMMA QuietSlotKept ==
  ASSUME AskedInv, NEW p \in Program, NEW i \in 1 .. count[p], NEW s \in Slot,
         SlotSet(p, i, s), asked' = asked, SlotQuiet(s, asked[p])
  PROVE  Quiet'
<1>1. asked[p] \in SUBSET Program /\ asked' = [asked EXCEPT ![p] = asked[p]]
  BY DEF AskedInv, LobbyInv, Types
<1>2. \A j \in 1 .. count[p] : SlotQuiet(slots[p][j], asked[p])
  <2>1. 1 .. count[p] \subseteq 1 .. MaxSlots
    BY ProgramsAssumption DEF AskedInv, LobbyInv, Types
  <2> QED
    BY <2>1, QuietSlot
<1> QED
  BY <1>1, <1>2, QuietSlotSet

\* The parts of a step that leave the lobbies alone.
LEMMA QuietSame ==
  ASSUME AskedInv, slots' = slots, count' = count, asked' = asked
  PROVE  Quiet'
BY DEF AskedInv, Quiet

\* What ends a connection, or a challenge, leaves a slot as good as it was.
LEMMA QuietDisconnected ==
  ASSUME NEW s \in Slot, NEW a, SlotQuiet(s, a)
  PROVE  /\ SlotQuiet(Disconnected(s), a)
         /\ SlotQuiet(WithState(Disconnected(s), "NONE"), {})
         /\ SlotQuiet(WithState(Disconnected(s), "NONE"), a)
<1> DEFINE d == Disconnected(s)
           w == WithState(d, "NONE")
<1>1. /\ d \in Slot /\ d.peer = s.peer /\ d.state = s.state /\ d.offerSent = s.offerSent
      /\ d.fd = 0 /\ ~d.connecting /\ d.hello = "no"
  BY DisconnectedType
<1>2. /\ w.state = "NONE" /\ w.fd = d.fd /\ w.connecting = d.connecting
      /\ w.hello = d.hello /\ ~w.offerSent
  <2> HIDE DEF d
  <2> QED
    BY <1>1, WithStateType DEF ChallengeState
<1> HIDE DEF d, w
<1>3. SlotQuiet(d, a)
  BY <1>1 DEF SlotQuiet
<1>4. SlotQuiet(w, {}) /\ SlotQuiet(w, a)
  BY <1>1, <1>2 DEF SlotQuiet
<1> QED
  BY <1>3, <1>4 DEF d, w

-----------------------------------------------------------------------------
(* Every step keeps the invariant *)

\* A slot that is used is one of the slots.
LEMMA ListedSlot ==
  ASSUME AskedInv, NEW p \in Program, NEW i \in 1 .. count[p]
  PROVE  i \in 1 .. MaxSlots /\ slots[p][i] \in Slot /\ SlotQuiet(slots[p][i], asked[p])
<1>1. i \in 1 .. MaxSlots
  BY ProgramsAssumption DEF AskedInv, LobbyInv, Types
<1> QED
  BY <1>1, QuietSlot

LEMMA ClickChallengeAsked ==
  ASSUME AskedInv, NEW p \in Program, NEW i \in 1 .. MaxSlots, ClickChallenge(p, i)
  PROVE  Quiet'
<1> DEFINE s == WithState(slots[p][i], "OUTGOING_PENDING")
           a == asked[p] \cup {slots[p][i].peer}
<1>1. i \in 1 .. count[p] /\ slots[p][i] \in Slot /\ slots[p][i].peer \in Program
  BY SlotKnown DEF ClickChallenge, Listed, AskedInv
<1>2. s \in Slot /\ s.peer = slots[p][i].peer /\ s.state = "OUTGOING_PENDING"
  BY <1>1, WithStateType DEF ChallengeState
<1>3. SlotSet(p, i, s) /\ asked' = [asked EXCEPT ![p] = a] /\ a \in SUBSET Program
  BY <1>1 DEF SlotSet, ClickChallenge, AskedInv, LobbyInv, Types
<1>4. SlotQuiet(s, a)
  BY <1>2 DEF SlotQuiet
<1>5. \A j \in 1 .. count[p] : j # i => SlotQuiet(slots[p][j], a)
  BY ListedSlot DEF SlotQuiet
<1> HIDE DEF s, a
<1> QED
  BY <1>1, <1>2, <1>3, <1>4, <1>5, QuietSlotSet

\* A withdrawn challenge of a player who still stands by it, or is left none.
LEMMA WithdrawAsked ==
  ASSUME AskedInv, NEW p \in Program, NEW i \in 1 .. count[p],
         NEW st \in {"NONE", "OUTGOING_PENDING"}, Withdraw(p, i, st), asked' = asked,
         st # "NONE" => slots[p][i].state = "CONNECT_FAILED"
  PROVE  Quiet'
<1> DEFINE d == Disconnected(slots[p][i])
           s == WithState(d, st)
<1>1. slots[p][i] \in Slot /\ SlotQuiet(slots[p][i], asked[p])
  BY ListedSlot
<1>2. d \in Slot /\ d.peer = slots[p][i].peer
  BY <1>1, DisconnectedType
<1>3. s \in Slot /\ s.state = st /\ s.peer = slots[p][i].peer
  <2> HIDE DEF d
  <2> QED
    BY <1>2, WithStateType DEF ChallengeState
<1>4. SlotQuiet(s, asked[p])
  <2>1. CASE st = "NONE"
    BY <1>1, <2>1, QuietDisconnected
  <2>2. CASE st # "NONE"
    <3> HIDE DEF s, d
    <3> QED
      BY <1>1, <1>3, <2>2 DEF SlotQuiet
  <2> QED
    BY <2>1, <2>2
<1>5. SlotSet(p, i, s)
  BY DEF SlotSet, Withdraw
<1> HIDE DEF s
<1> QED
  BY <1>3, <1>4, <1>5, QuietSlotKept

LEMMA ClickCancelAsked ==
  ASSUME AskedInv, NEW p \in Program, NEW i \in 1 .. MaxSlots, ClickCancel(p, i)
  PROVE  Quiet'
<1> DEFINE s == WithState(Disconnected(slots[p][i]), "NONE")
           a == asked[p] \ {slots[p][i].peer}
<1>1. i \in 1 .. count[p] /\ slots[p][i] \in Slot /\ SlotQuiet(slots[p][i], asked[p])
  BY ListedSlot DEF ClickCancel, Listed
<1>2. s \in Slot /\ SlotQuiet(s, a)
  <2>1. SlotQuiet(s, {}) /\ s \in Slot /\ s.state = "NONE"
    BY <1>1, QuietDisconnected, DisconnectedType, WithStateType DEF ChallengeState
  <2> HIDE DEF s
  <2> QED
    BY <2>1 DEF SlotQuiet
<1>3. SlotSet(p, i, s) /\ asked' = [asked EXCEPT ![p] = a] /\ a \in SUBSET Program
  BY DEF SlotSet, ClickCancel, Withdraw, AskedInv, LobbyInv, Types
<1>4. ASSUME NEW j \in 1 .. count[p], j # i
      PROVE  SlotQuiet(slots[p][j], a)
  <2>1. slots[p][j].peer # slots[p][i].peer
    BY <1>1, <1>4 DEF AskedInv, LobbyInv, Lobbies, LobbyOf
  <2> QED
    BY <2>1, ListedSlot DEF SlotQuiet
<1> HIDE DEF s, a
<1> QED
  BY <1>1, <1>2, <1>3, <1>4, QuietSlotSet

LEMMA ClickRetryAsked ==
  ASSUME AskedInv, NEW p \in Program, NEW i \in 1 .. MaxSlots, ClickRetry(p, i)
  PROVE  Quiet'
BY WithdrawAsked DEF ClickRetry, Listed

LEMMA ChallengeLostAsked ==
  ASSUME AskedInv, NEW p \in Program, NEW i \in 1 .. MaxSlots, ChallengeLost(p, i)
  PROVE  Quiet'
BY WithdrawAsked DEF ChallengeLost, Advancing, Listed

\* A slot that changes while its challenge is pending.
LEMMA PendingAsked ==
  ASSUME AskedInv, NEW p \in Program, NEW i \in 1 .. count[p], NEW s \in Slot,
         SlotSet(p, i, s), asked' = asked, s.peer = slots[p][i].peer,
         slots[p][i].state = "OUTGOING_PENDING", s.state # "NONE"
  PROVE  Quiet'
<1>1. SlotQuiet(s, asked[p])
  BY ListedSlot DEF SlotQuiet
<1> QED
  BY <1>1, QuietSlotKept

LEMMA ConnectAsked ==
  ASSUME AskedInv, NEW p \in Program, NEW i \in 1 .. MaxSlots, Connect(p, i)
  PROVE  Quiet'
<1>1. /\ i \in 1 .. count[p] /\ slots[p][i] \in Slot /\ slots \in [Program -> Slots]
      /\ slots[p][i].state = "OUTGOING_PENDING"
  BY ListedSlot DEF Connect, Advancing, Listed, AskedInv, LobbyInv, Types
<1>2. PICK c \in ConnId : slots' = [slots EXCEPT ![p][i].fd = c, ![p][i].connecting = TRUE]
  BY DEF Connect
<1> DEFINE s == [slots[p][i] EXCEPT !.fd = c, !.connecting = TRUE]
<1>3. slots' = [slots EXCEPT ![p][i] = s]
  BY <1>1, <1>2 DEF Slots
<1>4. SlotSet(p, i, s) /\ asked' = asked
  BY <1>3 DEF SlotSet, Connect
<1>5. s \in Slot /\ s.peer = slots[p][i].peer /\ s.state = "OUTGOING_PENDING"
  <2>1. c \in 0 .. MaxConns
    BY ProgramsAssumption DEF ConnId
  <2> QED
    BY <1>1, <2>1 DEF Slot
<1> HIDE DEF s
<1> QED
  BY <1>1, <1>4, <1>5, PendingAsked

LEMMA FinishConnectAsked ==
  ASSUME AskedInv, NEW p \in Program, NEW i \in 1 .. MaxSlots, FinishConnect(p, i)
  PROVE  Quiet'
<1> DEFINE u == [slots[p][i] EXCEPT !.connecting = FALSE]
           s == [u EXCEPT !.failures = 0]
<1>1. /\ i \in 1 .. count[p] /\ slots[p][i] \in Slot /\ slots \in [Program -> Slots]
      /\ slots[p][i].state = "OUTGOING_PENDING" /\ i \in 1 .. MaxSlots
  BY ListedSlot DEF FinishConnect, Advancing, Listed, AskedInv, LobbyInv, Types
<1>2. u \in Slot /\ u.peer = slots[p][i].peer /\ u.state = slots[p][i].state
  BY <1>1 DEF Slot
<1>3. s = [slots[p][i] EXCEPT !.connecting = FALSE, !.failures = 0]
  BY <1>1 DEF Slot
<1>4. slots' = [slots EXCEPT ![p][i] = s]
  BY <1>1, <1>3 DEF FinishConnect, Slots
<1>5. SlotSet(p, i, s) /\ asked' = asked
  BY <1>4 DEF SlotSet, FinishConnect
<1> HIDE DEF u
<1>6. s \in Slot /\ s.peer = u.peer /\ s.state = u.state
  BY <1>2 DEF Slot
<1> HIDE DEF s
<1> QED
  BY <1>1, <1>2, <1>5, <1>6, PendingAsked

LEMMA ConnectRefusedAsked ==
  ASSUME AskedInv, NEW p \in Program, NEW i \in 1 .. MaxSlots, ConnectRefused(p, i)
  PROVE  Quiet'
<1> DEFINE s == Failed(slots[p][i])
<1>1. /\ i \in 1 .. count[p] /\ slots[p][i] \in Slot
      /\ slots[p][i].state = "OUTGOING_PENDING" /\ slots[p][i].failures # 3
  BY SlotKnown DEF ConnectRefused, Advancing, Listed, AskedInv
<1>2. s \in Slot /\ s.peer = slots[p][i].peer /\ s.state # "NONE"
  BY <1>1, FailedType
<1>3. SlotSet(p, i, s) /\ asked' = asked
  BY DEF SlotSet, ConnectRefused
<1> HIDE DEF s
<1> QED
  BY <1>1, <1>2, <1>3, PendingAsked

LEMMA SayHelloAsked ==
  ASSUME AskedInv, NEW p \in Program, NEW i \in 1 .. MaxSlots, SayHello(p, i)
  PROVE  Quiet'
<1> DEFINE s == [slots[p][i] EXCEPT !.hello = "sent"]
<1>1. /\ i \in 1 .. count[p] /\ slots[p][i] \in Slot /\ slots \in [Program -> Slots]
      /\ slots[p][i].state = "OUTGOING_PENDING"
  BY ListedSlot DEF SayHello, Advancing, Listed, AskedInv, LobbyInv, Types
<1>2. slots' = [slots EXCEPT ![p][i] = s]
  BY <1>1 DEF SayHello, Slots
<1>3. SlotSet(p, i, s) /\ asked' = asked
  BY <1>2 DEF SlotSet, SayHello
<1>4. s \in Slot /\ s.peer = slots[p][i].peer /\ s.state = slots[p][i].state
  BY <1>1 DEF Slot
<1> HIDE DEF s
<1> QED
  BY <1>1, <1>3, <1>4, PendingAsked

LEMMA SendOfferAsked ==
  ASSUME AskedInv, NEW p \in Program, NEW i \in 1 .. MaxSlots, SendOffer(p, i)
  PROVE  Quiet'
<1> DEFINE s == [slots[p][i] EXCEPT !.offerSent = TRUE]
<1>1. /\ i \in 1 .. count[p] /\ slots[p][i] \in Slot /\ slots \in [Program -> Slots]
      /\ slots[p][i].state = "OUTGOING_PENDING"
  BY ListedSlot DEF SendOffer, Advancing, Listed, AskedInv, LobbyInv, Types
<1>2. slots' = [slots EXCEPT ![p][i] = s]
  BY <1>1 DEF SendOffer, Slots
<1>3. SlotSet(p, i, s) /\ asked' = asked
  BY <1>2 DEF SlotSet, SendOffer
<1>4. s \in Slot /\ s.peer = slots[p][i].peer /\ s.state = slots[p][i].state
  BY <1>1 DEF Slot
<1> HIDE DEF s
<1> QED
  BY <1>1, <1>3, <1>4, PendingAsked

LEMMA HearHelloAsked ==
  ASSUME AskedInv, NEW p \in Program, NEW i \in 1 .. MaxSlots, HearHello(p, i)
  PROVE  Quiet'
<1> DEFINE c == slots[p][i].fd
           s == [slots[p][i] EXCEPT !.hello = "completed"]
<1>1. /\ i \in 1 .. count[p] /\ slots[p][i] \in Slot /\ slots \in [Program -> Slots]
      /\ slots[p][i].state = "OUTGOING_PENDING" /\ asked' = asked
  BY ListedSlot DEF HearHello, Advancing, Listed, AskedInv, LobbyInv, Types
<1>2. CASE Head(conns[c].toRead["dialer"]).type = "HELLO"
  <2>1. slots' = [slots EXCEPT ![p][i] = s]
    BY <1>1, <1>2 DEF HearHello, Slots
  <2>2. SlotSet(p, i, s)
    BY <1>2, <2>1 DEF SlotSet, HearHello
  <2>3. s \in Slot /\ s.peer = slots[p][i].peer /\ s.state = slots[p][i].state
    BY <1>1 DEF Slot
  <2> HIDE DEF s
  <2> QED
    BY <1>1, <2>2, <2>3, PendingAsked
<1>3. CASE Head(conns[c].toRead["dialer"]).type # "HELLO"
  <2>1. Withdraw(p, i, "NONE")
    BY <1>3 DEF HearHello
  <2> QED
    BY <1>1, <2>1, WithdrawAsked
<1> QED
  BY <1>2, <1>3

\* The challenge of one slot becomes the game, and the others end or are left
\* without their connection.
LEMMA AnsweredAsked ==
  ASSUME AskedInv, NEW p \in Program, NEW i \in 1 .. count[p],
         NEW f \in {OthersClosed(p, i), AnsweredSlots(p, i)}, LobbySet(p, f), asked' = asked
  PROVE  Quiet'
<1>1. /\ f \in Slots /\ f[i].state = "MATCHED"
      /\ \A j \in 1 .. count[p] : j # i =>
           f[j] = IF slots[p][j].state = "OUTGOING_PENDING"
                  THEN WithState(Disconnected(slots[p][j]), "NONE")
                  ELSE Disconnected(slots[p][j])
      /\ \A j \in 1 .. MaxSlots : j > count[p] => f[j] = slots[p][j]
  BY OthersClosedSlots DEF AskedInv
<1>2. ASSUME NEW j \in 1 .. count[p]
      PROVE  SlotQuiet(f[j], asked[p])
  <2>1. CASE j = i
    BY <1>1, <2>1 DEF SlotQuiet
  <2>2. CASE j # i
    BY <1>1, <2>2, ListedSlot, QuietDisconnected
  <2> QED
    BY <2>1, <2>2
<1>3. asked[p] \in SUBSET Program /\ asked' = [asked EXCEPT ![p] = asked[p]]
  BY DEF AskedInv, LobbyInv, Types
<1> QED
  BY <1>1, <1>2, <1>3, QuietLobby

LEMMA HearAcceptAsked ==
  ASSUME AskedInv, NEW p \in Program, NEW i \in 1 .. MaxSlots, HearAccept(p, i)
  PROVE  Quiet'
<1>1. /\ i \in 1 .. count[p] /\ LobbySet(p, OthersClosed(p, i)) /\ asked' = asked
  BY DEF HearAccept, Advancing, Listed, LobbySet
<1> QED
  BY <1>1, AnsweredAsked

LEMMA ClickAcceptAsked ==
  ASSUME AskedInv, NEW p \in Program, NEW i \in 1 .. MaxSlots, ClickAccept(p, i)
  PROVE  Quiet'
<1> DEFINE D == AllDisconnected(p)
           f == [D EXCEPT ![i].state = "MATCHED"]
           a == asked[p] \cup {slots[p][i].peer}
<1>1. /\ i \in 1 .. count[p] /\ i \in 1 .. MaxSlots /\ slots[p][i].peer \in Program
      /\ count[p] \in Nat
  BY SlotKnown DEF ClickAccept, Listed, AskedInv, LobbyInv, Types
<1>2. /\ D \in Slots
      /\ \A j \in 1 .. count[p] : D[j] = Disconnected(slots[p][j])
      /\ \A j \in 1 .. MaxSlots : j > count[p] => D[j] = slots[p][j]
  BY AllDisconnectedLobby DEF AskedInv
<1> HIDE DEF D
<1>3. f = Marked(D, i)
  BY DEF Marked
<1> HIDE DEF f
<1>4. /\ f \in Slots /\ f[i].state = "MATCHED"
      /\ \A j \in 1 .. MaxSlots : j # i => f[j] = D[j]
  BY <1>1, <1>2, <1>3, SlotMatched
<1>5. ASSUME NEW j \in 1 .. count[p]
      PROVE  SlotQuiet(f[j], a)
  <2>1. CASE j = i
    BY <1>4, <2>1 DEF SlotQuiet
  <2>2. CASE j # i
    <3>1. f[j] = Disconnected(slots[p][j])
      BY <1>2, <1>4, <2>2, ListedSlot
    <3>2. SlotQuiet(Disconnected(slots[p][j]), asked[p])
      BY ListedSlot, QuietDisconnected
    <3> QED
      BY <3>1, <3>2 DEF SlotQuiet
  <2> QED
    BY <2>1, <2>2
<1>6. \A j \in 1 .. MaxSlots : j > count[p] => f[j] = slots[p][j]
  BY <1>1, <1>2, <1>4
<1>7. LobbySet(p, f) /\ asked' = [asked EXCEPT ![p] = a] /\ a \in SUBSET Program
  BY <1>1 DEF LobbySet, ClickAccept, f, D, AskedInv, LobbyInv, Types
<1> HIDE DEF a
<1> QED
  BY <1>4, <1>5, <1>6, <1>7, QuietLobby

LEMMA HandlePacketAsked ==
  ASSUME AskedInv, NEW p \in Program, HandlePacket(p)
  PROVE  Quiet'
<1>1. ASSUME NEW i \in 1 .. count[p], slots' = [slots EXCEPT ![p][i].state = "MATCHED"]
      PROVE  Quiet'
  <2> DEFINE s == [slots[p][i] EXCEPT !.state = "MATCHED"]
  <2>1. slots \in [Program -> Slots] /\ count' = count /\ asked' = asked
    BY PacketMarks DEF AskedInv, LobbyInv, Types
  <2>2. slots[p][i] \in Slot /\ i \in 1 .. MaxSlots
    BY ListedSlot
  <2>3. slots' = [slots EXCEPT ![p][i] = s]
    BY <1>1, <2>1, <2>2 DEF Slots
  <2>4. SlotSet(p, i, s)
    BY <2>1, <2>3 DEF SlotSet
  <2>5. s \in Slot /\ s.state = "MATCHED"
    BY <2>2 DEF Slot, ChallengeState
  <2>6. SlotQuiet(s, asked[p])
    BY <2>5 DEF SlotQuiet
  <2> HIDE DEF s
  <2> QED
    BY <2>1, <2>4, <2>5, <2>6, QuietSlotKept
<1>2. CASE slots' = slots
  BY <1>2, PacketMarks, QuietSame
<1> QED
  BY <1>1, <1>2, PacketMarks

LEMMA HandleOfferAsked ==
  ASSUME AskedInv, NEW p \in Program, HandleOffer(p)
  PROVE  Quiet'
<1> DEFINE q == Packet(p).from
           i == SlotOf(p, q)
<1>1. count' = count /\ asked' = asked
  BY DEF HandleOffer
<1>2. CASE UNCHANGED slots
  BY <1>1, <1>2, QuietSame
<1>3. CASE /\ q \in Known(p)
           /\ slots' = [slots EXCEPT ![p] =
                 [OthersWithdrawn(AllDisconnected(p), count[p], i)
                    EXCEPT ![i].state = "MATCHED"]]
  <2>1. i \in 1 .. count[p]
    BY <1>3, SlotFound
  <2>2. LobbySet(p, AnsweredSlots(p, i))
    BY <1>1, <1>3 DEF LobbySet, AnsweredSlots, Marked
  <2> HIDE DEF i
  <2> QED
    BY <1>1, <2>1, <2>2, AnsweredAsked
<1>4. CASE /\ q \in Known(p)
           /\ slots' = [slots EXCEPT ![p][i] = WithState(@, "INCOMING_PENDING")]
  <2> DEFINE s == WithState(slots[p][i], "INCOMING_PENDING")
  <2>1. i \in 1 .. count[p]
    BY <1>4, SlotFound
  <2>2. s \in Slot /\ s.state = "INCOMING_PENDING"
    BY <2>1, ListedSlot, WithStateType DEF ChallengeState
  <2>3. SlotSet(p, i, s)
    BY <1>1, <1>4 DEF SlotSet
  <2> HIDE DEF i, s
  <2>4. SlotQuiet(s, asked[p])
    BY <2>2 DEF SlotQuiet
  <2> QED
    BY <1>1, <2>1, <2>2, <2>3, <2>4, QuietSlotKept
<1> QED
  BY <1>2, <1>3, <1>4 DEF HandleOffer

LEMMA ReceiveErrorAsked ==
  ASSUME AskedInv, NEW p \in Program, ReceiveError(p)
  PROVE  Quiet'
<1>1. CASE session[p].startDone
  BY <1>1, QuietSame DEF ReceiveError
<1>2. CASE ~session[p].startDone
  <2>1. LobbySet(p, Cleared(p)) /\ asked' = [asked EXCEPT ![p] = {}]
    BY <1>2 DEF ReceiveError, LobbySet
  <2>2. ASSUME NEW i \in 1 .. count[p]
        PROVE  SlotQuiet(Cleared(p)[i], {})
    <3>1. Cleared(p)[i] = WithState(Disconnected(slots[p][i]), "NONE")
      BY AllDisconnectedLobby DEF AskedInv
    <3> QED
      BY <3>1, ListedSlot, QuietDisconnected
  <2>3. /\ Cleared(p) \in Slots
        /\ \A j \in 1 .. MaxSlots : j > count[p] => Cleared(p)[j] = slots[p][j]
    BY AllDisconnectedLobby DEF AskedInv
  <2> DEFINE f == Cleared(p)
             a == {}
  <2>4. /\ a \in SUBSET Program /\ asked' = [asked EXCEPT ![p] = a]
        /\ f \in Slots /\ LobbySet(p, f)
        /\ \A i \in 1 .. count[p] : SlotQuiet(f[i], a)
        /\ \A j \in 1 .. MaxSlots : j > count[p] => f[j] = slots[p][j]
    BY <2>1, <2>2, <2>3
  <2> HIDE DEF f, a
  <2> QED
    BY <2>4, QuietLobby
<1> QED
  BY <1>1, <1>2

\* The lobby of a program that starts afresh.
LEMMA EmptyQuiet ==
  LobbyQuiet([i \in 1 .. MaxSlots |-> EmptySlot], 0, {})
BY DEF LobbyQuiet, SlotQuiet, EmptySlot

LEMMA ReturnToLobbyAsked ==
  ASSUME AskedInv, NEW p \in Program, ReturnToLobby(p)
  PROVE  Quiet'
<1> DEFINE f == [i \in 1 .. MaxSlots |-> EmptySlot]
<1>1. f \in Slots /\ LobbyQuiet(f, 0, {}) /\ 0 \in 0 .. MaxSlots /\ {} \in SUBSET Program
  BY EmptyLobby, EmptyQuiet, ProgramsAssumption
<1>2. /\ slots' = [slots EXCEPT ![p] = f] /\ count' = [count EXCEPT ![p] = 0]
      /\ asked' = [asked EXCEPT ![p] = {}]
  BY DEF ReturnToLobby
<1> HIDE DEF f
<1> QED
  BY <1>1, <1>2, QuietChange

LEMMA ListedAsked ==
  ASSUME AskedInv, NEW p \in Program, NEW q \in Program, DiscoverPeer(p, q),
         count[p] < MaxSlots
  PROVE  Quiet'
<1> DEFINE n == count[p] + 1
           s == AddedTo(slots[p][n], q)
           u == IF session[p].offer = q THEN WithState(s, "INCOMING_PENDING") ELSE s
           f == [slots[p] EXCEPT ![n] = u]
<1>1. /\ n \in 1 .. MaxSlots /\ n \in 0 .. MaxSlots /\ slots[p] \in Slots
      /\ count[p] \in Nat /\ n > count[p]
  BY ProgramsAssumption DEF DiscoverPeer, AskedInv, LobbyInv, Types
<1>2. slots[p][n] \in Slot /\ slots[p][n].state = "NONE" /\ SlotQuiet(slots[p][n], asked[p])
  <2> HIDE DEF n
  <2> QED
    BY <1>1, QuietSlot
<1>3. /\ s \in Slot /\ s.state = "NONE" /\ SlotQuiet(s, asked[p])
  <2>1. 0 \in 0 .. MaxConns
    BY ProgramsAssumption
  <2>2. /\ s \in Slot /\ s.state = slots[p][n].state /\ s.fd = 0
        /\ s.connecting = slots[p][n].connecting /\ s.hello = slots[p][n].hello
        /\ s.offerSent = slots[p][n].offerSent
    BY <1>2, <2>1 DEF AddedTo, Slot
  <2> HIDE DEF s, n
  <2> QED
    BY <1>2, <2>2 DEF SlotQuiet
<1>4. u \in Slot /\ SlotQuiet(u, asked[p])
  <2>1. CASE session[p].offer = q
    <3> HIDE DEF s
    <3>1. u \in Slot /\ u.state = "INCOMING_PENDING"
      BY <1>3, <2>1, WithStateType DEF ChallengeState
    <3> HIDE DEF u
    <3> QED
      BY <3>1 DEF SlotQuiet
  <2>2. CASE session[p].offer # q
    BY <1>3, <2>2
  <2> QED
    BY <2>1, <2>2
<1> HIDE DEF u
<1>5. f \in Slots /\ f[n] = u /\ \A j \in 1 .. MaxSlots : j # n => f[j] = slots[p][j]
  BY <1>1, <1>4 DEF Slots
<1>6. slots' = [slots EXCEPT ![p] = f] /\ count' = [count EXCEPT ![p] = n]
  <2>1. [[slots[p] EXCEPT ![n] = s] EXCEPT ![n] = WithState(@, "INCOMING_PENDING")]
          = [slots[p] EXCEPT ![n] = WithState(s, "INCOMING_PENDING")]
    BY <1>1 DEF Slots
  <2> QED
    BY <1>1, <2>1 DEF DiscoverPeer, u
<1>7. asked[p] \in SUBSET Program /\ asked' = [asked EXCEPT ![p] = asked[p]]
  BY DEF DiscoverPeer, AskedInv, LobbyInv, Types
<1>8. LobbyQuiet(f, n, asked[p])
  <2> HIDE DEF f
  <2>1. ASSUME NEW j \in 1 .. MaxSlots
        PROVE  SlotQuiet(f[j], asked[p]) /\ (j > n => f[j].state = "NONE")
    <3>1. CASE j = n
      BY <1>1, <1>4, <1>5, <3>1
    <3>2. CASE j # n
      <4>1. f[j] = slots[p][j] /\ (j > n => j > count[p])
        BY <1>1, <1>5, <3>2
      <4> QED
        BY <4>1, QuietSlot
    <3> QED
      BY <3>1, <3>2
  <2> QED
    BY <2>1 DEF LobbyQuiet
<1> HIDE DEF f, n
<1> QED
  BY <1>1, <1>5, <1>6, <1>7, <1>8, QuietChange

LEMMA DiscoverPeerAsked ==
  ASSUME AskedInv, NEW p \in Program, NEW q \in Program, DiscoverPeer(p, q)
  PROVE  Quiet'
<1>1. CASE ~(count[p] < MaxSlots)
  BY <1>1, Overlooked, QuietSame
<1> QED
  BY <1>1, ListedAsked

\* A peer that leaves: the slots that move are what they were, and the one that is
\* left behind is without a challenge.
LEMMA RemovePeerAsked ==
  ASSUME AskedInv, "FREED_PENDING" \notin strayed', NEW p \in Program, NEW q \in Program,
         RemovePeer(p, q)
  PROVE  Quiet'
<1> DEFINE f == slots'[p]
           k == SlotOf(p, q)
           n == count[p] - 1
<1>1. /\ f \in Slots /\ k \in 1 .. count[p]
      /\ \A j \in 1 .. count[p] - 1 : f[j] = IF j < k THEN slots[p][j] ELSE slots[p][j + 1]
      /\ k # count[p] => f[count[p]] = [slots[p][count[p]] EXCEPT !.fd = 0]
      /\ k = count[p] => f[count[p]] = Disconnected(slots[p][count[p]])
      /\ \A j \in 1 .. MaxSlots : j > count[p] => f[j] = slots[p][j]
  BY RemovedSlots DEF AskedInv
<1>2. slots[p][count[p]].state = "NONE"
  <2> DEFINE pending == {j \in k .. count[p] : slots[p][j].state # "NONE"}
  <2>1. count[p] \notin pending
    BY DEF RemovePeer
  <2>2. count[p] \in k .. count[p]
    <3>1. count[p] \in 0 .. MaxSlots /\ k \in 1 .. count[p] /\ MaxSlots \in Nat
      BY <1>1, ProgramsAssumption DEF AskedInv, LobbyInv, Types
    <3> QED
      BY <3>1
  <2> QED
    BY <2>1, <2>2
<1>3. /\ count[p] \in 1 .. MaxSlots /\ MaxSlots \in Nat /\ n \in 0 .. MaxSlots
      /\ 1 .. count[p] \subseteq 1 .. MaxSlots /\ count[p] \in k .. count[p]
  <2>1. count[p] \in 0 .. MaxSlots /\ k \in 1 .. count[p] /\ MaxSlots \in Nat
    BY <1>1, ProgramsAssumption DEF AskedInv, LobbyInv, Types
  <2> QED
    BY <2>1
<1>4. /\ slots' = [slots EXCEPT ![p] = f] /\ count' = [count EXCEPT ![p] = n]
      /\ asked[p] \in SUBSET Program /\ asked' = [asked EXCEPT ![p] = asked[p]]
  BY DEF RemovePeer, AskedInv, LobbyInv, Types
<1>5. SlotQuiet(f[count[p]], asked[p]) /\ f[count[p]].state = "NONE"
  <2> DEFINE s == slots[p][count[p]]
  <2>1. s \in Slot /\ SlotQuiet(s, asked[p]) /\ s.state = "NONE"
    BY <1>2, <1>3, QuietSlot
  <2>2. Disconnected(s).state = "NONE" /\ SlotQuiet(Disconnected(s), asked[p])
    BY <2>1, DisconnectedType, QuietDisconnected
  <2>3. [s EXCEPT !.fd = 0].state = "NONE" /\ SlotQuiet([s EXCEPT !.fd = 0], asked[p])
    BY <2>1 DEF Slot, SlotQuiet
  <2> QED
    BY <1>1, <2>2, <2>3
<1> HIDE DEF f, k
<1>6. ASSUME NEW j \in 1 .. MaxSlots
      PROVE  SlotQuiet(f[j], asked[p]) /\ (j > n => f[j].state = "NONE")
  <2>1. CASE j \in 1 .. n
    <3>1. j + 1 \in 1 .. MaxSlots /\ ~(j > n)
      BY <1>3, <2>1
    <3> QED
      BY <1>1, <2>1, <3>1, QuietSlot
  <2>2. CASE j = count[p]
    BY <1>5, <2>2
  <2>3. CASE j > count[p]
    <3>1. f[j] = slots[p][j]
      BY <1>1, <2>3
    <3> QED
      BY <2>3, <3>1, QuietSlot
  <2> QED
    BY <1>3, <2>1, <2>2, <2>3
<1> HIDE DEF n
<1> QED
  BY <1>1, <1>3, <1>4, <1>6, QuietChange DEF LobbyQuiet

\* Every step of every program.
LEMMA NextAsked ==
  "FREED_PENDING" \notin strayed' /\ AskedInv /\ [Next]_vars => AskedInv'
<1> SUFFICES ASSUME "FREED_PENDING" \notin strayed', AskedInv, [Next]_vars
             PROVE  AskedInv'
  OBVIOUS
<1>1. CASE UNCHANGED vars
  BY <1>1, QuietSame, NextLobby DEF vars, AskedInv
<1>2. ASSUME NEW p \in Program, GamePart(p)
      PROVE  Quiet'
  BY <1>2, QuietSame, HandlePacketAsked, HandleOfferAsked, ReceiveErrorAsked
     DEF GamePart, Accept, AdvanceHello, HandleStart, SendStart, RetryStart, lobby
<1>3. ASSUME NEW p \in Program, Click(p)
      PROVE  Quiet'
  BY <1>3, ClickChallengeAsked, ClickCancelAsked, ClickRetryAsked, ClickAcceptAsked,
     ReturnToLobbyAsked DEF Click
<1>4. ASSUME NEW p \in Program, Discovery(p)
      PROVE  Quiet'
  BY <1>4, DiscoverPeerAsked, RemovePeerAsked DEF Discovery
<1>5. ASSUME NEW p \in Program, NEW i \in 1 .. MaxSlots, Stage(p, i)
      PROVE  Quiet'
  BY <1>5, ConnectAsked, FinishConnectAsked, ConnectRefusedAsked, SayHelloAsked,
     HearHelloAsked, SendOfferAsked, HearAcceptAsked, ChallengeLostAsked DEF Stage
<1>6. LobbyInv'
  BY NextLobby DEF AskedInv
<1> QED
  BY <1>1, <1>2, <1>3, <1>4, <1>5, <1>6 DEF Next, AskedInv

LEMMA InitAsked == Init => AskedInv
<1> SUFFICES ASSUME Init
             PROVE  AskedInv
  OBVIOUS
<1>1. ASSUME NEW p \in Program, NEW i \in 1 .. MaxSlots
      PROVE  slots[p][i].state = "NONE" /\ SlotQuiet(slots[p][i], asked[p])
  <2> DEFINE First == {[EmptySlot EXCEPT !.peer = q] : q \in Program \cup {None}}
  <2>1. \A s \in First : s.state = "NONE" /\ SlotQuiet(s, asked[p])
    BY DEF EmptySlot, SlotQuiet
  <2>2. slots \in [Program -> [1 .. MaxSlots -> First]]
    BY DEF Init
  <2> HIDE DEF First
  <2>3. slots[p][i] \in First
    BY <2>2
  <2> QED
    BY <2>1, <2>3
<1> QED
  BY <1>1, InitLobby DEF AskedInv, Quiet, LobbyQuiet

\* The invariant, until a removal leaves a challenge in a free slot.
LEMMA AskedInvariance == Spec => []("FREED_PENDING" \notin strayed => AskedInv)
<1>1. Init => ("FREED_PENDING" \notin strayed => AskedInv)
  BY InitAsked
<1>2. ("FREED_PENDING" \notin strayed => AskedInv) /\ [Next]_vars
        => ("FREED_PENDING" \notin strayed => AskedInv)'
  BY NextAsked, StrayedSteps
<1> QED
  BY <1>1, <1>2, PTL DEF Spec

\* A challenge that is on its way or shown as pending is one its player has made
\* and stands by, for any programs, whatever challenges are made, withdrawn, lost
\* or won, with removals of challenged peers and slots that move up among them
\* (lobby_state.c): until a removal has freed a slot that still
\* held a challenge, which the next peer found inherits (lobby_state.c:170, :51).
THEOREM NothingUnasked == Spec => []("FREED_PENDING" \notin strayed => NoUnaskedChallenge)
<1>1. AskedInv => NoUnaskedChallenge
  BY QuietSlot DEF NoUnaskedChallenge, SlotQuiet
<1> QED
  BY <1>1, AskedInvariance, PTL
====
