---- MODULE SessionSyncProofs ----
(***************************************************************************)
(* Proofs about module Session: the two programs play one game.  Whatever  *)
(* connections break and programs crash, the client is never further than  *)
(* its own last move from the file of the server, and with everything read *)
(* both show the same game.                                                *)
(***************************************************************************)
EXTENDS SessionProofs

-----------------------------------------------------------------------------
(* The packets on their way *)

Has(p, t) == \E m \in Unread(p) : m.type = t

\* At most one packet of type t; every packet of type t before those of types u.
Only(s, t) == \A j, k \in 1..Len(s) : s[j].type = t /\ s[k].type = t => j = k
Before(s, t, u) == \A j, k \in 1..Len(s) : s[j].type = t /\ s[k].type \in u => j < k

\* What is written to the server, and to the client, in this order.
AckFirst(s) == Only(s, "ACK") /\ Before(s, "ACK", {"MOVE", "RESIGN"})
SnapshotFirst(s) == /\ Only(s, "STATE_SNAPSHOT") /\ Only(s, "MOVE")
                    /\ Before(s, "STATE_SNAPSHOT", {"MOVE", "RESIGN"})

\* A connection with two open ends.
Linked == conn["CLIENT"] = "live" /\ "CLIENT" \notin dialing

\* What is on its way is the same, as far as packets of the types T go.
Same(p, T) == \A m : m.type \in T => (m \in Unread(p)' <=> m \in Unread(p))

\* The queue is read, and written to.
LEMMA QueueRead ==
  ASSUME NEW s \in Seq(Packet), s # <<>>
  PROVE  /\ Tail(s) \in Seq(Packet) /\ Range(s) = {Head(s)} \cup Range(Tail(s))
         /\ \A t : Only(s, t) => Only(Tail(s), t)
         /\ \A t : Only(s, t) /\ Head(s).type = t => \A m \in Range(Tail(s)) : m.type # t
         /\ \A t, u : Before(s, t, u) => Before(Tail(s), t, u)
         /\ \A t, u : Before(s, t, u) /\ Head(s).type \in u =>
                        \A m \in Range(s) : m.type # t
<1> DEFINE r == Tail(s)
<1>1. /\ Len(s) \in Nat /\ Len(s) > 0 /\ r \in Seq(Packet) /\ Len(r) = Len(s) - 1
      /\ \A i \in 1..Len(r) : r[i] = s[i + 1] /\ i + 1 \in 1..Len(s)
      /\ Head(s) = s[1] /\ 1 \in 1..Len(s)
      /\ DOMAIN s = 1..Len(s) /\ DOMAIN r = 1..Len(r)
  <2>1. Len(s) \in Nat /\ Len(s) # 0 /\ DOMAIN s = 1..Len(s)
    BY EmptySeq, LenProperties
  <2>2. r \in Seq(Packet) /\ Len(r) = Len(s) - 1 /\ \A i \in 1..Len(r) : r[i] = s[i + 1]
    BY HeadTailProperties
  <2>3. DOMAIN r = 1..Len(r)
    BY <2>2, LenProperties
  <2> HIDE DEF r
  <2> QED
    BY <2>1, <2>2, <2>3
<1> HIDE DEF r
<1>2. \A j \in 1..Len(s) : j # 1 => j - 1 \in 1..Len(r) /\ s[j] = r[j - 1]
  BY <1>1
<1>3. Range(s) = {Head(s)} \cup Range(r)
  <2>1. ASSUME NEW m \in Range(s) PROVE m = Head(s) \/ m \in Range(r)
    <3>1. PICK j \in 1..Len(s) : m = s[j]
      BY <1>1 DEF Range
    <3>2. CASE j = 1
      BY <1>1, <3>1, <3>2
    <3>3. CASE j # 1
      <4>1. j - 1 \in DOMAIN r /\ r[j - 1] = m
        BY <1>1, <1>2, <3>1, <3>3
      <4> QED
        BY <4>1 DEF Range
    <3> QED
      BY <3>2, <3>3
  <2>2. Head(s) \in Range(s)
    BY <1>1 DEF Range
  <2>3. ASSUME NEW m \in Range(r) PROVE m \in Range(s)
    <3>1. PICK i \in 1..Len(r) : m = r[i]
      BY <1>1, <2>3 DEF Range
    <3>2. i + 1 \in DOMAIN s /\ m = s[i + 1]
      BY <1>1, <3>1
    <3> QED
      BY <3>2 DEF Range
  <2> QED
    BY <2>1, <2>2, <2>3
<1>4. ASSUME NEW t, Only(s, t)
      PROVE  Only(r, t) /\ (Head(s).type = t => \A m \in Range(r) : m.type # t)
  <2>1. ASSUME NEW j \in 1..Len(r), NEW k \in 1..Len(r), r[j].type = t, r[k].type = t
        PROVE  j = k
    <3>1. /\ j + 1 \in 1..Len(s) /\ k + 1 \in 1..Len(s)
          /\ s[j + 1].type = t /\ s[k + 1].type = t
      BY <1>1, <2>1
    <3>2. j + 1 = k + 1
      BY <1>4, <3>1 DEF Only
    <3> QED
      BY <1>1, <3>2
  <2>2. ASSUME Head(s).type = t, NEW m \in Range(r) PROVE m.type # t
    <3>1. PICK j \in 1..Len(r) : m = r[j]
      BY <1>1, <2>2 DEF Range
    <3>2. j + 1 # 1
      BY <1>1
    <3> QED
      BY <1>1, <1>4, <2>2, <3>1, <3>2 DEF Only
  <2> QED
    BY <2>1, <2>2 DEF Only
<1>5. ASSUME NEW t, NEW u, Before(s, t, u)
      PROVE  Before(r, t, u) /\ (Head(s).type \in u => \A m \in Range(s) : m.type # t)
  <2>1. ASSUME NEW j \in 1..Len(r), NEW k \in 1..Len(r), r[j].type = t, r[k].type \in u
        PROVE  j < k
    <3>1. j + 1 < k + 1
      BY <1>1, <1>5, <2>1 DEF Before
    <3> QED
      BY <1>1, <3>1
  <2>2. ASSUME Head(s).type \in u, NEW m \in Range(s) PROVE m.type # t
    <3>1. PICK j \in 1..Len(s) : m = s[j]
      BY <1>1, <2>2 DEF Range
    <3>2. ~(j < 1)
      BY <1>1
    <3> QED
      BY <1>1, <1>5, <2>2, <3>1, <3>2 DEF Before
  <2> QED
    BY <2>1, <2>2 DEF Before
<1> QED
  BY <1>1, <1>3, <1>4, <1>5 DEF r

LEMMA QueueWritten ==
  ASSUME NEW s \in Seq(Packet), NEW m \in Packet
  PROVE  /\ Append(s, m) \in Seq(Packet) /\ Range(Append(s, m)) = Range(s) \cup {m}
         /\ \A t : Only(s, t) /\ (m.type = t => \A n \in Range(s) : n.type # t) =>
                     Only(Append(s, m), t)
         /\ \A t, u : Before(s, t, u) /\ (m.type = t => m.type \notin u /\ \A n \in Range(s) : n.type \notin u) =>
                        Before(Append(s, m), t, u)
<1> DEFINE r == Append(s, m)
<1>1. /\ Len(s) \in Nat /\ r \in Seq(Packet) /\ Len(r) = Len(s) + 1
      /\ \A i \in 1..Len(s) : r[i] = s[i] /\ s[i] \in Range(s)
      /\ r[Len(s) + 1] = m
  <2>1. /\ r \in Seq(Packet) /\ Len(r) = Len(s) + 1 /\ r[Len(s) + 1] = m
        /\ \A i \in 1..Len(s) : r[i] = s[i]
    BY AppendProperties
  <2>2. Len(s) \in Nat /\ DOMAIN s = 1..Len(s)
    BY LenProperties
  <2> HIDE DEF r
  <2> QED
    BY <2>1, <2>2 DEF Range
<1>2. Range(r) = Range(s) \cup {m}
  BY RangeParts
<1> HIDE DEF r
<1>3. \A j \in 1..Len(r) : j \in 1..Len(s) \/ j = Len(s) + 1
  BY <1>1
<1>4. ASSUME NEW t, Only(s, t), m.type = t => \A n \in Range(s) : n.type # t
      PROVE  Only(r, t)
  <2> SUFFICES ASSUME NEW j \in 1..Len(r), NEW k \in 1..Len(r), r[j].type = t, r[k].type = t
               PROVE  j = k
    BY DEF Only
  <2>1. CASE j \in 1..Len(s) /\ k \in 1..Len(s)
    BY <1>1, <1>4, <2>1 DEF Only
  <2>2. CASE j = Len(s) + 1 \/ k = Len(s) + 1
    BY <1>1, <1>3, <1>4, <2>2
  <2> QED
    BY <1>3, <2>1, <2>2
<1>5. ASSUME NEW t, NEW u, Before(s, t, u),
             m.type = t => m.type \notin u /\ \A n \in Range(s) : n.type \notin u
      PROVE  Before(r, t, u)
  <2> SUFFICES ASSUME NEW j \in 1..Len(r), NEW k \in 1..Len(r), r[j].type = t, r[k].type \in u
               PROVE  j < k
    BY DEF Before
  <2>1. CASE j \in 1..Len(s) /\ k \in 1..Len(s)
    BY <1>1, <1>5, <2>1 DEF Before
  <2>2. CASE j \in 1..Len(s) /\ k = Len(s) + 1
    BY <1>1, <2>2
  <2>3. CASE j = Len(s) + 1
    BY <1>1, <1>3, <1>5, <2>3
  <2> QED
    BY <1>3, <2>1, <2>2, <2>3
<1> QED
  BY <1>1, <1>2, <1>4, <1>5 DEF r

\* What is written arrives exactly on a connection with two open ends.
LEMMA Delivered ==
  ASSUME Net, NEW p \in Peer, NEW box \in [Peer -> Seq(Packet)], NEW m \in Packet,
         inbox' = Reached(p, box, m)
  PROVE  /\ inbox'[p] = box[p]
         /\ Linked => inbox'[Other(p)] = Append(box[Other(p)], m)
         /\ ~Linked => inbox'[Other(p)] = box[Other(p)]
<1>1. Linked <=> conn[p] = "live" /\ p \notin dialing
  <2>1. CASE p = "CLIENT"
    BY <2>1 DEF Linked
  <2>2. CASE p = "SERVER"
    BY <2>2 DEF Linked, Net, Peer, Other
  <2> QED
    BY <2>1, <2>2 DEF Peer
<1> QED
  BY <1>1, ReachedBox

\* The packet read is one that was unread.
LEMMA HeadUnread ==
  ASSUME Net, NEW p \in Peer, NEW t, Receive(p, t)
  PROVE  Has(p, t) /\ Head(inbox[p]) \in Unread(p)
<1>1. inbox[p] \in Seq(Packet) /\ inbox[p] # <<>> /\ Head(inbox[p]).type = t
  BY Received DEF Net
<1>2. Head(inbox[p]) \in Range(inbox[p])
  BY <1>1, RangeParts
<1> QED
  BY <1>1, <1>2 DEF Has, Unread

\* Nobody is connected any more once one of the two has hung up.
LEMMA HungUpUnlinked ==
  ASSUME Net, NEW p \in Peer, HangUp(p)
  PROVE  /\ ~Linked' /\ inbox'[p] = <<>> /\ inbox'[Other(p)] = inbox[Other(p)]
         /\ conn'[p] = "none" /\ (conn'[Other(p)] = "none" <=> conn[Other(p)] = "none")
<1>1. /\ conn'[p] = "none" /\ inbox'[p] = <<>> /\ inbox'[Other(p)] = inbox[Other(p)]
      /\ conn'[Other(p)] = "none" <=> conn[Other(p)] = "none"
      /\ conn'[Other(p)] = "live" => conn[Other(p)] = "live" /\ Other(p) \in dialing
      /\ dialing' = dialing \ {p}
  BY HangUpNet DEF HangUp
<1> QED
  BY <1>1, Ends DEF Linked, Peer

-----------------------------------------------------------------------------
(* The inductive invariant of a connection that begins *)

\* The server accepts a challenge, or a resumption, only on a connection.
ServerConn ==
  /\ session["SERVER"].challengeDone => conn["SERVER"] # "none"
  /\ session["SERVER"].syncPending => session["SERVER"].challengeDone
  /\ session["SERVER"].started /\ conn["SERVER"] = "none" =>
       session["SERVER"].phase = "DISCONNECTED"

\* Until the client has read START nothing of a game is under way; the server
\* owes it a resumption if it holds the file of a game.
Opening ==
  Linked /\ ~session["CLIENT"].started =>
    /\ ~session["SERVER"].started
    /\ ~Has("SERVER", "ACK") /\ ~Has("SERVER", "MOVE") /\ ~Has("SERVER", "RESIGN")
    /\ Has("CLIENT", "START") => session["SERVER"].challengeDone
    /\ session["SERVER"].challengeDone /\ ~session["SERVER"].syncPending =>
         /\ snap["SERVER"] = NoSnapshot /\ snap["CLIENT"] = NoSnapshot
         /\ ~pend["CLIENT"].set
    /\ Has("SERVER", "RESUME_REQUEST") \/
         (pend["CLIENT"].set /\ ~session["CLIENT"].resumeSent) =>
         ~session["SERVER"].challengeDone
    /\ Only(inbox["SERVER"], "RESUME_REQUEST")
    /\ Has("SERVER", "RESUME_REQUEST") => session["CLIENT"].resumeSent

\* The one ACK of a connection starts the server's game; packets of the game
\* come after it, and reach only a client that is in the game.
Acks ==
  /\ Has("SERVER", "ACK") => ~session["SERVER"].started
  /\ AckFirst(inbox["SERVER"])
  /\ Linked /\ session["CLIENT"].started => ~Has("SERVER", "RESUME_REQUEST")
  /\ Has("CLIENT", "STATE_SNAPSHOT") \/ Has("CLIENT", "MOVE") \/ Has("CLIENT", "RESIGN") =>
       session["CLIENT"].started

Begins == ServerConn /\ Opening /\ Acks

\* All of it, with the colours.
OpenInv == ColourInv /\ Begins

-----------------------------------------------------------------------------
(* Steps that leave a beginning as it is *)

\* What a step may add to the packets on their way to the client, and to the
\* server, while both keep the game they are in.
NewToClient(m) ==
  \/ m.type \in {"HELLO", "RESUME_RESPONSE"}
  \/ m.type = "START" /\ session["SERVER"].challengeDone
  \/ m.type \in {"STATE_SNAPSHOT", "MOVE", "RESIGN"} /\ session["CLIENT"].started

NewToServer(m) ==
  \/ m.type = "HELLO"
  \/ m.type \in {"MOVE", "RESIGN"} /\ session["CLIENT"].started

\* Nobody starts a game, hangs up, or asks for a resumption.
LEMMA OpenFrame ==
  ASSUME OpenInv, UNCHANGED <<conn, dialing>>,
         session'["SERVER"].challengeDone = session["SERVER"].challengeDone,
         session'["SERVER"].started = session["SERVER"].started,
         session'["SERVER"].phase = session["SERVER"].phase \/ conn["SERVER"] # "none",
         session'["CLIENT"].started = session["CLIENT"].started,
         session'["CLIENT"].resumeSent = session["CLIENT"].resumeSent,
         session'["SERVER"].syncPending = session["SERVER"].syncPending \/
           (~session'["SERVER"].syncPending /\ (Linked => session["CLIENT"].started)),
         snap' = snap \/ (Linked => session["CLIENT"].started),
         pend'["CLIENT"].set => pend["CLIENT"].set,
         \A m \in Unread("CLIENT")' : m \in Unread("CLIENT") \/ NewToClient(m),
         \A m \in Unread("SERVER")' : m \in Unread("SERVER") \/ NewToServer(m),
         AckFirst(inbox'["SERVER"]),
         Only(inbox["SERVER"], "RESUME_REQUEST") => Only(inbox'["SERVER"], "RESUME_REQUEST")
  PROVE  Begins'
<1>1. Linked' = Linked
  BY DEF Linked
<1>2. ServerConn'
  BY DEF OpenInv, Begins, ServerConn
<1>3. ASSUME NEW t \in {"ACK", "RESUME_REQUEST"}, Has("SERVER", t)'
      PROVE  Has("SERVER", t)
  BY <1>3 DEF Has, NewToServer
<1>4. ~session["CLIENT"].started /\ (Has("SERVER", "MOVE")' \/ Has("SERVER", "RESIGN")') =>
        Has("SERVER", "MOVE") \/ Has("SERVER", "RESIGN")
  BY DEF Has, NewToServer
<1>5. Has("CLIENT", "START")' => Has("CLIENT", "START") \/ session["SERVER"].challengeDone
  BY DEF Has, NewToClient
<1>6. ~session["CLIENT"].started =>
        \A t \in {"STATE_SNAPSHOT", "MOVE", "RESIGN"} : Has("CLIENT", t)' => Has("CLIENT", t)
  BY DEF Has, NewToClient
<1>7. Opening'
  BY <1>1, <1>3, <1>4, <1>5 DEF OpenInv, Begins, Opening
<1>8. Acks'
  BY <1>1, <1>3, <1>6 DEF OpenInv, Begins, Acks
<1> QED
  BY <1>2, <1>7, <1>8 DEF Begins

\* There is no connection left on which a game could begin.
LEMMA OpenUnlinked ==
  ASSUME ~Linked', ServerConn', AckFirst(inbox'["SERVER"]),
         Has("SERVER", "ACK")' => ~session'["SERVER"].started,
         \A t \in {"STATE_SNAPSHOT", "MOVE", "RESIGN"} :
           Has("CLIENT", t)' => session'["CLIENT"].started
  PROVE  Begins'
BY DEF Begins, Opening, Acks

\* A queue that is empty.
LEMMA NothingUnread ==
  ASSUME NEW p \in Peer, inbox'[p] = <<>>
  PROVE  /\ Unread(p)' = {} /\ \A t : ~Has(p, t)'
         /\ AckFirst(inbox'[p]) /\ SnapshotFirst(inbox'[p])
         /\ \A t : Only(inbox'[p], t)
<1> DEFINE e == inbox'[p]
<1>1. Len(e) = 0 /\ Range(e) = {}
  BY EmptySeq DEF Range
<1>2. 1..Len(e) = {}
  BY <1>1
<1> HIDE DEF e
<1>3. (\A t : Only(e, t)) /\ AckFirst(e) /\ SnapshotFirst(e)
  BY <1>2 DEF AckFirst, SnapshotFirst, Only, Before
<1> QED
  BY <1>1, <1>3 DEF e, Unread, Has

\* One of the two hangs up.
LEMMA OpenHungUp ==
  ASSUME OpenInv, NEW p \in Peer, HangUp(p), NEW s, session' = [session EXCEPT ![p] = s],
         p = "SERVER" => /\ ~s.challengeDone /\ ~s.syncPending
                         /\ s.started => s.phase = "DISCONNECTED"
  PROVE  Begins'
<1>1. /\ ~Linked' /\ inbox'[p] = <<>> /\ inbox'[Other(p)] = inbox[Other(p)]
      /\ conn'[p] = "none" /\ (conn'[Other(p)] = "none" <=> conn[Other(p)] = "none")
      /\ session'[p] = s /\ session'[Other(p)] = session[Other(p)]
  BY HungUpUnlinked, Ends DEF OpenInv, ColourInv, BaseInv, SessionTypes
<1>2. CASE p = "SERVER"
  <2>1. Other(p) = "CLIENT"
    BY <1>2 DEF Other, Peer
  <2>2. ServerConn'
    BY <1>1, <1>2 DEF ServerConn
  <2>3. AckFirst(inbox'["SERVER"]) /\ ~Has("SERVER", "ACK")'
    BY <1>1, <1>2, NothingUnread
  <2>4. \A t : Has("CLIENT", t)' => Has("CLIENT", t)
    BY <1>1, <2>1 DEF Has, Unread
  <2> QED
    BY <1>1, <2>1, <2>2, <2>3, <2>4, OpenUnlinked DEF OpenInv, Begins, Acks
<1>3. CASE p = "CLIENT"
  <2>1. Other(p) = "SERVER"
    BY <1>3 DEF Other, Peer
  <2>2. ServerConn'
    BY <1>1, <2>1 DEF ServerConn, OpenInv, Begins
  <2>3. \A t : ~Has("CLIENT", t)'
    BY <1>1, <1>3, NothingUnread
  <2>4. \A t : Has("SERVER", t)' => Has("SERVER", t)
    BY <1>1, <2>1 DEF Has, Unread
  <2> QED
    BY <1>1, <2>1, <2>2, <2>3, <2>4, OpenUnlinked DEF OpenInv, Begins, Acks
<1> QED
  BY <1>2, <1>3 DEF Peer

\* A lost connection is one that is hung up.
LEMMA OpenDisconnect ==
  ASSUME OpenInv, NEW p \in Peer, NEW ended \in BOOLEAN, HandlePeerDisconnect(p, ended)
  PROVE  Begins'
<1>1. PICK s : /\ session' = [session EXCEPT ![p] = s]
               /\ s.started => s.phase = "DISCONNECTED"
               /\ ~s.challengeDone /\ ~s.syncPending
  BY DisconnectParts DEF OpenInv, ColourInv
<1> QED
  BY <1>1, OpenHungUp DEF HandlePeerDisconnect

-----------------------------------------------------------------------------
(* A beginning survives every step *)

\* A packet written that neither starts nor resumes a game.
LEMMA OpenSent ==
  ASSUME OpenInv, NEW p \in Peer, NEW m \in Packet, inbox' = Reached(p, inbox, m),
         m.type \notin {"ACK", "RESUME_REQUEST"}
  PROVE  /\ \A n \in Unread(p)' : n \in Unread(p)
         /\ \A n \in Unread(Other(p))' : n \in Unread(Other(p)) \/ (n = m /\ Linked)
         /\ AckFirst(inbox'["SERVER"])
         /\ Only(inbox["SERVER"], "RESUME_REQUEST") => Only(inbox'["SERVER"], "RESUME_REQUEST")
<1>1. Net /\ inbox \in [Peer -> Seq(Packet)] /\ AckFirst(inbox["SERVER"])
  BY DEF OpenInv, ColourInv, BaseInv, Net, Begins, Acks
<1>2. /\ inbox'[p] = inbox[p]
      /\ Linked => inbox'[Other(p)] = Append(inbox[Other(p)], m)
      /\ ~Linked => inbox'[Other(p)] = inbox[Other(p)]
  BY <1>1, Delivered
<1>3. inbox[Other(p)] \in Seq(Packet)
  BY <1>1, Ends
<1>4. Range(Append(inbox[Other(p)], m)) = Range(inbox[Other(p)]) \cup {m}
  BY <1>3, QueueWritten
<1>5. /\ AckFirst(inbox[Other(p)]) => AckFirst(Append(inbox[Other(p)], m))
      /\ Only(inbox[Other(p)], "RESUME_REQUEST") =>
           Only(Append(inbox[Other(p)], m), "RESUME_REQUEST")
  BY <1>3, QueueWritten DEF AckFirst
<1>6. "SERVER" \in {p, Other(p)}
  BY DEF Peer, Other
<1> QED
  BY <1>1, <1>2, <1>4, <1>5, <1>6 DEF Unread

LEMMA OpenRead ==
  ASSUME OpenInv, NEW p \in Peer, NEW t, Receive(p, t), Consume(p)
  PROVE  /\ \A q \in Peer : \A n \in Unread(q)' : n \in Unread(q)
         /\ AckFirst(inbox'["SERVER"])
         /\ Only(inbox["SERVER"], "RESUME_REQUEST") => Only(inbox'["SERVER"], "RESUME_REQUEST")
<1>1. Net /\ AckFirst(inbox["SERVER"])
  BY DEF OpenInv, ColourInv, BaseInv, Begins, Acks
<1>2. \A q \in Peer : \A n \in Unread(q)' : n \in Unread(q)
  BY <1>1, ConsumedUnread
<1>3. /\ inbox'[p] = Tail(inbox[p]) /\ inbox'[Other(p)] = inbox[Other(p)]
      /\ inbox[p] # <<>> /\ inbox[p] \in Seq(Packet)
  BY <1>1, Received DEF Consume, Net
<1>4. /\ AckFirst(inbox[p]) => AckFirst(Tail(inbox[p]))
      /\ Only(inbox[p], "RESUME_REQUEST") => Only(Tail(inbox[p]), "RESUME_REQUEST")
  BY <1>3, QueueRead DEF AckFirst
<1>5. "SERVER" \in {p, Other(p)}
  BY DEF Peer, Other
<1> QED
  BY <1>1, <1>2, <1>3, <1>4, <1>5

\* A step that changes one session, and starts no game.
LEMMA OpenStep ==
  ASSUME OpenInv, NEW p \in Peer, NEW s, session' = [session EXCEPT ![p] = s],
         UNCHANGED <<conn, dialing>>,
         s.started = session[p].started, s.resumeSent = session[p].resumeSent,
         p = "SERVER" => /\ s.challengeDone = session[p].challengeDone
                         /\ s.phase = session[p].phase \/ conn["SERVER"] # "none"
                         /\ s.syncPending = session[p].syncPending \/
                              (~s.syncPending /\ (Linked => session["CLIENT"].started)),
         snap' = snap \/ (Linked => session["CLIENT"].started),
         pend'["CLIENT"].set => pend["CLIENT"].set,
         \A m \in Unread("CLIENT")' : m \in Unread("CLIENT") \/ NewToClient(m),
         \A m \in Unread("SERVER")' : m \in Unread("SERVER") \/ NewToServer(m),
         AckFirst(inbox'["SERVER"]),
         Only(inbox["SERVER"], "RESUME_REQUEST") => Only(inbox'["SERVER"], "RESUME_REQUEST")
  PROVE  Begins'
<1>1. /\ session'[p] = s /\ session'[Other(p)] = session[Other(p)]
  BY Ends DEF OpenInv, ColourInv, BaseInv, SessionTypes
<1>2. CASE p = "SERVER"
  <2>1. session'["SERVER"] = s /\ session'["CLIENT"] = session["CLIENT"]
    BY <1>1, <1>2 DEF Other
  <2> QED
    BY <1>2, <2>1, OpenFrame
<1>3. CASE p = "CLIENT"
  <2>1. session'["CLIENT"] = s /\ session'["SERVER"] = session["SERVER"]
    BY <1>1, <1>3 DEF Other
  <2> QED
    BY <1>3, <2>1, OpenFrame
<1> QED
  BY <1>2, <1>3 DEF Peer

\* A step that changes no session.
LEMMA OpenSame ==
  ASSUME OpenInv, UNCHANGED <<session, conn, dialing>>,
         snap' = snap \/ (Linked => session["CLIENT"].started),
         pend'["CLIENT"].set => pend["CLIENT"].set,
         \A m \in Unread("CLIENT")' : m \in Unread("CLIENT") \/ NewToClient(m),
         \A m \in Unread("SERVER")' : m \in Unread("SERVER") \/ NewToServer(m),
         AckFirst(inbox'["SERVER"]),
         Only(inbox["SERVER"], "RESUME_REQUEST") => Only(inbox'["SERVER"], "RESUME_REQUEST")
  PROVE  Begins'
BY OpenFrame

\* A connection with a client that is in the game, or an open one on which the
\* server is: both are.
LEMMA BothStarted ==
  ASSUME OpenInv, NEW p \in Peer, session[p].started
  PROVE  Linked => session["CLIENT"].started
BY DEF OpenInv, Begins, Opening, Peer

LEMMA OpenDiscover ==
  ASSUME OpenInv, NEW p \in Peer, Discover(p)
  PROVE  Begins'
<1>1. UNCHANGED <<inbox, conn, dialing, snap, pend>> /\ AckFirst(inbox["SERVER"])
  BY DEF Discover, net, disk, OpenInv, Begins, Acks
<1>2. CASE UNCHANGED session
  BY <1>1, <1>2, OpenSame DEF Unread
<1>3. CASE session' = [session EXCEPT ![p] = [SetRemote(@) EXCEPT !.role = "CLIENT"]] /\ p \in target
  <2> DEFINE s == [SetRemote(session[p]) EXCEPT !.role = "CLIENT"]
  <2>1. p = "CLIENT" /\ session' = [session EXCEPT ![p] = s]
    BY <1>3 DEF OpenInv, ColourInv, BaseInv, SetTypes
  <2>2. s.started = session[p].started /\ s.resumeSent = session[p].resumeSent
    <3>1. session[p] \in SessionType /\ ~session[p].started
      BY DEF OpenInv, ColourInv, BaseInv, SessionTypes, Discover
    <3> QED
      BY <3>1 DEF SetRemote, SessionType
  <2> HIDE DEF s
  <2> QED
    BY <1>1, <2>1, <2>2, OpenStep DEF Unread
<1> QED
  BY <1>2, <1>3 DEF Discover, HasResumeTarget

LEMMA OpenFinalizeConnect ==
  ASSUME OpenInv, NEW p \in Peer, FinalizeConnect(p)
  PROVE  Begins'
<1>1. UNCHANGED <<snap, pend>> /\ AckFirst(inbox["SERVER"]) /\ session[p] \in SessionType
  BY DEF FinalizeConnect, disk, OpenInv, Begins, Acks, ColourInv, BaseInv, SessionTypes
<1>2. CASE session' = [session EXCEPT ![p].connected = TRUE] /\ UNCHANGED net
  <2> DEFINE s == [session[p] EXCEPT !.connected = TRUE]
  <2>1. session' = [session EXCEPT ![p] = s]
    BY <1>2
  <2>2. /\ s.started = session[p].started /\ s.resumeSent = session[p].resumeSent
        /\ s.challengeDone = session[p].challengeDone /\ s.phase = session[p].phase
        /\ s.syncPending = session[p].syncPending
    BY <1>1 DEF SessionType
  <2> HIDE DEF s
  <2> QED
    BY <1>1, <1>2, <2>1, <2>2, OpenStep DEF Unread, net
<1>3. CASE HangUp(p) /\ UNCHANGED session
  <2> DEFINE s == session[p]
  <2>1. session' = [session EXCEPT ![p] = s]
    BY <1>3 DEF OpenInv, ColourInv, BaseInv, SessionTypes
  <2>2. p = "CLIENT"
    BY DEF FinalizeConnect, Redialing, OpenInv, ColourInv, BaseInv, Locals, LocalTo, Peer
  <2> HIDE DEF s
  <2> QED
    BY <1>3, <2>1, <2>2, OpenHungUp
<1> QED
  BY <1>2, <1>3 DEF FinalizeConnect

\* HELLO is written, and perhaps the exchange is over.
LEMMA OpenHello ==
  ASSUME OpenInv, NEW p \in Peer, AdvanceHelloClient(p) \/ AdvanceHelloServer(p)
  PROVE  Begins'
<1>1. /\ UNCHANGED <<snap, pend, conn, dialing>> /\ conn[p] # "none"
      /\ AckFirst(inbox["SERVER"]) /\ session[p] \in SessionType
      /\ inbox' = inbox \/ inbox' = Reached(p, inbox, Bare("HELLO"))
  BY DEF AdvanceHelloClient, AdvanceHelloServer, disk, net, Send, OpenInv, Begins, Acks,
         ColourInv, BaseInv, SessionTypes
<1>2. /\ \A q \in Peer : \A m \in Unread(q)' : m \in Unread(q) \/ m = Bare("HELLO")
      /\ AckFirst(inbox'["SERVER"])
      /\ Only(inbox["SERVER"], "RESUME_REQUEST") => Only(inbox'["SERVER"], "RESUME_REQUEST")
  <2>1. CASE inbox' = inbox
    BY <1>1, <2>1 DEF Unread
  <2>2. CASE inbox' = Reached(p, inbox, Bare("HELLO"))
    <3>1. Bare("HELLO") \in Packet /\ Bare("HELLO").type \notin {"ACK", "RESUME_REQUEST"}
      BY DEF Bare, Packet
    <3> QED
      BY <2>2, <3>1, OpenSent, Ends
  <2> QED
    BY <1>1, <2>1, <2>2
<1>3. /\ \A m \in Unread("CLIENT")' : m \in Unread("CLIENT") \/ NewToClient(m)
      /\ \A m \in Unread("SERVER")' : m \in Unread("SERVER") \/ NewToServer(m)
  BY <1>2 DEF NewToClient, NewToServer, Bare, Peer
<1>4. PICK s : /\ session' = [session EXCEPT ![p] = s]
               /\ s.started = session[p].started /\ s.resumeSent = session[p].resumeSent
               /\ s.challengeDone = session[p].challengeDone
               /\ s.syncPending = session[p].syncPending
  <2>1. CASE AdvanceHelloClient(p)
    <3> DEFINE r == [session[p] EXCEPT !.helloSent = TRUE]
               a == [r EXCEPT !.hello = TRUE, !.phase = "AUTHENTICATED"]
               s == IF session[p].helloReceived THEN a ELSE r
    <3>1. session' = [session EXCEPT ![p] = s]
      BY <2>1 DEF AdvanceHelloClient, Authenticated
    <3>2. /\ s.started = session[p].started /\ s.resumeSent = session[p].resumeSent
          /\ s.challengeDone = session[p].challengeDone
          /\ s.syncPending = session[p].syncPending
      BY <1>1 DEF SessionType
    <3> HIDE DEF s
    <3> QED
      BY <3>1, <3>2
  <2>2. CASE AdvanceHelloServer(p)
    <3> DEFINE r == [session[p] EXCEPT !.role = "SERVER"]
               h == [session[p] EXCEPT !.role = "SERVER", !.helloSent = TRUE]
               a == [h EXCEPT !.hello = TRUE, !.phase = "AUTHENTICATED"]
               s == IF session[p].helloReceived THEN a ELSE r
    <3>1. session' = [session EXCEPT ![p] = s]
      BY <2>2 DEF AdvanceHelloServer, Authenticated
    <3>2. /\ s.started = session[p].started /\ s.resumeSent = session[p].resumeSent
          /\ s.challengeDone = session[p].challengeDone
          /\ s.syncPending = session[p].syncPending
      BY <1>1 DEF SessionType
    <3> HIDE DEF s
    <3> QED
      BY <3>1, <3>2
  <2> QED
    BY <2>1, <2>2
<1> QED
  BY <1>1, <1>2, <1>3, <1>4, OpenStep

\* START, the retry of it, STATE_SNAPSHOT and the reading of HELLO.
LEMMA OpenFlags ==
  ASSUME OpenInv, NEW p \in Peer,
         \/ SendStart(p) \/ RetryStart(p) \/ SendStateSnapshot(p) \/ HandleHello(p)
  PROVE  Begins'
<1>1. /\ UNCHANGED <<snap, conn, dialing>> /\ session[p] \in SessionType
      /\ AckFirst(inbox["SERVER"])
  BY DEF SendStart, RetryStart, SendStateSnapshot, HandleHello, Send, Consume, net, disk,
         OpenInv, Begins, Acks, ColourInv, BaseInv, SessionTypes
<1>2. CASE SendStart(p)
  <2>1. PICK c \in IF pend[p].set THEN {pend[p].color} ELSE Color :
             /\ pend' = [pend EXCEPT ![p] = [set |-> TRUE, color |-> c]]
             /\ Send(p, StartMsg(c))
    BY <1>2 DEF SendStart
  <2>2. p = "SERVER" /\ session["SERVER"].challengeDone /\ Other(p) = "CLIENT"
    BY <1>2 DEF SendStart, StartDue, OpenInv, ColourInv, BaseInv, Locals, LocalTo, Peer, Other
  <2>3. pend'["CLIENT"] = pend["CLIENT"]
    BY <2>1, <2>2 DEF OpenInv, ColourInv, BaseInv, SessionTypes, Peer
  <2>4. StartMsg(c) \in Packet /\ StartMsg(c).type = "START"
    <3>1. c \in {"UNASSIGNED"} \cup Color
      BY DEF OpenInv, ColourInv, BaseInv, SessionTypes, Pending
    <3> QED
      BY <3>1 DEF StartMsg, Packet
  <2> HIDE DEF StartMsg
  <2>5. /\ \A m \in Unread("CLIENT")' : m \in Unread("CLIENT") \/ NewToClient(m)
        /\ \A m \in Unread("SERVER")' : m \in Unread("SERVER")
        /\ AckFirst(inbox'["SERVER"])
        /\ Only(inbox["SERVER"], "RESUME_REQUEST") => Only(inbox'["SERVER"], "RESUME_REQUEST")
    BY <2>1, <2>2, <2>4, OpenSent DEF Send, NewToClient
  <2> DEFINE s == [session[p] EXCEPT !.startSent = TRUE]
  <2>6. session' = [session EXCEPT ![p] = s]
    BY <1>2 DEF SendStart
  <2>7. /\ s.started = session[p].started /\ s.resumeSent = session[p].resumeSent
        /\ s.challengeDone = session[p].challengeDone /\ s.phase = session[p].phase
        /\ s.syncPending = session[p].syncPending
    BY <1>1 DEF SessionType
  <2> HIDE DEF s
  <2> QED
    BY <1>1, <2>3, <2>5, <2>6, <2>7, OpenStep
<1>3. CASE RetryStart(p)
  <2> DEFINE s == [session[p] EXCEPT !.startSent = FALSE]
  <2>1. session' = [session EXCEPT ![p] = s] /\ UNCHANGED <<pend, inbox>>
    BY <1>3 DEF RetryStart, net
  <2>2. /\ s.started = session[p].started /\ s.resumeSent = session[p].resumeSent
        /\ s.challengeDone = session[p].challengeDone /\ s.phase = session[p].phase
        /\ s.syncPending = session[p].syncPending
    BY <1>1 DEF SessionType
  <2> HIDE DEF s
  <2> QED
    BY <1>1, <2>1, <2>2, OpenStep DEF Unread
<1>4. CASE HandleHello(p)
  <2> DEFINE s == [session[p] EXCEPT !.helloReceived = TRUE, !.available = TRUE]
  <2>1. session' = [session EXCEPT ![p] = s] /\ UNCHANGED pend
    BY <1>4 DEF HandleHello
  <2>2. /\ s.started = session[p].started /\ s.resumeSent = session[p].resumeSent
        /\ s.challengeDone = session[p].challengeDone /\ s.phase = session[p].phase
        /\ s.syncPending = session[p].syncPending
    BY <1>1 DEF SessionType
  <2>3. /\ \A q \in Peer : \A n \in Unread(q)' : n \in Unread(q)
        /\ AckFirst(inbox'["SERVER"])
        /\ Only(inbox["SERVER"], "RESUME_REQUEST") => Only(inbox'["SERVER"], "RESUME_REQUEST")
    BY <1>4, OpenRead DEF HandleHello
  <2> HIDE DEF s
  <2> QED
    BY <1>1, <2>1, <2>2, <2>3, OpenStep DEF Peer
<1>5. CASE SendStateSnapshot(p)
  <2> DEFINE s == [session[p] EXCEPT !.syncPending = FALSE]
             m == SnapshotMsg(hist[p], over[p])
  <2>1. /\ session' = [session EXCEPT ![p] = s] /\ UNCHANGED pend
        /\ inbox' = Reached(p, inbox, m)
    BY <1>5 DEF SendStateSnapshot, Send
  <2>2. /\ s.started = session[p].started /\ s.resumeSent = session[p].resumeSent
        /\ s.challengeDone = session[p].challengeDone /\ s.phase = session[p].phase
        /\ ~s.syncPending
    BY <1>1 DEF SessionType
  <2>3. p = "SERVER" /\ Other(p) = "CLIENT" /\ session[p].started
    BY <1>5 DEF SendStateSnapshot, SnapshotDue, OpenInv, ColourInv, BaseInv, Locals, LocalTo,
                Peer, Other
  <2>4. m \in Packet /\ m.type = "STATE_SNAPSHOT"
    BY DEF SnapshotMsg, Packet, OpenInv, ColourInv, BaseInv, BoardTypes
  <2> HIDE DEF s, m
  <2>5. Linked => session["CLIENT"].started
    BY <2>3, BothStarted
  <2>6. /\ \A n \in Unread("CLIENT")' : n \in Unread("CLIENT") \/ NewToClient(n)
        /\ \A n \in Unread("SERVER")' : n \in Unread("SERVER")
        /\ AckFirst(inbox'["SERVER"])
        /\ Only(inbox["SERVER"], "RESUME_REQUEST") => Only(inbox'["SERVER"], "RESUME_REQUEST")
    BY <2>1, <2>3, <2>4, <2>5, OpenSent DEF NewToClient
  <2> QED
    BY <1>1, <2>1, <2>2, <2>5, <2>6, OpenStep
<1> QED
  BY <1>2, <1>3, <1>4, <1>5

\* A packet is read and no session changes.
LEMMA OpenIgnored ==
  ASSUME OpenInv, NEW p \in Peer, NEW t, Receive(p, t), Consume(p), UNCHANGED session,
         snap' = snap \/ session[p].started, pend'["CLIENT"].set => pend["CLIENT"].set
  PROVE  Begins'
<1>1. /\ \A q \in Peer : \A n \in Unread(q)' : n \in Unread(q)
      /\ AckFirst(inbox'["SERVER"])
      /\ Only(inbox["SERVER"], "RESUME_REQUEST") => Only(inbox'["SERVER"], "RESUME_REQUEST")
  BY OpenRead
<1>2. snap' = snap \/ (Linked => session["CLIENT"].started)
  BY BothStarted
<1> QED
  BY <1>1, <1>2, OpenSame DEF Consume, Peer

LEMMA OpenBoard ==
  ASSUME OpenInv, NEW p \in Peer,
         \/ HandleResumeResponse(p) \/ HandleStateSnapshot(p)
         \/ HandleMove(p) \/ HandleResign(p)
  PROVE  Begins'
<1>1. PICK t : Receive(p, t) /\ Consume(p)
  BY DEF HandleResumeResponse, HandleStateSnapshot, HandleMove, HandleResign
<1>2. UNCHANGED session /\ (snap' = snap \/ session[p].started)
  BY DEF HandleResumeResponse, HandleStateSnapshot, HandleMove, HandleResign
<1>3. pend'["CLIENT"].set => pend["CLIENT"].set
  BY DEF HandleResumeResponse, HandleStateSnapshot, HandleMove, HandleResign,
         OpenInv, ColourInv, BaseInv, SessionTypes, Pending, Peer
<1> QED
  BY <1>1, <1>2, <1>3, OpenIgnored

\* A program that is in the game writes a packet of the game.
LEMMA OpenGameSent ==
  ASSUME OpenInv, NEW p \in Peer, session[p].started, NEW m \in Packet,
         m.type \in {"MOVE", "RESIGN"}, Send(p, m), UNCHANGED <<session, pend>>
  PROVE  Begins'
<1>1. /\ \A n \in Unread(p)' : n \in Unread(p)
      /\ \A n \in Unread(Other(p))' : n \in Unread(Other(p)) \/ (n = m /\ Linked)
      /\ AckFirst(inbox'["SERVER"])
      /\ Only(inbox["SERVER"], "RESUME_REQUEST") => Only(inbox'["SERVER"], "RESUME_REQUEST")
  BY OpenSent DEF Send
<1>2. Linked => session["CLIENT"].started
  BY BothStarted
<1>3. /\ \A n \in Unread("CLIENT")' : n \in Unread("CLIENT") \/ NewToClient(n)
      /\ \A n \in Unread("SERVER")' : n \in Unread("SERVER") \/ NewToServer(n)
  BY <1>1, <1>2 DEF Peer, Other, NewToClient, NewToServer
<1> QED
  BY <1>1, <1>2, <1>3, OpenSame DEF Send

LEMMA OpenTrySendLocalMove ==
  ASSUME OpenInv, NEW p \in Peer, NEW m \in Moves, TrySendLocalMove(p, m)
  PROVE  Begins'
<1>1. session[p].started
  BY DEF TrySendLocalMove, InPlay
<1>2. CASE Send(p, MoveMsg(m)) /\ UNCHANGED <<session, pend>>
  <2>1. MoveMsg(m) \in Packet /\ MoveMsg(m).type \in {"MOVE", "RESIGN"}
    BY DEF MoveMsg, Packet
  <2> QED
    BY <1>1, <1>2, <2>1, OpenGameSent
<1>3. CASE HandlePeerDisconnect(p, FALSE)
  BY <1>3, OpenDisconnect
<1> QED
  BY <1>2, <1>3 DEF TrySendLocalMove

LEMMA OpenResign ==
  ASSUME OpenInv, NEW p \in Peer, Resign(p)
  PROVE  Begins'
<1>1. session[p].started
  BY DEF Resign, InPlay
<1>2. CASE Send(p, Bare("RESIGN")) /\ UNCHANGED <<session, pend>>
  <2>1. Bare("RESIGN") \in Packet /\ Bare("RESIGN").type \in {"MOVE", "RESIGN"}
    BY DEF Bare, Packet
  <2> QED
    BY <1>1, <1>2, <2>1, OpenGameSent
<1>3. CASE HandlePeerDisconnect(p, TRUE)
  BY <1>3, OpenDisconnect
<1> QED
  BY <1>2, <1>3 DEF Resign

LEMMA OpenReceiveError ==
  ASSUME OpenInv, NEW p \in Peer, ReceiveError(p)
  PROVE  Begins'
<1>1. over[p] \in BOOLEAN
  BY DEF OpenInv, ColourInv, BaseInv, BoardTypes
<1> QED
  BY <1>1, OpenDisconnect DEF ReceiveError

LEMMA OpenReturnToLobby ==
  ASSUME OpenInv, NEW p \in Peer, ReturnToLobby(p)
  PROVE  Begins'
<1> DEFINE s == NewSession
<1>1. HangUp(p) /\ session' = [session EXCEPT ![p] = s]
  BY DEF ReturnToLobby
<1>2. ~s.challengeDone /\ ~s.syncPending /\ ~s.started
  BY DEF NewSession
<1> HIDE DEF s
<1> QED
  BY <1>1, <1>2, OpenHungUp

\* No connection is open after these.
LEMMA OpenDial ==
  ASSUME OpenInv, NEW p \in Peer, Dial(p)
  PROVE  Begins'
<1>1. p = "CLIENT" /\ conn'["SERVER"] = conn["SERVER"] /\ UNCHANGED <<session, inbox>>
  BY DEF Dial, Redialing, OpenInv, ColourInv, BaseInv, Locals, LocalTo, Net, Peer
<1>2. ~Linked'
  BY <1>1 DEF Dial, Linked
<1>3. ServerConn'
  BY <1>1 DEF OpenInv, Begins, ServerConn
<1> QED
  BY <1>1, <1>2, <1>3, OpenUnlinked DEF OpenInv, Begins, Acks, Has, Unread

LEMMA OpenBreak ==
  ASSUME OpenInv, Break
  PROVE  Begins'
<1>1. /\ conn' = [q \in Peer |-> IF conn[q] = "live" THEN "dead" ELSE conn[q]]
      /\ UNCHANGED <<session, inbox>>
  BY DEF Break
<1>2. ~Linked'
  BY <1>1 DEF Linked, Peer
<1>3. conn'["SERVER"] = "none" <=> conn["SERVER"] = "none"
  BY <1>1 DEF Peer
<1>4. ServerConn'
  BY <1>1, <1>3 DEF OpenInv, Begins, ServerConn
<1> QED
  BY <1>1, <1>2, <1>4, OpenUnlinked DEF OpenInv, Begins, Acks, Has, Unread

LEMMA OpenRestart ==
  ASSUME OpenInv, NEW p \in Peer, Restart(p)
  PROVE  Begins'
<1>1. conn[p] = "none" /\ UNCHANGED <<session, inbox, conn, dialing>>
  BY DEF Restart, net, OpenInv, ColourInv, BaseInv, Locals
<1>2. ~Linked
  BY <1>1 DEF Linked, OpenInv, ColourInv, BaseInv, Net, Peer, Other
<1>3. ~Linked' /\ ServerConn'
  BY <1>1, <1>2 DEF Linked, OpenInv, Begins, ServerConn
<1> QED
  BY <1>1, <1>3, OpenUnlinked DEF OpenInv, Begins, Acks, Has, Unread

\* A crash, perhaps with a last packet written.
LEMMA OpenCrash ==
  ASSUME OpenInv, NEW p \in Peer, Crash(p)
  PROVE  Begins'
<1>1. /\ conn' = [q \in Peer |-> IF q = p THEN "none"
                                 ELSE IF conn[q] = "live" THEN "dead" ELSE conn[q]]
      /\ session' = [session EXCEPT ![p] = NewSession]
  BY DEF Crash
<1>2. ~Linked'
  BY <1>1 DEF Linked, Peer
<1>3. Other(p) \in Peer /\ Other(p) # p
  BY Ends
<1>4. /\ session'[p] = NewSession /\ session'[Other(p)] = session[Other(p)]
      /\ conn'[Other(p)] = "none" <=> conn[Other(p)] = "none"
  BY <1>1, <1>3 DEF OpenInv, ColourInv, BaseInv, SessionTypes
<1>5. ServerConn'
  <2>1. CASE p = "SERVER"
    BY <1>4, <2>1 DEF ServerConn, NewSession
  <2>2. CASE p = "CLIENT"
    <3>1. Other(p) = "SERVER"
      BY <2>2 DEF Other
    <3> QED
      BY <1>4, <3>1 DEF OpenInv, Begins, ServerConn
  <2> QED
    BY <2>1, <2>2 DEF Peer
<1>6. inbox'[p] = <<>>
  <2>1. inbox \in [Peer -> Seq(Packet)]
    BY DEF OpenInv, ColourInv, BaseInv, Net
  <2> QED
    BY <2>1 DEF Crash, Reached
<1>7. PICK m \in {Bare("ACK"), Bare("RESIGN")} :
        /\ \/ inbox'[Other(p)] = inbox[Other(p)]
           \/ Linked /\ inbox'[Other(p)] = Append(inbox[Other(p)], m)
        /\ m = Bare("ACK") => Receive(p, "START") /\ StartAcceptable(p)
        /\ m = Bare("RESIGN") => inbox'[Other(p)] = inbox[Other(p)] \/ session[p].started
  <2>1. Net /\ inbox \in [Peer -> Seq(Packet)]
    BY DEF OpenInv, ColourInv, BaseInv, Net
  <2>2. ASSUME NEW m \in Packet, inbox' = [Reached(p, inbox, m) EXCEPT ![p] = <<>>]
        PROVE  \/ inbox'[Other(p)] = inbox[Other(p)]
               \/ Linked /\ inbox'[Other(p)] = Append(inbox[Other(p)], m)
    <3>1. /\ Reached(p, inbox, m) \in [Peer -> Seq(Packet)]
          /\ conn[p] = "live" /\ p \notin dialing =>
               Reached(p, inbox, m)[Other(p)] = Append(inbox[Other(p)], m)
          /\ ~(conn[p] = "live" /\ p \notin dialing) =>
               Reached(p, inbox, m)[Other(p)] = inbox[Other(p)]
      BY <2>1, ReachedBox
    <3>2. conn[p] = "live" /\ p \notin dialing => Linked
      BY <2>1 DEF Linked, Net, Peer, Other
    <3>3. inbox'[Other(p)] = Reached(p, inbox, m)[Other(p)]
      BY <1>3, <2>2, <3>1
    <3> QED
      BY <3>1, <3>2, <3>3
  <2>3. Bare("ACK") \in Packet /\ Bare("RESIGN") \in Packet /\ Bare("ACK") # Bare("RESIGN")
    BY DEF Bare, Packet
  <2>4. CASE inbox' = [inbox EXCEPT ![p] = <<>>]
    BY <1>3, <2>1, <2>3, <2>4
  <2>5. CASE /\ Receive(p, "START") /\ StartAcceptable(p)
             /\ inbox' = [Reached(p, inbox, Bare("ACK")) EXCEPT ![p] = <<>>]
    BY <2>2, <2>3, <2>5
  <2>6. CASE InPlay(p) /\ inbox' = [Reached(p, inbox, Bare("RESIGN")) EXCEPT ![p] = <<>>]
    BY <2>2, <2>3, <2>6 DEF InPlay
  <2> QED
    BY <2>4, <2>5, <2>6 DEF Crash
<1>8. m \in Packet /\ m.type \in {"ACK", "RESIGN"} /\ (m.type = "ACK" <=> m = Bare("ACK"))
  BY DEF Bare, Packet
<1>9. CASE p = "SERVER"
  <2>1. Other(p) = "CLIENT" /\ session'["CLIENT"] = session["CLIENT"]
    BY <1>4, <1>9 DEF Other
  <2>2. AckFirst(inbox'["SERVER"]) /\ ~Has("SERVER", "ACK")'
    BY <1>6, <1>9, NothingUnread
  <2>3. m = Bare("RESIGN")
    BY <1>7, <1>9 DEF StartAcceptable, OpenInv, ColourInv, BaseInv, Locals, LocalTo
  <2>4. inbox["CLIENT"] \in Seq(Packet)
    BY DEF OpenInv, ColourInv, BaseInv, Net, Peer
  <2>5. \A t \in {"STATE_SNAPSHOT", "MOVE", "RESIGN"} :
          Has("CLIENT", t)' => session'["CLIENT"].started
    <3>1. CASE inbox'["CLIENT"] = inbox["CLIENT"]
      BY <2>1, <3>1 DEF OpenInv, Begins, Acks, Has, Unread
    <3>2. CASE Linked /\ inbox'["CLIENT"] # inbox["CLIENT"]
      BY <1>7, <2>1, <2>3, <3>2, BothStarted
    <3> QED
      BY <1>7, <2>1, <3>1, <3>2
  <2> QED
    BY <1>2, <1>5, <2>2, <2>5, OpenUnlinked
<1>10. CASE p = "CLIENT"
  <2>1. Other(p) = "SERVER" /\ session'["SERVER"] = session["SERVER"]
    BY <1>4, <1>10 DEF Other
  <2>2. \A t : ~Has("CLIENT", t)'
    BY <1>6, <1>10, NothingUnread
  <2>3. inbox["SERVER"] \in Seq(Packet) /\ AckFirst(inbox["SERVER"])
    BY DEF OpenInv, ColourInv, BaseInv, Net, Peer, Begins, Acks
  <2>4. AckFirst(inbox'["SERVER"]) /\ (Has("SERVER", "ACK")' => ~session["SERVER"].started)
    <3>1. CASE inbox'["SERVER"] = inbox["SERVER"]
      BY <2>3, <3>1 DEF OpenInv, Begins, Acks, Has, Unread
    <3>2. CASE Linked /\ inbox'["SERVER"] = Append(inbox["SERVER"], m)
      <4>1. Range(Append(inbox["SERVER"], m)) = Range(inbox["SERVER"]) \cup {m}
        BY <1>8, <2>3, QueueWritten
      <4>2. CASE m.type = "ACK"
        <5>1. ~session["CLIENT"].started
          BY <1>7, <1>8, <1>10, <4>2
             DEF StartAcceptable, OpenInv, ColourInv, BaseInv, Locals, LocalTo
        <5>2. /\ ~session["SERVER"].started
              /\ \A n \in Range(inbox["SERVER"]) : n.type \notin {"ACK", "MOVE", "RESIGN"}
          BY <3>2, <5>1 DEF OpenInv, Begins, Opening, Has, Unread
        <5>3. Only(Append(inbox["SERVER"], m), "ACK")
          BY <1>8, <2>3, <5>2, QueueWritten DEF AckFirst
        <5>4. Before(Append(inbox["SERVER"], m), "ACK", {"MOVE", "RESIGN"})
          BY <1>8, <2>3, <4>2, <5>2, QueueWritten DEF AckFirst
        <5> QED
          BY <3>2, <5>2, <5>3, <5>4 DEF AckFirst
      <4>3. CASE m.type # "ACK"
        <5>1. Only(Append(inbox["SERVER"], m), "ACK")
          BY <1>8, <2>3, <4>3, QueueWritten DEF AckFirst
        <5>2. Before(Append(inbox["SERVER"], m), "ACK", {"MOVE", "RESIGN"})
          BY <1>8, <2>3, <4>3, QueueWritten DEF AckFirst
        <5>3. Has("SERVER", "ACK")' => Has("SERVER", "ACK")
          BY <3>2, <4>1, <4>3 DEF Has, Unread
        <5> QED
          BY <3>2, <5>1, <5>2, <5>3 DEF AckFirst, OpenInv, Begins, Acks
      <4> QED
        BY <4>2, <4>3
    <3> QED
      BY <1>7, <2>1, <3>1, <3>2
  <2> QED
    BY <1>2, <1>5, <2>1, <2>2, <2>4, OpenUnlinked
<1> QED
  BY <1>9, <1>10 DEF Peer

\* A connection is accepted: nothing but HELLO was written to it, and neither end
\* has begun a game on it.
LEMMA OpenAccept ==
  ASSUME OpenInv, NEW p \in Peer, Accept(p)
  PROVE  Begins'
<1>1. /\ p = "SERVER" /\ UNCHANGED <<session, pend, snap>> /\ conn["SERVER"] = "none"
      /\ session["SERVER"].phase # "DISCONNECTED" /\ "CLIENT" \in dialing
      /\ conn'["SERVER"] = "live" /\ inbox' = [inbox EXCEPT !["SERVER"] = queued["CLIENT"]]
  BY DEF Accept, Connecting, disk, OpenInv, ColourInv, BaseInv, Net, Peer, Other
<1>2. /\ ~session["SERVER"].challengeDone /\ ~session["SERVER"].syncPending
      /\ ~session["SERVER"].started /\ ~session["CLIENT"].started
  BY <1>1 DEF OpenInv, Begins, ServerConn, ColourInv, BaseInv, Locals
<1>3. /\ inbox'["CLIENT"] = <<>> /\ inbox'["SERVER"] \in Seq(Hellos)
  BY <1>1 DEF OpenInv, ColourInv, BaseInv, Net, Peer
<1>4. \A t : ~Has("CLIENT", t)'
  BY <1>3, NothingUnread DEF Peer
<1>5. \A j \in 1..Len(inbox'["SERVER"]) : inbox'["SERVER"][j].type = "HELLO"
  <2> DEFINE e == inbox'["SERVER"]
  <2>1. \A j \in 1..Len(e) : e[j] \in Hellos
    BY <1>3, ElementOfSeq
  <2> QED
    BY <2>1 DEF Hellos, Bare
<1>6. DOMAIN inbox'["SERVER"] = 1..Len(inbox'["SERVER"])
  BY <1>3, LenProperties
<1>7. \A t : t # "HELLO" => ~Has("SERVER", t)'
  BY <1>5, <1>6 DEF Has, Unread, Range
<1>8. AckFirst(inbox'["SERVER"]) /\ Only(inbox'["SERVER"], "RESUME_REQUEST")
  BY <1>5 DEF AckFirst, Only, Before
<1>9. ServerConn'
  BY <1>1, <1>2 DEF ServerConn
<1>10. Opening'
  BY <1>1, <1>2, <1>4, <1>7, <1>8 DEF Opening
<1>11. Acks'
  BY <1>4, <1>7, <1>8 DEF Acks
<1> QED
  BY <1>9, <1>10, <1>11 DEF Begins

\* The one RESUME_REQUEST of a connection reaches a server that has not begun.
LEMMA OpenSendResumeRequest ==
  ASSUME OpenInv, NEW p \in Peer, SendResumeRequest(p)
  PROVE  Begins'
<1> DEFINE s == [session[p] EXCEPT !.resumeSent = TRUE]
           m == Bare("RESUME_REQUEST")
<1>1. /\ p = "CLIENT" /\ Other(p) = "SERVER" /\ session[p] \in SessionType
      /\ ~session[p].started /\ ~session[p].resumeSent /\ pend[p].set
  BY DEF SendResumeRequest, OpenInv, ColourInv, BaseInv, SessionTypes, Locals, LocalTo,
         Peer, Other
<1>2. /\ session' = [session EXCEPT ![p] = s] /\ inbox' = Reached(p, inbox, m)
      /\ UNCHANGED <<pend, snap, conn, dialing>>
  BY DEF SendResumeRequest, Send, disk
<1>3. s.resumeSent /\ s.started = session[p].started
  BY <1>1 DEF SessionType
<1>4. m \in Packet /\ m.type = "RESUME_REQUEST"
  BY DEF Bare, Packet
<1> HIDE DEF s, m
<1>5. session'["CLIENT"] = s /\ session'["SERVER"] = session["SERVER"]
  BY <1>1, <1>2 DEF OpenInv, ColourInv, BaseInv, SessionTypes, Peer
<1>6. /\ inbox["SERVER"] \in Seq(Packet) /\ Net /\ inbox \in [Peer -> Seq(Packet)]
  BY DEF OpenInv, ColourInv, BaseInv, Net, Peer
<1>7. /\ inbox'["CLIENT"] = inbox["CLIENT"]
      /\ Linked => inbox'["SERVER"] = Append(inbox["SERVER"], m)
      /\ ~Linked => inbox'["SERVER"] = inbox["SERVER"]
  BY <1>1, <1>2, <1>4, <1>6, Delivered
<1>8. Linked' = Linked
  BY <1>2 DEF Linked
<1>9. ServerConn'
  BY <1>2, <1>5 DEF OpenInv, Begins, ServerConn
<1>10. CASE ~Linked
  <2>1. \A t : (Has("SERVER", t)' <=> Has("SERVER", t)) /\ (Has("CLIENT", t)' <=> Has("CLIENT", t))
    BY <1>7, <1>10 DEF Has, Unread
  <2>2. AckFirst(inbox'["SERVER"])
    BY <1>7, <1>10 DEF OpenInv, Begins, Acks
  <2> QED
    BY <1>1, <1>3, <1>5, <1>8, <1>9, <1>10, <2>1, <2>2, OpenUnlinked DEF OpenInv, Begins, Acks
<1>11. CASE Linked
  <2>1. Range(Append(inbox["SERVER"], m)) = Range(inbox["SERVER"]) \cup {m}
    BY <1>4, <1>6, QueueWritten
  <2>2. \A t : Has("SERVER", t)' <=> Has("SERVER", t) \/ t = "RESUME_REQUEST"
    BY <1>4, <1>7, <1>11, <2>1 DEF Has, Unread
  <2>3. \A t : Has("CLIENT", t)' <=> Has("CLIENT", t)
    BY <1>7 DEF Has, Unread
  <2>4. ~session["SERVER"].challengeDone /\ ~Has("SERVER", "RESUME_REQUEST")
    BY <1>1, <1>11 DEF OpenInv, Begins, Opening
  <2>5. Only(inbox'["SERVER"], "RESUME_REQUEST")
    <3>1. \A n \in Range(inbox["SERVER"]) : n.type # "RESUME_REQUEST"
      BY <2>4 DEF Has, Unread
    <3>2. Only(inbox["SERVER"], "RESUME_REQUEST")
      BY <1>1, <1>11 DEF OpenInv, Begins, Opening
    <3>3. Only(Append(inbox["SERVER"], m), "RESUME_REQUEST")
      BY <1>4, <1>6, <3>1, <3>2, QueueWritten
    <3> QED
      BY <1>7, <1>11, <3>3
  <2>6. AckFirst(inbox'["SERVER"])
    <3>1. AckFirst(inbox["SERVER"])
      BY DEF OpenInv, Begins, Acks
    <3>2. Only(Append(inbox["SERVER"], m), "ACK")
      BY <1>4, <1>6, <3>1, QueueWritten DEF AckFirst
    <3>3. Before(Append(inbox["SERVER"], m), "ACK", {"MOVE", "RESIGN"})
      BY <1>4, <1>6, <3>1, QueueWritten DEF AckFirst
    <3> QED
      BY <1>7, <1>11, <3>2, <3>3 DEF AckFirst
  <2>7. Opening'
    BY <1>1, <1>2, <1>3, <1>5, <1>11, <2>2, <2>3, <2>4, <2>5 DEF OpenInv, Begins, Opening
  <2>8. Acks'
    BY <1>1, <1>3, <1>5, <2>2, <2>3, <2>6 DEF OpenInv, Begins, Acks
  <2> QED
    BY <1>9, <2>7, <2>8 DEF Begins
<1> QED
  BY <1>10, <1>11

\* An answer: the head is read and a packet written to the other end.
LEMMA Answered ==
  ASSUME Net, NEW p \in Peer, NEW t, Receive(p, t), NEW m \in Packet, Answer(p, m)
  PROVE  /\ inbox'[p] = Tail(inbox[p]) /\ inbox[p] \in Seq(Packet) /\ inbox[p] # <<>>
         /\ Head(inbox[p]).type = t
         /\ inbox[Other(p)] \in Seq(Packet)
         /\ Linked => inbox'[Other(p)] = Append(inbox[Other(p)], m)
         /\ ~Linked => inbox'[Other(p)] = inbox[Other(p)]
<1> DEFINE box == Consumed(p)
<1>1. /\ box \in [Peer -> Seq(Packet)] /\ inbox' = Reached(p, box, m)
      /\ box[p] = Tail(inbox[p]) /\ box[Other(p)] = inbox[Other(p)]
      /\ inbox[p] # <<>> /\ Head(inbox[p]).type = t
  BY Received DEF Answer
<1> HIDE DEF box
<1>2. inbox[p] \in Seq(Packet) /\ inbox[Other(p)] \in Seq(Packet)
  BY Ends DEF Net
<1>3. /\ inbox'[p] = box[p]
      /\ Linked => inbox'[Other(p)] = Append(box[Other(p)], m)
      /\ ~Linked => inbox'[Other(p)] = box[Other(p)]
  BY <1>1, Delivered
<1> QED
  BY <1>1, <1>2, <1>3

\* The client begins: its ACK is the only one on the connection.
LEMMA OpenHandleStart ==
  ASSUME OpenInv, NEW p \in Peer, HandleStart(p)
  PROVE  Begins'
<1> DEFINE c == Head(inbox[p]).color
           s == StartGame(session[p], c)
           m == Bare("ACK")
<1>1. Receive(p, "START") /\ UNCHANGED snap
  BY DEF HandleStart
<1>2. CASE Consume(p) /\ UNCHANGED <<session, pend>>
  BY <1>1, <1>2, OpenIgnored
<1>3. CASE StartAcceptable(p) /\ Answer(p, m) /\ session' = [session EXCEPT ![p] = s]
  <2>1. /\ p = "CLIENT" /\ Other(p) = "SERVER" /\ session[p] \in SessionType
        /\ ~session[p].started
    BY <1>3 DEF StartAcceptable, OpenInv, ColourInv, BaseInv, SessionTypes, Locals, LocalTo,
                Peer, Other
  <2>2. s.started
    BY <2>1, StartGameFields
  <2>3. m \in Packet /\ m.type = "ACK"
    BY DEF Bare, Packet
  <2> HIDE DEF s, m
  <2>4. session'["CLIENT"] = s /\ session'["SERVER"] = session["SERVER"]
    BY <1>3, <2>1 DEF OpenInv, ColourInv, BaseInv, SessionTypes, Peer
  <2>5. /\ inbox["SERVER"] \in Seq(Packet)
        /\ Linked => inbox'["SERVER"] = Append(inbox["SERVER"], m)
        /\ ~Linked => inbox'["SERVER"] = inbox["SERVER"]
    BY <1>1, <1>3, <2>1, <2>3, Answered DEF OpenInv, ColourInv, BaseInv
  <2>6. UNCHANGED <<conn, dialing>> /\ Linked' = Linked
    BY <1>3 DEF Answer, Linked
  <2>7. ServerConn'
    BY <2>4, <2>6 DEF OpenInv, Begins, ServerConn
  <2>8. CASE ~Linked
    BY <2>2, <2>4, <2>5, <2>6, <2>7, <2>8, OpenUnlinked DEF OpenInv, Begins, Acks, Has, Unread
  <2>9. CASE Linked
    <3>1. Has("CLIENT", "START")
      BY <1>1, <2>1, HeadUnread DEF OpenInv, ColourInv, BaseInv
    <3>2. /\ ~session["SERVER"].started /\ ~Has("SERVER", "RESUME_REQUEST")
          /\ \A n \in Range(inbox["SERVER"]) : n.type \notin {"ACK", "MOVE", "RESIGN"}
      BY <2>1, <2>9, <3>1 DEF OpenInv, Begins, Opening, Has, Unread
    <3>3. Range(Append(inbox["SERVER"], m)) = Range(inbox["SERVER"]) \cup {m}
      BY <2>3, <2>5, QueueWritten
    <3>4. ~Has("SERVER", "RESUME_REQUEST")'
      BY <2>3, <2>5, <2>9, <3>2, <3>3 DEF Has, Unread
    <3>5. AckFirst(inbox["SERVER"])
      BY DEF OpenInv, Begins, Acks
    <3>6. Only(Append(inbox["SERVER"], m), "ACK")
      BY <2>3, <2>5, <3>2, <3>5, QueueWritten DEF AckFirst
    <3>7. Before(Append(inbox["SERVER"], m), "ACK", {"MOVE", "RESIGN"})
      BY <2>3, <2>5, <3>2, <3>5, QueueWritten DEF AckFirst
    <3>8. Acks'
      BY <2>2, <2>4, <2>5, <2>9, <3>2, <3>4, <3>6, <3>7 DEF Acks, AckFirst
    <3>9. Opening'
      BY <2>2, <2>4 DEF Opening
    <3> QED
      BY <2>7, <3>8, <3>9 DEF Begins
  <2> QED
    BY <2>8, <2>9
<1> QED
  BY <1>2, <1>3 DEF HandleStart

\* The server begins, with a client that is in the game if it is still connected.
LEMMA OpenHandleAck ==
  ASSUME OpenInv, NEW p \in Peer, HandleAck(p)
  PROVE  Begins'
<1> DEFINE c == Opposite(pend[p].color)
           s == StartGame(session[p], c)
<1>1. Receive(p, "ACK") /\ Consume(p) /\ UNCHANGED pend
  BY DEF HandleAck
<1>2. CASE UNCHANGED <<session, snap>>
  BY <1>1, <1>2, OpenIgnored
<1>3. CASE /\ session[p].role = "SERVER" /\ ~session[p].startDone
           /\ session' = [session EXCEPT ![p] = s]
  <2>1. /\ p = "SERVER" /\ Other(p) = "CLIENT" /\ session[p] \in SessionType
    BY <1>3 DEF OpenInv, ColourInv, BaseInv, SessionTypes, Locals, LocalTo, Peer, Other
  <2>2. s.challengeDone = session[p].challengeDone /\ s.syncPending = session[p].syncPending
    BY <2>1, StartGameFields
  <2> HIDE DEF s
  <2>3. session'["SERVER"] = s /\ session'["CLIENT"] = session["CLIENT"]
    BY <1>3, <2>1 DEF OpenInv, ColourInv, BaseInv, SessionTypes, Peer
  <2>4. /\ inbox'["SERVER"] = Tail(inbox["SERVER"]) /\ inbox'["CLIENT"] = inbox["CLIENT"]
        /\ inbox["SERVER"] # <<>> /\ inbox["SERVER"] \in Seq(Packet)
        /\ Head(inbox["SERVER"]).type = "ACK" /\ conn["SERVER"] # "none"
    BY <1>1, <2>1, Received DEF Consume, OpenInv, ColourInv, BaseInv, Net
  <2>5. UNCHANGED <<conn, dialing>> /\ Linked' = Linked
    BY <1>1 DEF Consume, Linked
  <2>6. ServerConn'
    BY <2>2, <2>3, <2>1, <2>4, <2>5 DEF OpenInv, Begins, ServerConn
  <2>7. Range(inbox["SERVER"]) = {Head(inbox["SERVER"])} \cup Range(Tail(inbox["SERVER"]))
    BY <2>4, QueueRead
  <2>8. Has("SERVER", "ACK") /\ (Linked => session["CLIENT"].started)
    <3>1. Has("SERVER", "ACK")
      BY <2>4, <2>7 DEF Has, Unread
    <3> QED
      BY <3>1 DEF OpenInv, Begins, Opening
  <2>9. AckFirst(inbox["SERVER"])
    BY DEF OpenInv, Begins, Acks
  <2>10. ~Has("SERVER", "ACK")'
    BY <2>4, <2>9, QueueRead DEF AckFirst, Has, Unread
  <2>11. AckFirst(inbox'["SERVER"])
    BY <2>4, <2>9, QueueRead DEF AckFirst
  <2>12. \A t : (Has("SERVER", t)' => Has("SERVER", t)) /\ (Has("CLIENT", t)' => Has("CLIENT", t))
    BY <2>4, <2>7 DEF Has, Unread
  <2>13. Acks'
    BY <2>3, <2>5, <2>10, <2>11, <2>12 DEF OpenInv, Begins, Acks
  <2>14. Opening'
    BY <2>3, <2>5, <2>8 DEF Opening
  <2> QED
    BY <2>6, <2>13, <2>14 DEF Begins
<1> QED
  BY <1>2, <1>3 DEF HandleAck

\* The server begins a game resumed on a connection on which none is under way.
LEMMA OpenHandleResumeRequest ==
  ASSUME OpenInv, NEW p \in Peer, HandleResumeRequest(p)
  PROVE  Begins'
<1> DEFINE known == snap[p] # NoSnapshot
           m == ResponseMsg(known)
           s == IF known THEN ResumeAccepted(session[p])
                ELSE [session[p] EXCEPT !.syncPending = FALSE]
<1>1. Receive(p, "RESUME_REQUEST") /\ UNCHANGED snap
  BY DEF HandleResumeRequest, disk
<1>2. CASE Consume(p) /\ UNCHANGED <<session, pend>>
  BY <1>1, <1>2, OpenIgnored
<1>3. CASE HandlePeerDisconnect(p, over[p])
  <2>1. over[p] \in BOOLEAN
    BY DEF OpenInv, ColourInv, BaseInv, BoardTypes
  <2> QED
    BY <1>3, <2>1, OpenDisconnect
<1>4. CASE /\ session[p].role = "SERVER" /\ ~session[p].startDone
           /\ session' = [session EXCEPT ![p] = s] /\ Answer(p, m)
           /\ \A q \in Peer : q # p => pend'[q] = pend[q]
  <2>1. /\ p = "SERVER" /\ Other(p) = "CLIENT" /\ session[p] \in SessionType
        /\ ~session[p].started
    BY <1>4 DEF OpenInv, ColourInv, BaseInv, SessionTypes, Locals, LocalTo, Peer, Other
  <2>2. m \in Packet /\ m.type = "RESUME_RESPONSE"
    BY DEF ResponseMsg, Packet
  <2>3. /\ ~s.started /\ s.challengeDone = (known \/ session[p].challengeDone)
        /\ s.syncPending = known
    BY <2>1 DEF ResumeAccepted, SessionType
  <2> HIDE DEF s, m
  <2>4. /\ session'["SERVER"] = s /\ session'["CLIENT"] = session["CLIENT"]
        /\ pend'["CLIENT"] = pend["CLIENT"]
    BY <1>4, <2>1 DEF OpenInv, ColourInv, BaseInv, SessionTypes, Peer
  <2>5. /\ inbox'["SERVER"] = Tail(inbox["SERVER"]) /\ inbox["SERVER"] \in Seq(Packet)
        /\ inbox["SERVER"] # <<>> /\ Head(inbox["SERVER"]).type = "RESUME_REQUEST"
        /\ inbox["CLIENT"] \in Seq(Packet)
        /\ inbox'["CLIENT"] \in {inbox["CLIENT"], Append(inbox["CLIENT"], m)}
    BY <1>1, <1>4, <2>1, <2>2, Answered DEF OpenInv, ColourInv, BaseInv
  <2>6. UNCHANGED <<conn, dialing>> /\ Linked' = Linked /\ conn["SERVER"] # "none"
    BY <1>1, <1>4, <2>1 DEF Answer, Linked, Receive, Reading
  <2>7. ServerConn'
    BY <2>3, <2>4, <2>6 DEF ServerConn
  <2>8. Range(inbox["SERVER"]) = {Head(inbox["SERVER"])} \cup Range(Tail(inbox["SERVER"]))
    BY <2>5, QueueRead
  <2>9. Range(Append(inbox["CLIENT"], m)) = Range(inbox["CLIENT"]) \cup {m}
    BY <2>2, <2>5, QueueWritten
  <2>10. \A t : t # "RESUME_RESPONSE" => (Has("CLIENT", t)' => Has("CLIENT", t))
    BY <2>2, <2>5, <2>9 DEF Has, Unread
  <2>11. \A t : Has("SERVER", t)' => Has("SERVER", t)
    BY <2>5, <2>8 DEF Has, Unread
  <2>12. Has("SERVER", "RESUME_REQUEST")
    BY <2>5, <2>8 DEF Has, Unread
  <2>13. AckFirst(inbox'["SERVER"])
    <3>1. AckFirst(inbox["SERVER"])
      BY DEF OpenInv, Begins, Acks
    <3> QED
      BY <2>5, <3>1, QueueRead DEF AckFirst
  <2>14. Acks'
    BY <2>3, <2>4, <2>6, <2>10, <2>11, <2>13 DEF OpenInv, Begins, Acks
  <2>15. Opening'
    <3> SUFFICES ASSUME Linked', ~session'["CLIENT"].started
                 PROVE  Opening'
      BY DEF Opening
    <3>1. Linked /\ ~session["CLIENT"].started
      BY <2>4, <2>6
    <3>2. /\ Only(inbox["SERVER"], "RESUME_REQUEST") /\ session["CLIENT"].resumeSent
          /\ ~session["SERVER"].challengeDone
          /\ ~Has("SERVER", "ACK") /\ ~Has("SERVER", "MOVE") /\ ~Has("SERVER", "RESIGN")
          /\ ~Has("CLIENT", "START")
      BY <2>12, <3>1 DEF OpenInv, Begins, Opening
    <3>3. Only(inbox'["SERVER"], "RESUME_REQUEST")
      BY <2>5, <3>2, QueueRead
    <3>4. ~Has("SERVER", "RESUME_REQUEST")'
      BY <2>5, <3>2, QueueRead DEF Has, Unread
    <3>5. \A t \in {"ACK", "MOVE", "RESIGN"} : ~Has("SERVER", t)'
      BY <2>11, <3>2
    <3>6. ~Has("CLIENT", "START")'
      BY <2>10, <3>2
    <3>7. ~session'["SERVER"].started /\ session'["CLIENT"].resumeSent
          /\ ~(session'["SERVER"].challengeDone /\ ~session'["SERVER"].syncPending)
      BY <2>1, <2>3, <2>4, <3>2
    <3> QED
      BY <3>3, <3>4, <3>5, <3>6, <3>7 DEF Opening
  <2> QED
    BY <2>7, <2>14, <2>15 DEF Begins
<1>5. \/ Consume(p) /\ UNCHANGED <<session, pend>>
      \/ HandlePeerDisconnect(p, over[p])
      \/ /\ session[p].role = "SERVER" /\ ~session[p].startDone
         /\ session' = [session EXCEPT ![p] = s] /\ Answer(p, m)
         /\ pend' = pend \/ pend' = [pend EXCEPT ![p] =
                                      [set |-> TRUE, color |-> RequesterColor(p)]]
  BY DEF HandleResumeRequest
<1>6. pend' = pend \/ pend' = [pend EXCEPT ![p] = [set |-> TRUE, color |-> RequesterColor(p)]]
        => \A q \in Peer : q # p => pend'[q] = pend[q]
  BY DEF OpenInv, ColourInv, BaseInv, SessionTypes
<1> QED
  BY <1>2, <1>3, <1>4, <1>5, <1>6

LEMMA InitOpen ==
  Init => OpenInv
<1> SUFFICES ASSUME Init PROVE Begins
  BY InitColours DEF OpenInv
<1>1. /\ \A p \in Peer : inbox[p] = <<>> /\ conn[p] = "live" /\ snap[p] = NoSnapshot
      /\ \A p \in Peer : ~pend[p].set
  BY DEF Init, NoPending
<1>2. \A p \in Peer : Unread(p) = {} /\ inbox[p] = <<>>
  <2>1. Range(<<>>) = {}
    BY DEF Range
  <2> QED
    BY <1>1, <2>1 DEF Unread
<1>4. ASSUME NEW p \in Peer
      PROVE  AckFirst(inbox[p]) /\ Only(inbox[p], "RESUME_REQUEST")
  <2> DEFINE e == inbox[p]
  <2>1. Len(e) = 0
    BY <1>2
  <2>2. 1..Len(e) = {}
    BY <2>1
  <2> HIDE DEF e
  <2>3. AckFirst(e) /\ Only(e, "RESUME_REQUEST")
    BY <2>2 DEF AckFirst, Only, Before
  <2> QED
    BY <2>3 DEF e
<1>5. ~session["SERVER"].syncPending /\ ~session["SERVER"].started
  <2> DEFINE h == [NewSession EXCEPT !.phase = "GAME_STARTING", !.role = "SERVER",
                                     !.available = TRUE]
             t == [h EXCEPT !.helloSent = TRUE, !.helloReceived = TRUE, !.hello = TRUE,
                            !.challengeDone = TRUE]
  <2>1. session["SERVER"] = t
    BY DEF Init, Peer
  <2>2. ~h.syncPending /\ ~h.started
    BY DEF NewSession
  <2> HIDE DEF h
  <2>3. t.syncPending = h.syncPending /\ t.started = h.started
    OBVIOUS
  <2> QED
    BY <2>1, <2>2, <2>3
<1>6. \A p \in Peer : \A t : ~Has(p, t)
  BY <1>2 DEF Has
<1>7. ServerConn
  BY <1>1, <1>5 DEF ServerConn, Peer
<1>8. Opening
  BY <1>1, <1>4, <1>5, <1>6 DEF Opening, Peer
<1>9. Acks
  BY <1>4, <1>6 DEF Acks, Peer
<1> QED
  BY <1>7, <1>8, <1>9 DEF Begins

LEMMA NextOpen ==
  OpenInv /\ [Next]_vars => OpenInv'
<1> SUFFICES ASSUME OpenInv, [Next]_vars PROVE Begins'
  BY NextColours DEF OpenInv
<1>1. CASE UNCHANGED vars
  <2>1. AckFirst(inbox["SERVER"])
    BY DEF OpenInv, Begins, Acks
  <2> QED
    BY <1>1, <2>1, OpenSame DEF vars, Unread
<1>2. CASE Break
  BY <1>2, OpenBreak
<1>3. ASSUME NEW p \in Peer,
             \/ Discover(p) \/ NetTick(p) \/ RetryStart(p) \/ PlayerInput(p)
             \/ Crash(p) \/ Restart(p)
      PROVE  Begins'
  <2>1. CASE NetTick(p)
    <3>1. CASE DispatchIncomingPacket(p)
      BY <3>1, OpenFlags, OpenHandleStart, OpenHandleAck, OpenHandleResumeRequest, OpenBoard
      DEF DispatchIncomingPacket
    <3> QED
      BY <2>1, <3>1, OpenDial, OpenFinalizeConnect, OpenAccept, OpenHello,
         OpenSendResumeRequest, OpenFlags, OpenReceiveError DEF NetTick
  <2>2. CASE PlayerInput(p)
    BY <2>2, OpenTrySendLocalMove, OpenResign, OpenReturnToLobby DEF PlayerInput
  <2> QED
    BY <1>3, <2>1, <2>2, OpenDiscover, OpenFlags, OpenCrash, OpenRestart
<1> QED
  BY <1>1, <1>2, <1>3 DEF Next

LEMMA OpenInvariance ==
  Spec => []OpenInv
BY InitOpen, NextOpen, PTL DEF Spec

-----------------------------------------------------------------------------
(* The inductive invariant of a game in step *)

\* Game h is in record r but perhaps for its last move, made by colour c.
Ahead(h, r, c) == \E f \in Seq(Moves), m \in Moves :
                    h = Append(f, m) /\ IsPrefix(f, r) /\ SideToMove(f) = c
Behind(h, r, c) == IsPrefix(h, r) \/ Ahead(h, r, c)

\* The client's colour when w is white.
ClientColor(w) == IF w = "CLIENT" THEN "WHITE" ELSE "BLACK"

\* The client's file, and its board, are behind the server's file.
FileBehind ==
  snap["CLIENT"] # NoSnapshot =>
    /\ Behind(snap["CLIENT"].hist, ServerRecord, ClientColor(snap["CLIENT"].white))
    /\ snap["CLIENT"].over \/ IsPrefix(snap["CLIENT"].hist, ServerRecord)

ClientBehind ==
  session["CLIENT"].started => Behind(hist["CLIENT"], ServerRecord, session["CLIENT"].color)

\* So are the games and the moves the client has not read.
Snapshots ==
  \A m \in Unread("CLIENT") : m.type = "STATE_SNAPSHOT" =>
    IsPrefix(m.hist, ServerRecord) /\ (over["CLIENT"] \/ IsPrefix(hist["CLIENT"], m.hist))

\* What the client's board will be when it reads its next MOVE.
Shows(h) == IF Has("CLIENT", "STATE_SNAPSHOT")
            THEN \A m \in Unread("CLIENT") : m.type = "STATE_SNAPSHOT" => m.hist = h
            ELSE hist["CLIENT"] = h

MovesIn ==
  \A m \in Unread("CLIENT") : m.type = "MOVE" =>
    \E h \in Seq(Moves) : /\ Shows(h) /\ IsPrefix(Append(h, m.move), ServerRecord)
                          /\ SideToMove(h) = Opposite(session["CLIENT"].color)

\* Both ends are in the game, or the ACK that takes the server there is under way.
Joined == /\ Linked /\ session["CLIENT"].started
          /\ session["SERVER"].started \/ Has("SERVER", "ACK")

\* Before the game resumed is sent, nothing else of the game is.
Resuming ==
  Joined /\ session["SERVER"].syncPending =>
    /\ \A t \in {"STATE_SNAPSHOT", "MOVE", "RESIGN"} : ~Has("CLIENT", t) /\ ~Has("SERVER", t)
    /\ over["CLIENT"] \/ IsPrefix(hist["CLIENT"], ServerRecord)

InSync == Joined /\ ~session["SERVER"].syncPending

\* At most one move is under way, and it is the only difference between the
\* client's board, once it has read its mail, and the server's file.
OneMove ==
  InSync =>
    /\ \A m \in Unread("CLIENT") : m.type = "MOVE" =>
         /\ ~Has("SERVER", "MOVE")
         /\ \E h \in Seq(Moves) : /\ Shows(h) /\ ServerRecord = Append(h, m.move)
                                  /\ Legal(h, m.move)
    /\ \A m \in Unread("SERVER") : m.type = "MOVE" =>
         /\ ~Has("CLIENT", "STATE_SNAPSHOT") /\ ~Has("CLIENT", "MOVE")
         /\ hist["CLIENT"] = Append(ServerRecord, m.move) /\ Legal(ServerRecord, m.move)
         /\ SideToMove(ServerRecord) = session["CLIENT"].color
    /\ Only(inbox["SERVER"], "MOVE")
    /\ ~Has("CLIENT", "MOVE") /\ ~Has("SERVER", "MOVE") => Shows(ServerRecord)

\* The server's game, or the file it will start from, is over.
ServerOver == IF session["SERVER"].started THEN over["SERVER"]
              ELSE snap["SERVER"] # NoSnapshot /\ snap["SERVER"].over

\* Both ends agree that the game is over, or a packet says so to the other.
OneEnd ==
  InSync =>
    /\ ServerOver => \/ Has("CLIENT", "RESIGN")
                     \/ IF Has("CLIENT", "STATE_SNAPSHOT")
                        THEN \A m \in Unread("CLIENT") : m.type = "STATE_SNAPSHOT" => m.over
                        ELSE over["CLIENT"]
    /\ ~Has("CLIENT", "STATE_SNAPSHOT") /\ over["CLIENT"] => ServerOver \/ Has("SERVER", "RESIGN")
    /\ Has("CLIENT", "RESIGN") => ServerOver
    /\ \A m \in Unread("CLIENT") : m.type = "STATE_SNAPSHOT" /\ m.over => ServerOver
    /\ Has("SERVER", "RESIGN") => ~Has("CLIENT", "STATE_SNAPSHOT") /\ over["CLIENT"]

\* The client trails the server's file; two ends that are connected are in step.
Trailing == /\ SnapshotFirst(inbox["CLIENT"]) /\ FileBehind /\ ClientBehind
            /\ Snapshots /\ MovesIn
InStep == Resuming /\ OneMove /\ OneEnd

Sync == Trailing /\ InStep

\* The packets of a game under way.
Game == {"STATE_SNAPSHOT", "MOVE", "RESIGN"}

\* All of it.
SyncInv == OpenInv /\ Sync

-----------------------------------------------------------------------------
(* Lemmas on boards and queues *)

\* The players take turns.
LEMMA Turns ==
  ASSUME NEW f \in Seq(Moves), NEW m \in Moves
  PROVE  /\ SideToMove(f) \in Color /\ SideToMove(Append(f, m)) = Opposite(SideToMove(f))
         /\ SideToMove(Append(f, m)) # SideToMove(f)
<1> DEFINE a == Append(f, m)
<1>1. Len(f) \in Nat /\ Len(a) = Len(f) + 1
  BY AppendProperties, LenProperties
<1> HIDE DEF a
<1>2. Len(f) % 2 = 0 <=> Len(a) % 2 # 0
  BY <1>1
<1>3. /\ SideToMove(f) \in Color /\ SideToMove(a) = Opposite(SideToMove(f))
      /\ SideToMove(a) # SideToMove(f)
  BY <1>2 DEF SideToMove, Opposite, Color
<1> QED
  BY <1>3 DEF a

\* The two ends of one game have opposite colours.
LEMMA TwoColours ==
  ASSUME ColourInv, session["CLIENT"].started, session["SERVER"].started
  PROVE  /\ session["CLIENT"].color \in Color
         /\ session["SERVER"].color = Opposite(session["CLIENT"].color)
         /\ session["CLIENT"].color = Opposite(session["SERVER"].color)
<1>1. PICK w \in Peer : Agreed(w)
  BY DEF ColourInv, Colours
<1>2. /\ session["CLIENT"].color \in Color /\ session["SERVER"].color \in Color
      /\ White("CLIENT", session["CLIENT"].color) = White("SERVER", session["SERVER"].color)
  BY <1>1 DEF Agreed, Peer
<1> QED
  BY <1>2 DEF White, Color, Other, Opposite

\* The client's colour, read from who is white.
LEMMA ColorOfWhite ==
  ASSUME NEW c \in Color
  PROVE  ClientColor(White("CLIENT", c)) = c
BY DEF ClientColor, White, Color, Other

\* The server's file in this state and in the next.
FileKept == /\ ServerRecord \in Seq(Moves) /\ ServerRecord' \in Seq(Moves)
            /\ IsPrefix(ServerRecord, ServerRecord')

LEMMA FileOnlyGrows ==
  ASSUME OpenInv, OpenInv', [Next]_vars
  PROVE  FileKept
<1>1. ServerRecord \in Seq(Moves)
  <2>1. snap["SERVER"] # NoSnapshot => snap["SERVER"].hist \in Seq(Moves)
    BY SnapshotFields DEF OpenInv, ColourInv, BaseInv, Peer
  <2> QED
    BY <2>1 DEF ServerRecord
<1>2. ServerRecord' \in Seq(Moves)
  <2>1. snap'["SERVER"] \in {NoSnapshot} \cup Snapshot
    BY DEF OpenInv, ColourInv, BaseInv, BoardTypes, Peer
  <2>2. snap'["SERVER"] # NoSnapshot => snap'["SERVER"].hist \in Seq(Moves)
    BY <2>1 DEF Snapshot
  <2> QED
    BY <2>2 DEF ServerRecord
<1>3. Grown(snap["SERVER"], snap'["SERVER"])
  BY NextGrown DEF OpenInv
<1>4. IsPrefix(ServerRecord, ServerRecord')
  <2>1. CASE snap["SERVER"] = NoSnapshot
    <3>1. ServerRecord = <<>>
      BY <2>1 DEF ServerRecord
    <3> QED
      BY <1>2, <3>1, PrefixEmpty
  <2>2. CASE snap["SERVER"] # NoSnapshot
    BY <1>3, <2>2 DEF Grown, ServerRecord
  <2> QED
    BY <2>1, <2>2
<1> QED
  BY <1>1, <1>2, <1>4 DEF FileKept

\* Whoever is behind stays behind.
LEMMA StillBehind ==
  ASSUME NEW h \in Seq(Moves), NEW r \in Seq(Moves), NEW t \in Seq(Moves), NEW c,
         IsPrefix(r, t)
  PROVE  /\ IsPrefix(h, r) => IsPrefix(h, t)
         /\ Behind(h, r, c) => Behind(h, t, c)
<1>1. \A f \in Seq(Moves) : IsPrefix(f, r) => IsPrefix(f, t)
  BY PrefixTrans
<1> QED
  BY <1>1 DEF Behind, Ahead

\* The game the client will show is one game.
LEMMA ShownOnce ==
  ASSUME NEW h, NEW k, Shows(h), Shows(k)
  PROVE  h = k
BY DEF Shows, Has

\* What the client has not read cannot be of a game if it is not in one.
LEMMA NoGameMail ==
  ASSUME Begins, ~session["CLIENT"].started
  PROVE  /\ \A t \in Game : ~Has("CLIENT", t)
         /\ \A m \in Unread("CLIENT") : m.type \notin Game
BY DEF Begins, Acks, Has, Game

\* A queue without packets of the game.
LEMMA NothingFirst ==
  ASSUME NEW s \in Seq(Packet), \A m \in Range(s) : m.type \notin Game
  PROVE  SnapshotFirst(s)
<1>1. \A j \in 1..Len(s) : s[j] \in Range(s)
  BY LenProperties DEF Range
<1> QED
  BY <1>1 DEF SnapshotFirst, Only, Before, Game

-----------------------------------------------------------------------------
(* Steps that leave a game in step *)

\* A packet written, or read, that is not of the game.
LEMMA QuietSent ==
  ASSUME Net, NEW p \in Peer, NEW m \in Packet, inbox' = Reached(p, inbox, m),
         m.type \notin Game
  PROVE  /\ Same("CLIENT", Game) /\ Same("SERVER", Game)
         /\ SnapshotFirst(inbox["CLIENT"]) => SnapshotFirst(inbox'["CLIENT"])
         /\ Only(inbox["SERVER"], "MOVE") => Only(inbox'["SERVER"], "MOVE")
<1>1. /\ inbox'[p] = inbox[p] /\ inbox[Other(p)] \in Seq(Packet)
      /\ inbox'[Other(p)] \in {inbox[Other(p)], Append(inbox[Other(p)], m)}
  <2>1. inbox \in [Peer -> Seq(Packet)] /\ inbox[Other(p)] \in Seq(Packet)
    BY Ends DEF Net
  <2> QED
    BY <2>1, Delivered
<1>2. Range(Append(inbox[Other(p)], m)) = Range(inbox[Other(p)]) \cup {m}
  BY <1>1, QueueWritten
<1>3. Same(p, Game) /\ Same(Other(p), Game)
  BY <1>1, <1>2 DEF Same, Unread
<1>4. /\ SnapshotFirst(inbox[Other(p)]) => SnapshotFirst(Append(inbox[Other(p)], m))
      /\ Only(inbox[Other(p)], "MOVE") => Only(Append(inbox[Other(p)], m), "MOVE")
  BY <1>1, QueueWritten DEF SnapshotFirst, Game
<1>5. {p, Other(p)} = {"CLIENT", "SERVER"}
  BY DEF Peer, Other
<1> QED
  BY <1>1, <1>3, <1>4, <1>5

LEMMA QuietRead ==
  ASSUME Net, NEW p \in Peer, NEW t, Receive(p, t), Consume(p), t \notin Game
  PROVE  /\ Same("CLIENT", Game) /\ Same("SERVER", Game)
         /\ SnapshotFirst(inbox["CLIENT"]) => SnapshotFirst(inbox'["CLIENT"])
         /\ Only(inbox["SERVER"], "MOVE") => Only(inbox'["SERVER"], "MOVE")
<1>1. /\ inbox'[p] = Tail(inbox[p]) /\ inbox'[Other(p)] = inbox[Other(p)]
      /\ inbox[p] # <<>> /\ inbox[p] \in Seq(Packet) /\ Head(inbox[p]).type = t
  BY Received DEF Consume, Net
<1>2. Range(inbox[p]) = {Head(inbox[p])} \cup Range(Tail(inbox[p]))
  BY <1>1, QueueRead
<1>3. Same(p, Game) /\ Same(Other(p), Game)
  BY <1>1, <1>2 DEF Same, Unread
<1>4. /\ SnapshotFirst(inbox[p]) => SnapshotFirst(Tail(inbox[p]))
      /\ Only(inbox[p], "MOVE") => Only(Tail(inbox[p]), "MOVE")
  BY <1>1, QueueRead DEF SnapshotFirst
<1>5. {p, Other(p)} = {"CLIENT", "SERVER"}
  BY DEF Peer, Other
<1> QED
  BY <1>1, <1>3, <1>4, <1>5

\* Without a connection there is nothing to be in step with.
LEMMA UnlinkedInStep ==
  ASSUME ~Linked'
  PROVE  InStep'
BY DEF InStep, Resuming, OneMove, OneEnd, InSync, Joined

\* The files of the two, where the client writes nothing or its own game, ended.
LEMMA FileStillBehind ==
  ASSUME SyncInv, FileKept,
         \/ snap'["CLIENT"] = snap["CLIENT"]
         \/ /\ session["CLIENT"].started /\ snap'["CLIENT"].hist = hist["CLIENT"]
            /\ snap'["CLIENT"].over
            /\ snap'["CLIENT"].white = White("CLIENT", session["CLIENT"].color)
  PROVE  FileBehind'
<1>1. CASE snap'["CLIENT"] = snap["CLIENT"]
  <2> DEFINE h == snap["CLIENT"].hist
             c == ClientColor(snap["CLIENT"].white)
  <2> SUFFICES ASSUME snap["CLIENT"] # NoSnapshot
               PROVE  /\ Behind(h, ServerRecord', c)
                      /\ snap["CLIENT"].over \/ IsPrefix(h, ServerRecord')
    BY <1>1 DEF FileBehind
  <2>1. h \in Seq(Moves)
    BY SnapshotFields DEF SyncInv, OpenInv, ColourInv, BaseInv, Peer
  <2>2. Behind(h, ServerRecord, c) /\ (snap["CLIENT"].over \/ IsPrefix(h, ServerRecord))
    BY DEF SyncInv, Sync, Trailing, FileBehind
  <2> HIDE DEF h, c
  <2>3. Behind(h, ServerRecord', c) /\ (IsPrefix(h, ServerRecord) => IsPrefix(h, ServerRecord'))
    BY <2>1, <2>2, StillBehind DEF FileKept
  <2> QED
    BY <2>2, <2>3
<1>2. CASE /\ session["CLIENT"].started /\ snap'["CLIENT"].hist = hist["CLIENT"]
           /\ snap'["CLIENT"].over
           /\ snap'["CLIENT"].white = White("CLIENT", session["CLIENT"].color)
  <2>1. session["CLIENT"].color \in Color
    BY <1>2 DEF SyncInv, OpenInv, ColourInv, Colours, Agreed, Peer
  <2>2. ClientColor(snap'["CLIENT"].white) = session["CLIENT"].color
    BY <1>2, <2>1, ColorOfWhite
  <2>3. Behind(hist["CLIENT"], ServerRecord, session["CLIENT"].color)
    BY <1>2 DEF SyncInv, Sync, Trailing, ClientBehind
  <2>4. hist["CLIENT"] \in Seq(Moves)
    BY DEF SyncInv, OpenInv, ColourInv, BaseInv, BoardTypes, Peer
  <2>5. Behind(hist["CLIENT"], ServerRecord', session["CLIENT"].color)
    BY <2>3, <2>4, StillBehind DEF FileKept
  <2> QED
    BY <1>2, <2>2, <2>5 DEF FileBehind
<1> QED
  BY <1>1, <1>2

\* The client is not in a game.
LEMMA SyncStopped ==
  ASSUME SyncInv, OpenInv', FileKept, ~session'["CLIENT"].started,
         snap'["CLIENT"] = snap["CLIENT"]
  PROVE  Sync'
<1>1. \A m \in Unread("CLIENT")' : m.type \notin Game
  BY DEF OpenInv, Begins, Acks, Has, Game
<1>2. inbox'["CLIENT"] \in Seq(Packet)
  BY DEF OpenInv, ColourInv, BaseInv, Net, Peer
<1>3. SnapshotFirst(inbox'["CLIENT"])
  BY <1>1, <1>2, NothingFirst DEF Unread
<1>4. FileBehind'
  BY FileStillBehind
<1>5. ClientBehind' /\ Snapshots' /\ MovesIn'
  BY <1>1 DEF ClientBehind, Snapshots, MovesIn, Game
<1>6. InStep'
  BY DEF InStep, Resuming, OneMove, OneEnd, InSync, Joined
<1> QED
  BY <1>3, <1>4, <1>5, <1>6 DEF Sync, Trailing

\* The client keeps the moves on its board, and what it has not read of the game.
LEMMA StillTrailing ==
  ASSUME SyncInv, OpenInv', FileKept,
         session'["CLIENT"].started =>
           session["CLIENT"].started /\ session'["CLIENT"].color = session["CLIENT"].color,
         hist'["CLIENT"] = hist["CLIENT"], over["CLIENT"] => over'["CLIENT"],
         \/ snap'["CLIENT"] = snap["CLIENT"]
         \/ /\ session["CLIENT"].started /\ snap'["CLIENT"].hist = hist["CLIENT"]
            /\ snap'["CLIENT"].over
            /\ snap'["CLIENT"].white = White("CLIENT", session["CLIENT"].color),
         Unread("CLIENT")' = {} \/ Same("CLIENT", {"STATE_SNAPSHOT", "MOVE"}),
         SnapshotFirst(inbox'["CLIENT"])
  PROVE  Trailing'
<1>1. FileBehind'
  BY FileStillBehind
<1>2. hist["CLIENT"] \in Seq(Moves) /\ over["CLIENT"] \in BOOLEAN
  BY DEF SyncInv, OpenInv, ColourInv, BaseInv, BoardTypes, Peer
<1>3. ClientBehind'
  <2>1. session["CLIENT"].started =>
          Behind(hist["CLIENT"], ServerRecord', session["CLIENT"].color)
    BY <1>2, StillBehind DEF FileKept, SyncInv, Sync, Trailing, ClientBehind
  <2> QED
    BY <2>1 DEF ClientBehind
<1>4. CASE Unread("CLIENT")' = {}
  BY <1>1, <1>3, <1>4 DEF Trailing, Snapshots, MovesIn
<1>5. CASE Same("CLIENT", {"STATE_SNAPSHOT", "MOVE"})
  <2>1. \A m \in Unread("CLIENT")' : m.type \in {"STATE_SNAPSHOT", "MOVE"} =>
          m \in Unread("CLIENT") /\ session'["CLIENT"].started
    <3>1. \A m \in Unread("CLIENT")' : m.type \in {"STATE_SNAPSHOT", "MOVE"} =>
            session'["CLIENT"].started
      BY DEF OpenInv, Begins, Acks, Has
    <3> QED
      BY <1>5, <3>1 DEF Same
  <2>2. Has("CLIENT", "STATE_SNAPSHOT")' <=> Has("CLIENT", "STATE_SNAPSHOT")
    BY <1>5 DEF Same, Has
  <2>3. \A h : Shows(h) => Shows(h)'
    BY <1>5, <2>2 DEF Shows, Same
  <2>4. Snapshots'
    <3> SUFFICES ASSUME NEW m \in Unread("CLIENT")', m.type = "STATE_SNAPSHOT"
                 PROVE  IsPrefix(m.hist, ServerRecord') /\
                          (over'["CLIENT"] \/ IsPrefix(hist'["CLIENT"], m.hist))
      BY DEF Snapshots
    <3>1. m \in Unread("CLIENT") /\ IsPrefix(m.hist, ServerRecord)
          /\ (over["CLIENT"] \/ IsPrefix(hist["CLIENT"], m.hist))
      BY <2>1 DEF SyncInv, Sync, Trailing, Snapshots
    <3>2. m.hist \in Seq(Moves)
      <4>1. m \in Packet
        BY <3>1 DEF Unread, Range, SyncInv, OpenInv, ColourInv, BaseInv, Net, Peer
      <4> QED
        BY <4>1, Payloads
    <3>3. IsPrefix(m.hist, ServerRecord')
      BY <3>1, <3>2, StillBehind DEF FileKept
    <3> QED
      BY <3>1, <3>3
  <2>5. MovesIn'
    <3> SUFFICES ASSUME NEW m \in Unread("CLIENT")', m.type = "MOVE"
                 PROVE  \E h \in Seq(Moves) :
                          /\ Shows(h)' /\ IsPrefix(Append(h, m.move), ServerRecord')
                          /\ SideToMove(h) = Opposite(session'["CLIENT"].color)
      BY DEF MovesIn
    <3>1. m \in Unread("CLIENT") /\ session'["CLIENT"].color = session["CLIENT"].color
      BY <2>1
    <3>2. PICK h \in Seq(Moves) :
            /\ Shows(h) /\ IsPrefix(Append(h, m.move), ServerRecord)
            /\ SideToMove(h) = Opposite(session["CLIENT"].color)
      BY <3>1 DEF SyncInv, Sync, Trailing, MovesIn
    <3>3. m.move \in Moves
      <4>1. m \in Packet
        BY <3>1 DEF Unread, Range, SyncInv, OpenInv, ColourInv, BaseInv, Net, Peer
      <4> QED
        BY <4>1, Payloads
    <3>4. Append(h, m.move) \in Seq(Moves)
      BY <3>3
    <3>5. IsPrefix(Append(h, m.move), ServerRecord')
      <4> DEFINE a == Append(h, m.move)
      <4> HIDE DEF a
      <4>1. a \in Seq(Moves) /\ IsPrefix(a, ServerRecord)
        BY <3>2, <3>4 DEF a
      <4>2. IsPrefix(a, ServerRecord')
        BY <4>1, StillBehind DEF FileKept
      <4> QED
        BY <4>2 DEF a
    <3> QED
      BY <2>3, <3>1, <3>2, <3>5
  <2> QED
    BY <1>1, <1>3, <2>4, <2>5 DEF Trailing
<1> QED
  BY <1>4, <1>5

\* Of the mail of the game, the same is there.
LEMMA SameMail ==
  ASSUME NEW T, NEW p \in Peer, Same(p, T)
  PROVE  \A t \in T : Has(p, t)' <=> Has(p, t)
BY DEF Same, Has

LEMMA SameShown ==
  ASSUME Same("CLIENT", {"STATE_SNAPSHOT", "MOVE"}), hist'["CLIENT"] = hist["CLIENT"]
  PROVE  \A h : Shows(h)' <=> Shows(h)
<1>1. Has("CLIENT", "STATE_SNAPSHOT")' <=> Has("CLIENT", "STATE_SNAPSHOT")
  BY SameMail DEF Peer
<1> QED
  BY <1>1 DEF Same, Shows

\* The moves under way, and the record, are as they were.
LEMMA OneMoveKept ==
  ASSUME SyncInv, ServerRecord' = ServerRecord, InSync' => InSync,
         session'["CLIENT"].color = session["CLIENT"].color \/ ~InSync',
         hist'["CLIENT"] = hist["CLIENT"],
         Same("CLIENT", {"STATE_SNAPSHOT", "MOVE"}), Same("SERVER", {"MOVE"}),
         Only(inbox["SERVER"], "MOVE") => Only(inbox'["SERVER"], "MOVE")
  PROVE  OneMove'
<1> SUFFICES ASSUME InSync' PROVE OneMove'
  BY DEF OneMove
<1>1. /\ InSync /\ session'["CLIENT"].color = session["CLIENT"].color
  OBVIOUS
<1>2. OneMove
  BY DEF SyncInv, Sync, InStep
<1>3. /\ \A t \in {"STATE_SNAPSHOT", "MOVE"} : Has("CLIENT", t)' <=> Has("CLIENT", t)
      /\ \A t \in {"MOVE"} : Has("SERVER", t)' <=> Has("SERVER", t)
  BY SameMail DEF Peer
<1>4. \A h : Shows(h)' <=> Shows(h)
  BY SameShown
<1>5. ASSUME NEW m \in Unread("CLIENT")', m.type = "MOVE"
      PROVE  /\ ~Has("SERVER", "MOVE")'
             /\ \E h \in Seq(Moves) : /\ Shows(h)' /\ ServerRecord' = Append(h, m.move)
                                      /\ Legal(h, m.move)
  <2>1. m \in Unread("CLIENT")
    BY <1>5 DEF Same
  <2>2. ~Has("SERVER", "MOVE")
    BY <1>1, <1>2, <1>5, <2>1 DEF OneMove
  <2>3. PICK h \in Seq(Moves) : /\ Shows(h) /\ ServerRecord = Append(h, m.move)
                                /\ Legal(h, m.move)
    BY <1>1, <1>2, <1>5, <2>1 DEF OneMove
  <2> QED
    BY <1>3, <1>4, <2>2, <2>3
<1>6. ASSUME NEW m \in Unread("SERVER")', m.type = "MOVE"
      PROVE  /\ ~Has("CLIENT", "STATE_SNAPSHOT")' /\ ~Has("CLIENT", "MOVE")'
             /\ hist'["CLIENT"] = Append(ServerRecord', m.move) /\ Legal(ServerRecord', m.move)
             /\ SideToMove(ServerRecord') = session'["CLIENT"].color
  <2>1. m \in Unread("SERVER")
    BY <1>6 DEF Same
  <2>2. /\ ~Has("CLIENT", "STATE_SNAPSHOT") /\ ~Has("CLIENT", "MOVE")
        /\ hist["CLIENT"] = Append(ServerRecord, m.move) /\ Legal(ServerRecord, m.move)
        /\ SideToMove(ServerRecord) = session["CLIENT"].color
    BY <1>1, <1>2, <1>6, <2>1 DEF OneMove
  <2> QED
    BY <1>1, <1>3, <2>2
<1>7. Only(inbox'["SERVER"], "MOVE")
  BY <1>1, <1>2 DEF OneMove
<1>8. ~Has("CLIENT", "MOVE")' /\ ~Has("SERVER", "MOVE")' => Shows(ServerRecord)'
  <2> SUFFICES ASSUME Shows(ServerRecord) PROVE Shows(ServerRecord)'
    BY <1>1, <1>2, <1>3 DEF OneMove
  <2>1. PICK r : r = ServerRecord
    OBVIOUS
  <2>2. Shows(r)
    BY <2>1
  <2>3. Shows(r)' /\ ServerRecord' = r
    BY <1>4, <2>1, <2>2
  <2> QED
    BY <2>3 DEF Shows
<1> QED
  BY <1>5, <1>6, <1>7, <1>8 DEF OneMove

\* A resumption not sent yet is still to be sent.
LEMMA ResumingKept ==
  ASSUME SyncInv, FileKept, Joined' /\ session'["SERVER"].syncPending =>
                              Joined /\ session["SERVER"].syncPending,
         hist'["CLIENT"] = hist["CLIENT"], over["CLIENT"] => over'["CLIENT"],
         Joined' /\ session'["SERVER"].syncPending => Same("CLIENT", Game) /\ Same("SERVER", Game)
  PROVE  Resuming'
<1> SUFFICES ASSUME Joined', session'["SERVER"].syncPending PROVE Resuming'
  BY DEF Resuming
<1>1. /\ \A t \in {"STATE_SNAPSHOT", "MOVE", "RESIGN"} : ~Has("CLIENT", t) /\ ~Has("SERVER", t)
      /\ over["CLIENT"] \/ IsPrefix(hist["CLIENT"], ServerRecord)
  BY DEF SyncInv, Sync, InStep, Resuming
<1>2. \A t \in Game : (Has("CLIENT", t)' <=> Has("CLIENT", t)) /\ (Has("SERVER", t)' <=> Has("SERVER", t))
  BY SameMail DEF Peer
<1>3. hist["CLIENT"] \in Seq(Moves)
  BY DEF SyncInv, OpenInv, ColourInv, BaseInv, BoardTypes, Peer
<1>4. IsPrefix(hist["CLIENT"], ServerRecord) => IsPrefix(hist["CLIENT"], ServerRecord')
  BY <1>3, StillBehind DEF FileKept
<1> QED
  BY <1>1, <1>2, <1>4 DEF Resuming, Game

\* What both ends know of the end is the same.
LEMMA OneEndKept ==
  ASSUME SyncInv, InSync' => InSync, ServerOver' = ServerOver, over'["CLIENT"] = over["CLIENT"],
         Same("CLIENT", {"STATE_SNAPSHOT", "RESIGN"}), Same("SERVER", {"RESIGN"})
  PROVE  OneEnd'
<1>1. /\ \A t \in {"STATE_SNAPSHOT", "RESIGN"} : Has("CLIENT", t)' <=> Has("CLIENT", t)
      /\ \A t \in {"RESIGN"} : Has("SERVER", t)' <=> Has("SERVER", t)
  BY SameMail DEF Peer
<1>2. \A m : m.type = "STATE_SNAPSHOT" => (m \in Unread("CLIENT")' <=> m \in Unread("CLIENT"))
  BY DEF Same
<1>3. OneEnd
  BY DEF SyncInv, Sync, InStep
<1> QED
  BY <1>1, <1>2, <1>3 DEF OneEnd

\* A step that is not of the game.
LEMMA SyncQuiet ==
  ASSUME SyncInv, OpenInv', FileKept, ServerRecord' = ServerRecord, ServerOver' = ServerOver,
         Joined' => Joined,
         Joined' => session'["SERVER"].syncPending = session["SERVER"].syncPending,
         session'["CLIENT"].started =>
           session["CLIENT"].started /\ session'["CLIENT"].color = session["CLIENT"].color,
         hist'["CLIENT"] = hist["CLIENT"], over'["CLIENT"] = over["CLIENT"],
         snap'["CLIENT"] = snap["CLIENT"],
         Same("CLIENT", Game), Same("SERVER", Game),
         SnapshotFirst(inbox["CLIENT"]) => SnapshotFirst(inbox'["CLIENT"]),
         Only(inbox["SERVER"], "MOVE") => Only(inbox'["SERVER"], "MOVE")
  PROVE  Sync'
<1>1. /\ Same("CLIENT", {"STATE_SNAPSHOT", "MOVE"}) /\ Same("SERVER", {"MOVE"})
      /\ Same("CLIENT", {"STATE_SNAPSHOT", "RESIGN"}) /\ Same("SERVER", {"RESIGN"})
  BY DEF Same, Game
<1>2. SnapshotFirst(inbox'["CLIENT"])
  BY DEF SyncInv, Sync, Trailing
<1>3. Trailing'
  BY <1>1, <1>2, StillTrailing
<1>4. InSync' => InSync
  BY DEF InSync
<1>5. InSync' => session'["CLIENT"].color = session["CLIENT"].color
  BY DEF InSync, Joined
<1>6. OneMove'
  BY <1>1, <1>4, <1>5, OneMoveKept
<1>7. Resuming'
  BY ResumingKept
<1>8. OneEnd'
  BY <1>1, <1>4, OneEndKept
<1> QED
  BY <1>3, <1>6, <1>7, <1>8 DEF Sync, InStep

\* No packet of the game, and no ACK, is read or written.
QuietMail ==
  /\ Same("CLIENT", Game) /\ Same("SERVER", Game)
  /\ Has("SERVER", "ACK")' => Has("SERVER", "ACK")
  /\ SnapshotFirst(inbox["CLIENT"]) => SnapshotFirst(inbox'["CLIENT"])
  /\ Only(inbox["SERVER"], "MOVE") => Only(inbox'["SERVER"], "MOVE")

LEMMA SentQuiet ==
  ASSUME OpenInv, NEW p \in Peer, NEW m \in Packet, inbox' = Reached(p, inbox, m),
         m.type \in {"HELLO", "START", "RESUME_REQUEST", "RESUME_RESPONSE"}
  PROVE  QuietMail
<1>1. /\ inbox'[p] = inbox[p] /\ inbox[Other(p)] \in Seq(Packet) /\ Net
      /\ inbox'[Other(p)] \in {inbox[Other(p)], Append(inbox[Other(p)], m)}
  <2>1. inbox \in [Peer -> Seq(Packet)] /\ inbox[Other(p)] \in Seq(Packet) /\ Net
    BY Ends DEF Net, OpenInv, ColourInv, BaseInv
  <2> QED
    BY <2>1, Delivered
<1>2. Range(Append(inbox[Other(p)], m)) = Range(inbox[Other(p)]) \cup {m}
  BY <1>1, QueueWritten
<1>3. ASSUME NEW q \in Peer, NEW n \in Unread(q)', n.type = "ACK"
      PROVE  n \in Unread(q)
  <2>1. CASE q = p
    BY <1>1, <1>3, <2>1 DEF Unread
  <2>2. CASE q = Other(p)
    BY <1>1, <1>2, <1>3, <2>2 DEF Unread
  <2> QED
    BY <2>1, <2>2, Ends
<1>4. m.type \notin Game
  BY DEF Game
<1> QED
  BY <1>1, <1>3, <1>4, QuietSent DEF QuietMail, Has, Peer

LEMMA ReadQuiet ==
  ASSUME OpenInv, NEW p \in Peer, NEW t, Receive(p, t), Consume(p), t \notin Game
  PROVE  QuietMail
<1>1. \A q \in Peer : \A n \in Unread(q)' : n \in Unread(q)
  BY OpenRead
<1>2. Has("SERVER", "ACK")' => Has("SERVER", "ACK")
  BY <1>1 DEF Has, Peer
<1>3. Net
  BY DEF OpenInv, ColourInv, BaseInv
<1> QED
  BY <1>2, <1>3, QuietRead DEF QuietMail

\* One session changes, the game in it does not.
LEMMA SyncStep ==
  ASSUME SyncInv, OpenInv', FileKept, UNCHANGED <<board, snap, conn, dialing>>,
         NEW p \in Peer, NEW s, session' = [session EXCEPT ![p] = s],
         s.started = session[p].started, s.color = session[p].color,
         s.syncPending = session[p].syncPending, QuietMail
  PROVE  Sync'
<1>1. session \in [Peer -> SessionType]
  BY DEF SyncInv, OpenInv, ColourInv, BaseInv, SessionTypes
<1>2. \A q \in Peer : /\ session'[q].started = session[q].started
                      /\ session'[q].color = session[q].color
                      /\ session'[q].syncPending = session[q].syncPending
  BY <1>1
<1>3. /\ session'["CLIENT"].started = session["CLIENT"].started
      /\ session'["SERVER"].started = session["SERVER"].started
      /\ session'["CLIENT"].color = session["CLIENT"].color
      /\ session'["SERVER"].syncPending = session["SERVER"].syncPending
  BY <1>2 DEF Peer
<1>4. ServerRecord' = ServerRecord /\ ServerOver' = ServerOver
  BY <1>3 DEF ServerRecord, ServerOver, board
<1>5. Joined' => Joined
  BY <1>3 DEF Joined, Linked, QuietMail
<1> QED
  BY <1>3, <1>4, <1>5, SyncQuiet DEF QuietMail, board

\* No session changes.
LEMMA SyncSame ==
  ASSUME SyncInv, OpenInv', FileKept, UNCHANGED <<session, board, snap, conn, dialing>>,
         QuietMail
  PROVE  Sync'
<1>1. ServerRecord' = ServerRecord /\ ServerOver' = ServerOver
  BY DEF ServerRecord, ServerOver, board
<1>2. Joined' => Joined
  BY DEF Joined, Linked, QuietMail
<1> QED
  BY <1>1, <1>2, SyncQuiet DEF QuietMail, board

LEMMA MailSame ==
  ASSUME UNCHANGED inbox
  PROVE  QuietMail
BY DEF QuietMail, Same, Has, Unread

\* There is no connection, and the client still has its game.
LEMMA SyncUnlinked ==
  ASSUME SyncInv, OpenInv', FileKept, ~Linked',
         session'["CLIENT"].started =>
           session["CLIENT"].started /\ session'["CLIENT"].color = session["CLIENT"].color,
         hist'["CLIENT"] = hist["CLIENT"], over["CLIENT"] => over'["CLIENT"],
         \/ snap'["CLIENT"] = snap["CLIENT"]
         \/ /\ session["CLIENT"].started /\ snap'["CLIENT"].hist = hist["CLIENT"]
            /\ snap'["CLIENT"].over
            /\ snap'["CLIENT"].white = White("CLIENT", session["CLIENT"].color),
         \/ inbox'["CLIENT"] = <<>>
         \/ inbox'["CLIENT"] = inbox["CLIENT"]
         \/ \E m \in Packet : /\ m.type \notin {"STATE_SNAPSHOT", "MOVE"}
                              /\ inbox'["CLIENT"] = Append(inbox["CLIENT"], m)
  PROVE  Sync'
<1>1. SnapshotFirst(inbox["CLIENT"]) /\ inbox["CLIENT"] \in Seq(Packet)
  BY DEF SyncInv, Sync, Trailing, OpenInv, ColourInv, BaseInv, Net, Peer
<1>2. /\ Unread("CLIENT")' = {} \/ Same("CLIENT", {"STATE_SNAPSHOT", "MOVE"})
      /\ SnapshotFirst(inbox'["CLIENT"])
  <2>1. CASE inbox'["CLIENT"] = <<>>
    BY <2>1, NothingUnread DEF Peer
  <2>2. CASE inbox'["CLIENT"] = inbox["CLIENT"]
    BY <1>1, <2>2 DEF Same, Unread
  <2>3. ASSUME NEW m \in Packet, m.type \notin {"STATE_SNAPSHOT", "MOVE"},
               inbox'["CLIENT"] = Append(inbox["CLIENT"], m)
        PROVE  /\ Same("CLIENT", {"STATE_SNAPSHOT", "MOVE"})
               /\ SnapshotFirst(inbox'["CLIENT"])
    <3>1. Range(Append(inbox["CLIENT"], m)) = Range(inbox["CLIENT"]) \cup {m}
      BY <1>1, QueueWritten
    <3>2. Same("CLIENT", {"STATE_SNAPSHOT", "MOVE"})
      BY <2>3, <3>1 DEF Same, Unread
    <3>3. SnapshotFirst(Append(inbox["CLIENT"], m))
      BY <1>1, <2>3, QueueWritten DEF SnapshotFirst
    <3> QED
      BY <2>3, <3>2, <3>3
  <2> QED
    BY <2>1, <2>2, <2>3
<1>3. Trailing'
  BY <1>2, StillTrailing
<1> QED
  BY <1>3, UnlinkedInStep DEF Sync

\* One of the two hangs up, with its game on the board.
LEMMA SyncHungUp ==
  ASSUME SyncInv, OpenInv', FileKept, NEW p \in Peer, HangUp(p),
         NEW s, session' = [session EXCEPT ![p] = s],
         s.started => session[p].started /\ s.color = session[p].color,
         hist'["CLIENT"] = hist["CLIENT"], over["CLIENT"] => over'["CLIENT"],
         snap'["CLIENT"] = snap["CLIENT"]
  PROVE  Sync'
<1>1. /\ ~Linked' /\ inbox'[p] = <<>> /\ inbox'[Other(p)] = inbox[Other(p)]
      /\ session'[p] = s /\ session'[Other(p)] = session[Other(p)]
  BY HungUpUnlinked, Ends DEF SyncInv, OpenInv, ColourInv, BaseInv, SessionTypes
<1>2. inbox'["CLIENT"] \in {<<>>, inbox["CLIENT"]}
  BY <1>1 DEF Peer, Other
<1>3. session'["CLIENT"].started =>
        session["CLIENT"].started /\ session'["CLIENT"].color = session["CLIENT"].color
  BY <1>1 DEF Peer, Other
<1> QED
  BY <1>1, <1>2, <1>3, SyncUnlinked

LEMMA SyncDisconnect ==
  ASSUME SyncInv, OpenInv', FileKept, NEW p \in Peer, NEW ended \in BOOLEAN,
         HandlePeerDisconnect(p, ended),
         hist'["CLIENT"] = hist["CLIENT"], over["CLIENT"] => over'["CLIENT"],
         snap'["CLIENT"] = snap["CLIENT"]
  PROVE  Sync'
<1>1. PICK s : /\ session' = [session EXCEPT ![p] = s]
               /\ s.started => session[p].started /\ s.color = session[p].color
  BY DisconnectParts DEF SyncInv, OpenInv, ColourInv
<1> QED
  BY <1>1, SyncHungUp DEF HandlePeerDisconnect

-----------------------------------------------------------------------------
(* Every step keeps the two in step *)

\* The file of the server, and the beginnings, survive the step as well.
Kept == SyncInv /\ OpenInv' /\ FileKept

LEMMA SyncDiscover ==
  ASSUME Kept, NEW p \in Peer, Discover(p)
  PROVE  Sync'
<1>1. UNCHANGED <<board, snap, conn, dialing, inbox>> /\ ~session[p].started
      /\ session[p] \in SessionType
  BY DEF Discover, net, disk, Kept, SyncInv, OpenInv, ColourInv, BaseInv, SessionTypes
<1>2. CASE UNCHANGED session
  BY <1>1, <1>2, MailSame, SyncSame DEF Kept
<1>3. CASE session' = [session EXCEPT ![p] = [SetRemote(@) EXCEPT !.role = "CLIENT"]]
  <2> DEFINE s == [SetRemote(session[p]) EXCEPT !.role = "CLIENT"]
  <2>1. session' = [session EXCEPT ![p] = s]
    BY <1>3
  <2>2. /\ s.started = session[p].started /\ s.color = session[p].color
        /\ s.syncPending = session[p].syncPending
    BY <1>1 DEF SetRemote, SessionType
  <2> HIDE DEF s
  <2> QED
    BY <1>1, <2>1, <2>2, MailSame, SyncStep DEF Kept
<1> QED
  BY <1>2, <1>3 DEF Discover

LEMMA SyncFinalizeConnect ==
  ASSUME Kept, NEW p \in Peer, FinalizeConnect(p)
  PROVE  Sync'
<1>1. /\ UNCHANGED <<board, snap>>
      /\ session[p] \in SessionType /\ session \in [Peer -> SessionType]
  BY DEF FinalizeConnect, disk, Kept, SyncInv, OpenInv, ColourInv, BaseInv, SessionTypes
<1>2. CASE session' = [session EXCEPT ![p].connected = TRUE] /\ UNCHANGED net
  <2> DEFINE s == [session[p] EXCEPT !.connected = TRUE]
  <2>1. session' = [session EXCEPT ![p] = s] /\ UNCHANGED <<conn, dialing, inbox>>
    BY <1>2 DEF net
  <2>2. /\ s.started = session[p].started /\ s.color = session[p].color
        /\ s.syncPending = session[p].syncPending
    BY <1>1 DEF SessionType
  <2> HIDE DEF s
  <2> QED
    BY <1>1, <2>1, <2>2, MailSame, SyncStep DEF Kept
<1>3. CASE HangUp(p) /\ UNCHANGED session
  <2> DEFINE s == session[p]
  <2>1. session' = [session EXCEPT ![p] = s]
    BY <1>1, <1>3
  <2>2. s.started => session[p].started /\ s.color = session[p].color
    OBVIOUS
  <2> HIDE DEF s
  <2>3. hist'["CLIENT"] = hist["CLIENT"] /\ over'["CLIENT"] = over["CLIENT"]
        /\ snap'["CLIENT"] = snap["CLIENT"]
    BY <1>1 DEF board
  <2> QED
    BY <1>3, <2>1, <2>2, <2>3, SyncHungUp DEF Kept
<1> QED
  BY <1>2, <1>3 DEF FinalizeConnect

LEMMA SyncHello ==
  ASSUME Kept, NEW p \in Peer, AdvanceHelloClient(p) \/ AdvanceHelloServer(p)
  PROVE  Sync'
<1>1. /\ UNCHANGED <<board, snap, conn, dialing>> /\ session[p] \in SessionType
      /\ inbox' = inbox \/ inbox' = Reached(p, inbox, Bare("HELLO"))
  BY DEF AdvanceHelloClient, AdvanceHelloServer, disk, net, Send, Kept, SyncInv, OpenInv,
         ColourInv, BaseInv, SessionTypes
<1>2. QuietMail
  <2>1. Bare("HELLO") \in Packet /\ Bare("HELLO").type = "HELLO"
    BY DEF Bare, Packet
  <2> QED
    BY <1>1, <2>1, SentQuiet, MailSame DEF Kept, SyncInv
<1>3. PICK s : /\ session' = [session EXCEPT ![p] = s]
               /\ s.started = session[p].started /\ s.color = session[p].color
               /\ s.syncPending = session[p].syncPending
  <2>1. CASE AdvanceHelloClient(p)
    <3> DEFINE r == [session[p] EXCEPT !.helloSent = TRUE]
               a == [r EXCEPT !.hello = TRUE, !.phase = "AUTHENTICATED"]
               s == IF session[p].helloReceived THEN a ELSE r
    <3>1. session' = [session EXCEPT ![p] = s]
      BY <2>1 DEF AdvanceHelloClient, Authenticated
    <3>2. /\ s.started = session[p].started /\ s.color = session[p].color
          /\ s.syncPending = session[p].syncPending
      BY <1>1 DEF SessionType
    <3> HIDE DEF s
    <3> QED
      BY <3>1, <3>2
  <2>2. CASE AdvanceHelloServer(p)
    <3> DEFINE r == [session[p] EXCEPT !.role = "SERVER"]
               h == [session[p] EXCEPT !.role = "SERVER", !.helloSent = TRUE]
               a == [h EXCEPT !.hello = TRUE, !.phase = "AUTHENTICATED"]
               s == IF session[p].helloReceived THEN a ELSE r
    <3>1. session' = [session EXCEPT ![p] = s]
      BY <2>2 DEF AdvanceHelloServer, Authenticated
    <3>2. /\ s.started = session[p].started /\ s.color = session[p].color
          /\ s.syncPending = session[p].syncPending
      BY <1>1 DEF SessionType
    <3> HIDE DEF s
    <3> QED
      BY <3>1, <3>2
  <2> QED
    BY <2>1, <2>2
<1> QED
  BY <1>1, <1>2, <1>3, SyncStep DEF Kept

\* RESUME_REQUEST, START, the retry of it, and the reading of HELLO.
LEMMA SyncFlags ==
  ASSUME Kept, NEW p \in Peer,
         SendResumeRequest(p) \/ SendStart(p) \/ RetryStart(p) \/ HandleHello(p)
  PROVE  Sync'
<1>1. /\ UNCHANGED <<board, snap, conn, dialing>> /\ session[p] \in SessionType /\ OpenInv
  BY DEF SendResumeRequest, SendStart, RetryStart, HandleHello, Send, Consume, net, disk,
         Kept, SyncInv, OpenInv, ColourInv, BaseInv, SessionTypes
<1>2. QuietMail
  <2>1. CASE SendResumeRequest(p)
    <3>1. Bare("RESUME_REQUEST") \in Packet /\ Bare("RESUME_REQUEST").type = "RESUME_REQUEST"
      BY DEF Bare, Packet
    <3> QED
      BY <1>1, <2>1, <3>1, SentQuiet DEF SendResumeRequest, Send
  <2>2. CASE SendStart(p)
    <3>1. PICK c \in IF pend[p].set THEN {pend[p].color} ELSE Color : Send(p, StartMsg(c))
      BY <2>2 DEF SendStart
    <3>2. c \in {"UNASSIGNED"} \cup Color
      BY <1>1 DEF OpenInv, ColourInv, BaseInv, SessionTypes, Pending
    <3>3. StartMsg(c) \in Packet /\ StartMsg(c).type = "START"
      BY <3>2 DEF StartMsg, Packet
    <3> QED
      BY <1>1, <3>1, <3>3, SentQuiet DEF Send
  <2>3. CASE RetryStart(p)
    BY <2>3, MailSame DEF RetryStart, net
  <2>4. CASE HandleHello(p)
    <3>1. "HELLO" \notin Game
      BY DEF Game
    <3> QED
      BY <1>1, <2>4, <3>1, ReadQuiet DEF HandleHello
  <2> QED
    BY <2>1, <2>2, <2>3, <2>4
<1>3. PICK s : /\ session' = [session EXCEPT ![p] = s]
               /\ s.started = session[p].started /\ s.color = session[p].color
               /\ s.syncPending = session[p].syncPending
  <2> DEFINE a == [session[p] EXCEPT !.resumeSent = TRUE]
             b == [session[p] EXCEPT !.startSent = TRUE]
             c == [session[p] EXCEPT !.startSent = FALSE]
             d == [session[p] EXCEPT !.helloReceived = TRUE, !.available = TRUE]
  <2>1. \E s \in {a, b, c, d} : session' = [session EXCEPT ![p] = s]
    BY DEF SendResumeRequest, SendStart, RetryStart, HandleHello
  <2>2. \A s \in {a, b, c, d} : /\ s.started = session[p].started
                                /\ s.color = session[p].color
                                /\ s.syncPending = session[p].syncPending
    BY <1>1 DEF SessionType
  <2> HIDE DEF a, b, c, d
  <2> QED
    BY <2>1, <2>2
<1> QED
  BY <1>1, <1>2, <1>3, SyncStep DEF Kept

\* A packet that is not of the game is ignored, or changes no board.
LEMMA SyncIgnored ==
  ASSUME Kept, NEW p \in Peer, NEW t, Receive(p, t), Consume(p), t \notin Game,
         UNCHANGED <<session, board, snap>>
  PROVE  Sync'
<1>1. QuietMail
  BY ReadQuiet DEF Kept, SyncInv
<1> QED
  BY <1>1, SyncSame DEF Kept, Consume

LEMMA SyncResumeResponse ==
  ASSUME Kept, NEW p \in Peer, HandleResumeResponse(p)
  PROVE  Sync'
<1>1. "RESUME_RESPONSE" \notin Game
  BY DEF Game
<1> QED
  BY <1>1, SyncIgnored DEF HandleResumeResponse

\* The server begins, from the file that counted for it before.
LEMMA SyncHandleAck ==
  ASSUME Kept, NEW p \in Peer, HandleAck(p)
  PROVE  Sync'
<1> DEFINE c == Opposite(pend[p].color)
           s == StartGame(session[p], c)
           b == LoadMatch(p)
<1>1. Receive(p, "ACK") /\ Consume(p) /\ "ACK" \notin Game
  BY DEF HandleAck, Game
<1>2. CASE UNCHANGED <<session, board, snap>>
  BY <1>1, <1>2, SyncIgnored
<1>3. CASE /\ session[p].role = "SERVER" /\ ~session[p].startDone
           /\ session' = [session EXCEPT ![p] = s]
           /\ hist' = [hist EXCEPT ![p] = b.hist] /\ over' = [over EXCEPT ![p] = b.over]
           /\ snap' = [snap EXCEPT ![p] = Record(p, c, b.hist, b.over)]
  <2>1. /\ p = "SERVER" /\ session[p] \in SessionType /\ ~session["SERVER"].started
    BY <1>3 DEF Kept, SyncInv, OpenInv, ColourInv, BaseInv, SessionTypes, Locals, LocalTo, Peer
  <2>2. s.syncPending = session[p].syncPending /\ s.started
    BY <2>1, StartGameFields
  <2> HIDE DEF s, c
  <2>3. /\ session'["SERVER"] = s /\ session'["CLIENT"] = session["CLIENT"]
    BY <1>3, <2>1 DEF Kept, SyncInv, OpenInv, ColourInv, BaseInv, SessionTypes, Peer
  <2>4. QuietMail /\ UNCHANGED <<conn, dialing>>
    BY <1>1, ReadQuiet DEF Kept, SyncInv, Consume
  <2>5. Joined' => Joined
    <3>1. Has("SERVER", "ACK")
      BY <1>1, <2>1, HeadUnread DEF Kept, SyncInv, OpenInv, ColourInv, BaseInv
    <3> QED
      BY <2>3, <2>4, <3>1 DEF Joined, Linked
  <2>6. BoardTypes
    BY DEF Kept, SyncInv, OpenInv, ColourInv, BaseInv
  <2>7. /\ b.hist \in Seq(Moves) /\ b.over \in BOOLEAN
        /\ snap["SERVER"] = NoSnapshot => b.hist = <<>> /\ b.over = FALSE
        /\ snap["SERVER"] # NoSnapshot => b.hist = snap["SERVER"].hist
                                            /\ b.over = snap["SERVER"].over
    BY <2>1, <2>6, SnapshotFields
  <2> HIDE DEF b
  <2>8. /\ snap'["SERVER"] = Record(p, c, b.hist, b.over) /\ snap'["SERVER"] # NoSnapshot
        /\ snap'["SERVER"].hist = b.hist
        /\ over'["SERVER"] = b.over
    <3>1. /\ Record(p, c, b.hist, b.over) # NoSnapshot
          /\ Record(p, c, b.hist, b.over).hist = b.hist
      <4> DEFINE h == b.hist
                 o == b.over
      <4>1. h \in Seq(Moves) /\ o \in BOOLEAN
        BY <2>7
      <4> HIDE DEF h, o, c
      <4>2. Record(p, c, h, o) # NoSnapshot /\ Record(p, c, h, o).hist = h
        BY <4>1, RecordType
      <4> QED
        BY <4>2 DEF h, o
    <3> QED
      BY <1>3, <2>1, <2>6, <3>1 DEF BoardTypes
  <2>9. ServerRecord' = ServerRecord
    BY <2>7, <2>8 DEF ServerRecord
  <2>10. ServerOver' = ServerOver
    BY <2>1, <2>2, <2>3, <2>7, <2>8 DEF ServerOver
  <2>11. hist'["CLIENT"] = hist["CLIENT"] /\ over'["CLIENT"] = over["CLIENT"]
         /\ snap'["CLIENT"] = snap["CLIENT"]
    BY <1>3, <2>1, <2>6 DEF BoardTypes, Peer
  <2> QED
    BY <2>1, <2>2, <2>3, <2>4, <2>5, <2>9, <2>10, <2>11, SyncQuiet DEF Kept, QuietMail
<1> QED
  BY <1>2, <1>3 DEF HandleAck, LoadedByAck

\* A connection is only dialed, and accepted, by programs that are in no game.
LEMMA SyncConnect ==
  ASSUME Kept, NEW p \in Peer, Dial(p) \/ Accept(p)
  PROVE  Sync'
<1>1. UNCHANGED <<session, snap>>
  BY DEF Dial, Accept, disk
<1>2. ~session["CLIENT"].started
  BY DEF Dial, Redialing, Accept, Kept, SyncInv, OpenInv, ColourInv, BaseInv, Locals, LocalTo,
         Net, Peer, Other
<1> QED
  BY <1>1, <1>2, SyncStopped DEF Kept

LEMMA SyncBreak ==
  ASSUME Kept, Break
  PROVE  Sync'
<1>1. /\ conn' = [q \in Peer |-> IF conn[q] = "live" THEN "dead" ELSE conn[q]]
      /\ UNCHANGED <<session, inbox, board, snap>>
  BY DEF Break, disk
<1>2. ~Linked'
  BY <1>1 DEF Linked, Peer
<1> QED
  BY <1>1, <1>2, SyncUnlinked DEF Kept, board

LEMMA SyncRestart ==
  ASSUME Kept, NEW p \in Peer, Restart(p)
  PROVE  Sync'
<1>1. conn[p] = "none" /\ UNCHANGED <<session, inbox, conn, dialing, board, snap>>
  BY DEF Restart, net, disk, Kept, SyncInv, OpenInv, ColourInv, BaseInv, Locals
<1>2. ~Linked
  BY <1>1 DEF Linked, Kept, SyncInv, OpenInv, ColourInv, BaseInv, Net, Peer, Other
<1>3. ~Linked'
  BY <1>1, <1>2 DEF Linked
<1> QED
  BY <1>1, <1>3, SyncUnlinked DEF Kept, board

LEMMA SyncCrash ==
  ASSUME Kept, NEW p \in Peer, Crash(p)
  PROVE  Sync'
<1>1. /\ conn' = [q \in Peer |-> IF q = p THEN "none"
                                 ELSE IF conn[q] = "live" THEN "dead" ELSE conn[q]]
      /\ session' = [session EXCEPT ![p] = NewSession] /\ UNCHANGED snap
      /\ hist' = [hist EXCEPT ![p] = <<>>] /\ over' = [over EXCEPT ![p] = FALSE]
  BY DEF Crash, disk
<1>2. CASE p = "CLIENT"
  <2>1. ~session'["CLIENT"].started
    BY <1>1, <1>2 DEF NewSession, Kept, SyncInv, OpenInv, ColourInv, BaseInv, SessionTypes
  <2> QED
    BY <1>1, <2>1, SyncStopped DEF Kept
<1>3. CASE p = "SERVER"
  <2>1. ~Linked'
    BY <1>1 DEF Linked, Peer
  <2>2. /\ session'["CLIENT"] = session["CLIENT"] /\ hist'["CLIENT"] = hist["CLIENT"]
        /\ over'["CLIENT"] = over["CLIENT"] /\ snap'["CLIENT"] = snap["CLIENT"]
    BY <1>1, <1>3 DEF Kept, SyncInv, OpenInv, ColourInv, BaseInv, SessionTypes, BoardTypes, Peer
  <2>3. Net /\ inbox \in [Peer -> Seq(Packet)] /\ "CLIENT" = Other(p) /\ "CLIENT" # p
    BY <1>3 DEF Kept, SyncInv, OpenInv, ColourInv, BaseInv, Net, Other
  <2>4. ASSUME NEW m \in Packet, inbox' = [Reached(p, inbox, m) EXCEPT ![p] = <<>>]
        PROVE  inbox'["CLIENT"] \in {inbox["CLIENT"], Append(inbox["CLIENT"], m)}
    <3>1. /\ Reached(p, inbox, m) \in [Peer -> Seq(Packet)]
          /\ Reached(p, inbox, m)["CLIENT"] \in {inbox["CLIENT"], Append(inbox["CLIENT"], m)}
      <4>1. /\ Reached(p, inbox, m) \in [Peer -> Seq(Packet)]
            /\ \/ Reached(p, inbox, m)[Other(p)] = Append(inbox[Other(p)], m)
               \/ Reached(p, inbox, m)[Other(p)] = inbox[Other(p)]
        BY <2>3, ReachedBox
      <4>2. Other(p) = "CLIENT"
        BY <2>3
      <4> QED
        BY <4>1, <4>2
    <3>2. inbox'["CLIENT"] = Reached(p, inbox, m)["CLIENT"]
      BY <2>3, <2>4, <3>1 DEF Peer
    <3> QED
      BY <3>1, <3>2
  <2>5. \/ inbox'["CLIENT"] = inbox["CLIENT"]
        \/ \E m \in Packet : /\ m.type \notin {"STATE_SNAPSHOT", "MOVE"}
                             /\ inbox'["CLIENT"] = Append(inbox["CLIENT"], m)
    <3>1. Bare("ACK") \in Packet /\ Bare("RESIGN") \in Packet
          /\ Bare("ACK").type = "ACK" /\ Bare("RESIGN").type = "RESIGN"
      BY DEF Bare, Packet
    <3>2. CASE inbox' = [inbox EXCEPT ![p] = <<>>]
      BY <2>3, <3>2 DEF Peer
    <3>3. CASE inbox' = [Reached(p, inbox, Bare("ACK")) EXCEPT ![p] = <<>>]
      BY <2>4, <3>1, <3>3
    <3>4. CASE inbox' = [Reached(p, inbox, Bare("RESIGN")) EXCEPT ![p] = <<>>]
      BY <2>4, <3>1, <3>4
    <3> QED
      BY <3>2, <3>3, <3>4 DEF Crash
  <2> QED
    BY <2>1, <2>2, <2>5, SyncUnlinked DEF Kept
<1> QED
  BY <1>2, <1>3 DEF Peer

LEMMA SyncReturnToLobby ==
  ASSUME Kept, NEW p \in Peer, ReturnToLobby(p)
  PROVE  Sync'
<1> DEFINE s == NewSession
<1>1. /\ HangUp(p) /\ session' = [session EXCEPT ![p] = s] /\ UNCHANGED snap
      /\ hist' = [hist EXCEPT ![p] = <<>>] /\ over' = [over EXCEPT ![p] = FALSE]
  BY DEF ReturnToLobby
<1>2. ~s.started
  BY DEF NewSession
<1> HIDE DEF s
<1>3. CASE p = "CLIENT"
  <2>1. ~session'["CLIENT"].started
    BY <1>1, <1>2, <1>3 DEF Kept, SyncInv, OpenInv, ColourInv, BaseInv, SessionTypes
  <2> QED
    BY <1>1, <2>1, SyncStopped DEF Kept
<1>4. CASE p = "SERVER"
  <2>1. /\ hist'["CLIENT"] = hist["CLIENT"] /\ over'["CLIENT"] = over["CLIENT"]
    BY <1>1, <1>4 DEF Kept, SyncInv, OpenInv, ColourInv, BaseInv, BoardTypes, Peer
  <2> QED
    BY <1>1, <1>2, <2>1, SyncHungUp DEF Kept
<1> QED
  BY <1>3, <1>4 DEF Peer

LEMMA SyncReceiveError ==
  ASSUME Kept, NEW p \in Peer, ReceiveError(p)
  PROVE  Sync'
<1>1. over[p] \in BOOLEAN /\ UNCHANGED <<hist, over, snap>>
  BY DEF ReceiveError, board, disk, Kept, SyncInv, OpenInv, ColourInv, BaseInv, BoardTypes
<1> QED
  BY <1>1, SyncDisconnect DEF Kept, ReceiveError

\* A game is resumed on a connection on which the client is in none.
LEMMA SyncHandleResumeRequest ==
  ASSUME Kept, NEW p \in Peer, HandleResumeRequest(p)
  PROVE  Sync'
<1> DEFINE known == snap[p] # NoSnapshot
           m == ResponseMsg(known)
           s == IF known THEN ResumeAccepted(session[p])
                ELSE [session[p] EXCEPT !.syncPending = FALSE]
<1>1. /\ Receive(p, "RESUME_REQUEST") /\ UNCHANGED <<hist, over, snap>>
      /\ "RESUME_REQUEST" \notin Game
  BY DEF HandleResumeRequest, board, disk, Game
<1>2. CASE Consume(p) /\ UNCHANGED session
  BY <1>1, <1>2, SyncIgnored DEF board
<1>3. CASE HandlePeerDisconnect(p, over[p])
  <2>1. over[p] \in BOOLEAN
    BY DEF Kept, SyncInv, OpenInv, ColourInv, BaseInv, BoardTypes
  <2> QED
    BY <1>1, <1>3, <2>1, SyncDisconnect DEF Kept
<1>4. CASE /\ session[p].role = "SERVER"
           /\ session' = [session EXCEPT ![p] = s] /\ Answer(p, m)
  <2>1. /\ p = "SERVER" /\ Other(p) = "CLIENT"
    BY <1>4 DEF Kept, SyncInv, OpenInv, ColourInv, BaseInv, Locals, LocalTo, Peer, Other
  <2>2. m \in Packet
    BY DEF ResponseMsg, Packet
  <2> HIDE DEF s, m
  <2>3. session'["CLIENT"] = session["CLIENT"]
    BY <1>4, <2>1 DEF Kept, SyncInv, OpenInv, ColourInv, BaseInv, SessionTypes, Peer
  <2>4. CASE Linked
    <3>1. Has("SERVER", "RESUME_REQUEST")
      BY <1>1, <2>1, HeadUnread DEF Kept, SyncInv, OpenInv, ColourInv, BaseInv
    <3>2. ~session["CLIENT"].started
      BY <2>4, <3>1 DEF Kept, SyncInv, OpenInv, Begins, Acks
    <3> QED
      BY <1>1, <2>3, <3>2, SyncStopped DEF Kept
  <2>5. CASE ~Linked
    <3>1. ~Linked'
      BY <1>4, <2>5 DEF Answer, Linked
    <3>2. inbox'["CLIENT"] = inbox["CLIENT"]
      BY <1>1, <1>4, <2>1, <2>2, <2>5, Answered DEF Kept, SyncInv, OpenInv, ColourInv, BaseInv
    <3> QED
      BY <1>1, <2>3, <3>1, <3>2, SyncUnlinked DEF Kept
  <2> QED
    BY <2>4, <2>5
<1> QED
  BY <1>2, <1>3, <1>4 DEF HandleResumeRequest

-----------------------------------------------------------------------------
(* Every step of the game keeps the two in step *)

LEMMA NothingOnly ==
  ASSUME NEW s \in Seq(Packet), NEW t, \A m \in Range(s) : m.type # t
  PROVE  Only(s, t)
<1>1. \A j \in 1..Len(s) : s[j] \in Range(s)
  BY LenProperties DEF Range
<1> QED
  BY <1>1 DEF Only

\* A packet is read; a packet is written.
LEMMA ReadMail ==
  ASSUME Net, NEW p \in Peer, NEW t, Receive(p, t), Consume(p)
  PROVE  /\ Linked' = Linked /\ UNCHANGED <<conn, dialing>>
         /\ Head(inbox[p]) \in Packet /\ Head(inbox[p]).type = t
         /\ Head(inbox[p]) \in Unread(p)
         /\ Unread(p) = {Head(inbox[p])} \cup Unread(p)'
         /\ inbox'[p] = Tail(inbox[p]) /\ inbox[p] \in Seq(Packet) /\ inbox[p] # <<>>
         /\ inbox'[Other(p)] = inbox[Other(p)] /\ Unread(Other(p))' = Unread(Other(p))
<1>1. /\ inbox'[p] = Tail(inbox[p]) /\ inbox'[Other(p)] = inbox[Other(p)]
      /\ inbox[p] # <<>> /\ inbox[p] \in Seq(Packet)
      /\ Head(inbox[p]).type = t /\ Head(inbox[p]) \in Packet
  BY Received DEF Consume, Net
<1>2. Range(inbox[p]) = {Head(inbox[p])} \cup Range(Tail(inbox[p]))
  BY <1>1, QueueRead
<1>3. Linked' = Linked /\ UNCHANGED <<conn, dialing>>
  BY DEF Consume, Linked
<1> QED
  BY <1>1, <1>2, <1>3 DEF Unread

LEMMA SentMail ==
  ASSUME Net, NEW p \in Peer, NEW m \in Packet, Send(p, m)
  PROVE  /\ Linked' = Linked /\ UNCHANGED <<conn, dialing>>
         /\ inbox'[p] = inbox[p] /\ Unread(p)' = Unread(p)
         /\ inbox[Other(p)] \in Seq(Packet)
         /\ Linked => /\ inbox'[Other(p)] = Append(inbox[Other(p)], m)
                      /\ Unread(Other(p))' = Unread(Other(p)) \cup {m}
         /\ ~Linked => /\ inbox'[Other(p)] = inbox[Other(p)]
                       /\ Unread(Other(p))' = Unread(Other(p))
<1>1. inbox \in [Peer -> Seq(Packet)] /\ inbox[Other(p)] \in Seq(Packet)
  BY Ends DEF Net
<1>2. /\ inbox'[p] = inbox[p]
      /\ Linked => inbox'[Other(p)] = Append(inbox[Other(p)], m)
      /\ ~Linked => inbox'[Other(p)] = inbox[Other(p)]
  BY <1>1, Delivered DEF Send
<1>3. Range(Append(inbox[Other(p)], m)) = Range(inbox[Other(p)]) \cup {m}
  BY <1>1, QueueWritten
<1>4. Linked' = Linked /\ UNCHANGED <<conn, dialing>>
  BY DEF Send, Linked
<1> QED
  BY <1>1, <1>2, <1>3, <1>4 DEF Unread

\* The client's board does not change.
LEMMA ClientStillBehind ==
  ASSUME SyncInv, FileKept,
         session'["CLIENT"].started =>
           session["CLIENT"].started /\ session'["CLIENT"].color = session["CLIENT"].color,
         hist'["CLIENT"] = hist["CLIENT"]
  PROVE  ClientBehind'
<1>1. hist["CLIENT"] \in Seq(Moves)
  BY DEF SyncInv, OpenInv, ColourInv, BaseInv, BoardTypes, Peer
<1>2. session["CLIENT"].started =>
        Behind(hist["CLIENT"], ServerRecord', session["CLIENT"].color)
  BY <1>1, StillBehind DEF FileKept, SyncInv, Sync, Trailing, ClientBehind
<1> QED
  BY <1>2 DEF ClientBehind

\* The client begins with its file; no packet of the game is on the connection.
LEMMA SyncHandleStart ==
  ASSUME Kept, NEW p \in Peer, HandleStart(p)
  PROVE  Sync'
<1> DEFINE c == Head(inbox[p]).color
           s == StartGame(session[p], c)
           m == Bare("ACK")
           b == LoadMatch(p)
<1>1. Receive(p, "START") /\ UNCHANGED snap /\ "START" \notin Game
  BY DEF HandleStart, Game
<1>2. CASE Consume(p) /\ UNCHANGED <<session, board>>
  BY <1>1, <1>2, SyncIgnored
<1>3. CASE /\ StartAcceptable(p) /\ Answer(p, m) /\ session' = [session EXCEPT ![p] = s]
           /\ hist' = [hist EXCEPT ![p] = b.hist] /\ over' = [over EXCEPT ![p] = b.over]
  <2>1. /\ p = "CLIENT" /\ Other(p) = "SERVER" /\ session[p] \in SessionType
        /\ ~session["CLIENT"].started
    BY <1>3 DEF StartAcceptable, Kept, SyncInv, OpenInv, ColourInv, BaseInv, SessionTypes,
                Locals, LocalTo, Peer, Other
  <2>2. s.started /\ s.color = c
    BY <2>1, StartGameFields
  <2>3. m \in Packet /\ m.type = "ACK"
    BY DEF Bare, Packet
  <2>4. BoardTypes /\ Net
    BY DEF Kept, SyncInv, OpenInv, ColourInv, BaseInv
  <2>5. /\ b.hist \in Seq(Moves) /\ b.over \in BOOLEAN
        /\ snap["CLIENT"] = NoSnapshot => b.hist = <<>> /\ b.over = FALSE
        /\ snap["CLIENT"] # NoSnapshot => b.hist = snap["CLIENT"].hist
                                            /\ b.over = snap["CLIENT"].over
    BY <2>1, <2>4, SnapshotFields
  <2>6. c \in Color /\ (snap["CLIENT"] # NoSnapshot => snap["CLIENT"].white = White("CLIENT", c))
    <3>1. PICK w \in Peer : Agreed(w)
      BY DEF Kept, SyncInv, OpenInv, ColourInv, Colours
    <3>2. Head(inbox["CLIENT"]) \in Unread("CLIENT") /\ Head(inbox["CLIENT"]).type = "START"
      BY <1>1, <2>1, <2>4, HeadUnread, Received
    <3> QED
      BY <2>1, <3>1, <3>2 DEF Agreed, Peer
  <2>7. Has("CLIENT", "START")
    BY <1>1, <2>1, <2>4, HeadUnread
  <2> HIDE DEF s, m, b, c
  <2>8. /\ session'["CLIENT"] = s /\ session'["SERVER"] = session["SERVER"]
        /\ hist'["CLIENT"] = b.hist /\ over'["CLIENT"] = b.over
        /\ over'["SERVER"] = over["SERVER"]
    BY <1>3, <2>1, <2>4
       DEF Kept, SyncInv, OpenInv, ColourInv, BaseInv, SessionTypes, BoardTypes, Peer
  <2>9. /\ inbox'["CLIENT"] = Tail(inbox["CLIENT"]) /\ inbox["CLIENT"] \in Seq(Packet)
        /\ inbox["CLIENT"] # <<>> /\ inbox["SERVER"] \in Seq(Packet)
        /\ Linked => inbox'["SERVER"] = Append(inbox["SERVER"], m)
    BY <1>1, <1>3, <2>1, <2>3, <2>4, Answered
  <2>10. \A n \in Unread("CLIENT")' : n.type \notin Game
    <3>1. \A n \in Unread("CLIENT") : n.type \notin Game
      BY <2>1, NoGameMail DEF Kept, SyncInv, OpenInv
    <3>2. Range(inbox["CLIENT"]) = {Head(inbox["CLIENT"])} \cup Range(Tail(inbox["CLIENT"]))
      BY <2>9, QueueRead
    <3> QED
      BY <2>9, <3>1, <3>2 DEF Unread
  <2>11. SnapshotFirst(inbox'["CLIENT"])
    <3>1. Tail(inbox["CLIENT"]) \in Seq(Packet)
      BY <2>9, QueueRead
    <3> QED
      BY <2>9, <2>10, <3>1, NothingFirst DEF Unread
  <2>12. FileBehind'
    BY <1>1, FileStillBehind DEF Kept
  <2>13. ServerRecord' = ServerRecord /\ ServerRecord \in Seq(Moves)
    BY <1>1 DEF ServerRecord, Kept, FileKept
  <2>14. Behind(b.hist, ServerRecord, c) /\ (b.over \/ IsPrefix(b.hist, ServerRecord))
    <3>1. CASE snap["CLIENT"] = NoSnapshot
      <4>1. IsPrefix(<<>>, ServerRecord)
        BY <2>13, PrefixEmpty
      <4> QED
        BY <2>5, <3>1, <4>1 DEF Behind
    <3>2. CASE snap["CLIENT"] # NoSnapshot
      <4>1. ClientColor(snap["CLIENT"].white) = c
        BY <2>6, <3>2, ColorOfWhite
      <4> QED
        BY <2>5, <3>2, <4>1 DEF Kept, SyncInv, Sync, Trailing, FileBehind
    <3> QED
      BY <3>1, <3>2
  <2>15. ClientBehind'
    BY <2>2, <2>8, <2>13, <2>14 DEF ClientBehind
  <2>16. Snapshots' /\ MovesIn'
    BY <2>10 DEF Snapshots, MovesIn, Game
  <2>17. Trailing'
    BY <2>11, <2>12, <2>15, <2>16 DEF Trailing
  <2>18. Linked' = Linked
    BY <1>3 DEF Answer, Linked
  <2>19. CASE ~Linked
    BY <2>17, <2>18, <2>19, UnlinkedInStep DEF Sync
  <2>20. CASE Linked
    <3>1. /\ ~session["SERVER"].started /\ ~Has("SERVER", "MOVE") /\ ~Has("SERVER", "RESIGN")
          /\ ~session["SERVER"].syncPending =>
               snap["SERVER"] = NoSnapshot /\ snap["CLIENT"] = NoSnapshot
      BY <2>1, <2>7, <2>20 DEF Kept, SyncInv, OpenInv, Begins, Opening
    <3>2. Range(Append(inbox["SERVER"], m)) = Range(inbox["SERVER"]) \cup {m}
      BY <2>3, <2>9, QueueWritten
    <3>3. ~Has("SERVER", "STATE_SNAPSHOT")
      <4>1. inbox["SERVER"] \in Seq(To("SERVER"))
        BY <2>4 DEF Net, Peer
      <4>2. \A n \in Range(inbox["SERVER"]) : n \in To("SERVER")
        BY <4>1, ElementOfSeq, LenProperties DEF Range
      <4> QED
        BY <4>2 DEF Has, Unread, To, ToServer
    <3>4. \A t \in Game : ~Has("SERVER", t)'
      BY <2>3, <2>9, <2>20, <3>1, <3>2, <3>3 DEF Has, Unread, Game
    <3>5. \A t \in Game : ~Has("CLIENT", t)'
      BY <2>10 DEF Has
    <3>6. Resuming'
      BY <2>8, <2>13, <2>14, <3>4, <3>5 DEF Resuming, Game
    <3>7. OneMove'
      <4> SUFFICES ASSUME ~session["SERVER"].syncPending PROVE OneMove'
        BY <2>8 DEF OneMove, InSync
      <4>1. Only(inbox'["SERVER"], "MOVE")
        <5>1. \A n \in Range(inbox["SERVER"]) : n.type # "MOVE"
          BY <3>1 DEF Has, Unread
        <5>2. Only(inbox["SERVER"], "MOVE")
          BY <2>9, <5>1, NothingOnly
        <5>3. Only(Append(inbox["SERVER"], m), "MOVE")
          BY <2>3, <2>9, <5>1, <5>2, QueueWritten
        <5> QED
          BY <2>9, <2>20, <5>3
      <4>2. hist'["CLIENT"] = ServerRecord'
        BY <2>5, <2>8, <2>13, <3>1 DEF ServerRecord
      <4>3. Shows(ServerRecord)'
        BY <3>5, <4>2 DEF Shows, Game
      <4>4. /\ \A n \in Unread("CLIENT")' : n.type # "MOVE"
            /\ \A n \in Unread("SERVER")' : n.type # "MOVE"
        BY <3>4, <3>5 DEF Has, Game
      <4> QED
        BY <4>1, <4>3, <4>4 DEF OneMove
    <3>8. OneEnd'
      <4> SUFFICES ASSUME ~session["SERVER"].syncPending PROVE OneEnd'
        BY <2>8 DEF OneEnd, InSync
      <4>1. ~ServerOver' /\ ~over'["CLIENT"]
        BY <1>1, <2>5, <2>8, <3>1 DEF ServerOver
      <4>2. \A n \in Unread("CLIENT")' : n.type # "STATE_SNAPSHOT"
        BY <3>5 DEF Has, Game
      <4>3. ~Has("CLIENT", "RESIGN")' /\ ~Has("SERVER", "RESIGN")'
        BY <3>4, <3>5 DEF Game
      <4> QED
        BY <4>1, <4>2, <4>3 DEF OneEnd
    <3> QED
      BY <2>17, <3>6, <3>7, <3>8 DEF Sync, InStep
  <2> QED
    BY <2>19, <2>20
<1> QED
  BY <1>2, <1>3 DEF HandleStart

\* What the server shows is what its file holds.
LEMMA ServerFile ==
  ASSUME OpenInv, session["SERVER"].started
  PROVE  hist["SERVER"] = ServerRecord /\ ServerOver = over["SERVER"]
BY DEF OpenInv, ColourInv, Colours, ServerShows, ServerRecord, ServerOver

\* The game resumed is sent before anything else of it.
LEMMA SyncSendStateSnapshot ==
  ASSUME Kept, NEW p \in Peer, SendStateSnapshot(p)
  PROVE  Sync'
<1> DEFINE s == [session[p] EXCEPT !.syncPending = FALSE]
           m == SnapshotMsg(hist[p], over[p])
<1>1. /\ session' = [session EXCEPT ![p] = s] /\ Send(p, m) /\ UNCHANGED <<hist, over, snap>>
      /\ session[p] \in SessionType /\ Net
  BY DEF SendStateSnapshot, board, disk, Kept, SyncInv, OpenInv, ColourInv, BaseInv,
         SessionTypes
<1>2. s.started = session[p].started /\ s.color = session[p].color /\ ~s.syncPending
  BY <1>1 DEF SessionType
<1>3. /\ p = "SERVER" /\ Other(p) = "CLIENT" /\ session["SERVER"].started
      /\ session["SERVER"].syncPending
  BY DEF SendStateSnapshot, SnapshotDue, Kept, SyncInv, OpenInv, ColourInv, BaseInv, Locals,
         LocalTo, Peer, Other
<1>4. hist["SERVER"] = ServerRecord /\ ServerOver = over["SERVER"]
  BY <1>3, ServerFile DEF Kept, SyncInv
<1>5. /\ m \in Packet /\ m.type = "STATE_SNAPSHOT" /\ m.hist = ServerRecord
      /\ m.over = ServerOver
  BY <1>3, <1>4
     DEF SnapshotMsg, Packet, Kept, SyncInv, OpenInv, ColourInv, BaseInv, BoardTypes, Peer
<1> HIDE DEF s, m
<1>6. /\ session'["SERVER"] = s /\ session'["CLIENT"] = session["CLIENT"]
  BY <1>1, <1>3 DEF Kept, SyncInv, OpenInv, ColourInv, BaseInv, SessionTypes, Peer
<1>7. ServerRecord' = ServerRecord /\ ServerRecord \in Seq(Moves) /\ ServerOver' = ServerOver
  BY <1>1, <1>2, <1>3, <1>6 DEF ServerRecord, ServerOver, Kept, FileKept
<1>8. /\ Linked' = Linked /\ inbox'["SERVER"] = inbox["SERVER"]
      /\ inbox["CLIENT"] \in Seq(Packet)
      /\ Linked => /\ inbox'["CLIENT"] = Append(inbox["CLIENT"], m)
                   /\ Unread("CLIENT")' = Unread("CLIENT") \cup {m}
      /\ ~Linked => inbox'["CLIENT"] = inbox["CLIENT"]
  BY <1>1, <1>3, <1>5, SentMail
<1>9. CASE ~Linked
  BY <1>1, <1>6, <1>8, <1>9, SyncUnlinked DEF Kept
<1>10. CASE Linked
  <2>1. session["CLIENT"].started
    BY <1>3, <1>10, BothStarted DEF Kept, SyncInv
  <2>2. /\ \A t \in Game : ~Has("CLIENT", t) /\ ~Has("SERVER", t)
        /\ over["CLIENT"] \/ IsPrefix(hist["CLIENT"], ServerRecord)
    BY <1>3, <1>10, <2>1 DEF Kept, SyncInv, Sync, InStep, Resuming, Joined, Game
  <2>3. \A n \in Unread("CLIENT") : n.type \notin Game
    BY <2>2 DEF Has
  <2>4. SnapshotFirst(inbox'["CLIENT"])
    <3>1. SnapshotFirst(inbox["CLIENT"])
      BY DEF Kept, SyncInv, Sync, Trailing
    <3>2. Only(Append(inbox["CLIENT"], m), "STATE_SNAPSHOT")
      BY <1>5, <1>8, <2>3, <3>1, QueueWritten DEF SnapshotFirst, Unread, Game
    <3>3. Only(Append(inbox["CLIENT"], m), "MOVE")
      BY <1>5, <1>8, <2>3, <3>1, QueueWritten DEF SnapshotFirst, Unread, Game
    <3>4. Before(Append(inbox["CLIENT"], m), "STATE_SNAPSHOT", {"MOVE", "RESIGN"})
      BY <1>5, <1>8, <2>3, <3>1, QueueWritten DEF SnapshotFirst, Unread, Game
    <3> QED
      BY <1>8, <1>10, <3>2, <3>3, <3>4 DEF SnapshotFirst
  <2>5. FileBehind' /\ ClientBehind'
    BY <1>1, <1>6, FileStillBehind, ClientStillBehind DEF Kept
  <2>6. \A n \in Unread("CLIENT")' : n.type \in Game => n = m
    BY <1>8, <1>10, <2>3
  <2>7. Snapshots'
    <3>1. IsPrefix(ServerRecord, ServerRecord)
      BY <1>7, PrefixRefl
    <3> QED
      BY <1>1, <1>5, <1>7, <2>2, <2>6, <3>1 DEF Snapshots, Game
  <2>8. \A n \in Unread("CLIENT")' : n.type # "MOVE" /\ n.type # "RESIGN"
    BY <1>5, <2>6 DEF Game
  <2>9. MovesIn'
    BY <2>8 DEF MovesIn
  <2>10. Resuming'
    BY <1>2, <1>6 DEF Resuming
  <2>11. \A t \in Game : ~Has("SERVER", t)'
    BY <1>8, <2>2 DEF Has, Unread
  <2>12. Has("CLIENT", "STATE_SNAPSHOT")'
    BY <1>5, <1>8, <1>10 DEF Has
  <2>13. OneMove'
    <3>1. Only(inbox'["SERVER"], "MOVE")
      <4>1. inbox["SERVER"] \in Seq(Packet)
        BY <1>1 DEF Net, Peer
      <4>2. \A n \in Range(inbox["SERVER"]) : n.type # "MOVE"
        BY <2>2 DEF Has, Unread, Game
      <4> QED
        BY <1>8, <4>1, <4>2, NothingOnly
    <3>2. \A n \in Unread("SERVER")' : n.type # "MOVE"
      BY <2>11 DEF Has, Game
    <3>3. Shows(ServerRecord)'
      BY <1>5, <1>7, <2>6, <2>12 DEF Shows, Game
    <3> QED
      BY <2>8, <3>1, <3>2, <3>3 DEF OneMove
  <2>14. OneEnd'
    <3>1. \A n \in Unread("CLIENT")' : n.type = "STATE_SNAPSHOT" => n.over = ServerOver'
      BY <1>5, <1>7, <2>6 DEF Game
    <3>2. ~Has("CLIENT", "RESIGN")' /\ ~Has("SERVER", "RESIGN")'
      BY <2>8, <2>11 DEF Has, Game
    <3> QED
      BY <2>12, <3>1, <3>2 DEF OneEnd
  <2> QED
    BY <2>4, <2>5, <2>7, <2>9, <2>10, <2>13, <2>14 DEF Sync, Trailing, InStep
<1> QED
  BY <1>9, <1>10

\* The client takes the game as the server sent it.
LEMMA SyncHandleStateSnapshot ==
  ASSUME Kept, NEW p \in Peer, HandleStateSnapshot(p)
  PROVE  Sync'
<1> DEFINE m == Head(inbox[p])
           f == Record(p, session[p].color, m.hist, m.over)
<1>1. /\ Receive(p, "STATE_SNAPSHOT") /\ Consume(p) /\ UNCHANGED session
      /\ Net /\ BoardTypes /\ m \in To(p)
  BY Received DEF HandleStateSnapshot, Kept, SyncInv, OpenInv, ColourInv, BaseInv
<1>2. /\ Linked' = Linked /\ m \in Packet /\ m.type = "STATE_SNAPSHOT" /\ m \in Unread(p)
      /\ Unread(p) = {m} \cup Unread(p)' /\ inbox'[p] = Tail(inbox[p])
      /\ inbox[p] \in Seq(Packet) /\ inbox[p] # <<>>
      /\ inbox'[Other(p)] = inbox[Other(p)] /\ Unread(Other(p))' = Unread(Other(p))
  BY <1>1, ReadMail
<1>3. p = "CLIENT" /\ Other(p) = "SERVER"
  BY <1>1, <1>2 DEF To, ToServer, Peer, Other
<1>4. Has("CLIENT", "STATE_SNAPSHOT")
  BY <1>2, <1>3 DEF Has
<1>5. session["CLIENT"].started /\ session["CLIENT"].role = "CLIENT"
      /\ session["CLIENT"].color \in Color
  BY <1>4 DEF Kept, SyncInv, OpenInv, Begins, Acks, ColourInv, Colours, Agreed, BaseInv, Locals,
              LocalTo, Peer
<1>6. m.hist \in Seq(Moves) /\ m.over \in BOOLEAN
  BY <1>2, Payloads
<1>7. /\ hist' = [hist EXCEPT ![p] = m.hist] /\ over' = [over EXCEPT ![p] = m.over]
      /\ snap' = [snap EXCEPT ![p] = f]
  BY <1>3, <1>5 DEF HandleStateSnapshot
<1> HIDE DEF m
<1>8. /\ f # NoSnapshot /\ f.hist = m.hist /\ f.over = m.over
      /\ f.white = White("CLIENT", session["CLIENT"].color)
  <2> DEFINE h == m.hist
             o == m.over
             c == session[p].color
  <2>1. h \in Seq(Moves) /\ o \in BOOLEAN /\ f = Record(p, c, h, o)
    BY <1>6
  <2>2. c = session["CLIENT"].color
    BY <1>3
  <2> HIDE DEF f, h, o, c
  <2>3. f # NoSnapshot /\ f.hist = h /\ f.over = o /\ f.white = White(p, c)
    BY <2>1, RecordType
  <2> QED
    BY <1>3, <2>2, <2>3 DEF h, o
<1> HIDE DEF f
<1>9. /\ hist'["CLIENT"] = m.hist /\ over'["CLIENT"] = m.over /\ snap'["CLIENT"] = f
      /\ snap'["SERVER"] = snap["SERVER"] /\ over'["SERVER"] = over["SERVER"]
  BY <1>1, <1>3, <1>7 DEF BoardTypes, Peer
<1>10. ServerRecord' = ServerRecord /\ ServerOver' = ServerOver
  BY <1>1, <1>9 DEF ServerRecord, ServerOver
<1>11. IsPrefix(m.hist, ServerRecord)
  BY <1>2, <1>3 DEF Kept, SyncInv, Sync, Trailing, Snapshots
<1>12. SnapshotFirst(inbox["CLIENT"])
  BY DEF Kept, SyncInv, Sync, Trailing
<1>13. /\ \A n \in Unread("CLIENT")' : n.type # "STATE_SNAPSHOT"
       /\ SnapshotFirst(inbox'["CLIENT"])
  BY <1>2, <1>3, <1>12, QueueRead DEF SnapshotFirst, Unread, m
<1>14. ~Has("CLIENT", "STATE_SNAPSHOT")'
  BY <1>13 DEF Has
<1>15. FileBehind'
  <2>1. ClientColor(f.white) = session["CLIENT"].color
    BY <1>5, <1>8, ColorOfWhite
  <2> QED
    BY <1>8, <1>9, <1>10, <1>11 DEF FileBehind, Behind
<1>16. ClientBehind' /\ Snapshots'
  BY <1>9, <1>10, <1>11, <1>13 DEF ClientBehind, Behind, Snapshots
<1>17. \A h : Shows(h) => m.hist = h /\ Shows(h)'
  BY <1>2, <1>3, <1>4, <1>9, <1>14 DEF Shows
<1>18. MovesIn'
  <2> SUFFICES ASSUME NEW n \in Unread("CLIENT")', n.type = "MOVE"
               PROVE  \E h \in Seq(Moves) :
                        /\ Shows(h)' /\ IsPrefix(Append(h, n.move), ServerRecord')
                        /\ SideToMove(h) = Opposite(session'["CLIENT"].color)
    BY DEF MovesIn
  <2>1. n \in Unread("CLIENT")
    BY <1>2, <1>3
  <2>2. PICK h \in Seq(Moves) : /\ Shows(h) /\ IsPrefix(Append(h, n.move), ServerRecord)
                                /\ SideToMove(h) = Opposite(session["CLIENT"].color)
    BY <2>1 DEF Kept, SyncInv, Sync, Trailing, MovesIn
  <2> QED
    BY <1>1, <1>10, <1>17, <2>2
<1>19. /\ InSync' => InSync
       /\ Joined' => Joined
  <2>1. Has("SERVER", "ACK")' <=> Has("SERVER", "ACK")
    BY <1>2, <1>3 DEF Has
  <2> QED
    BY <1>1, <1>2, <2>1 DEF InSync, Joined
<1>20. ~(Joined' /\ session'["SERVER"].syncPending)
  BY <1>1, <1>4, <1>19 DEF Kept, SyncInv, Sync, InStep, Resuming
<1>21. \A t : Has("SERVER", t)' <=> Has("SERVER", t)
  BY <1>2, <1>3 DEF Has
<1>22. OneMove'
  <2> SUFFICES ASSUME InSync PROVE OneMove'
    BY <1>19 DEF OneMove
  <2>1. OneMove
    BY DEF Kept, SyncInv, Sync, InStep
  <2>2. ~Has("SERVER", "MOVE")
    BY <1>4, <2>1 DEF OneMove, Has
  <2>3. ASSUME NEW n \in Unread("CLIENT")', n.type = "MOVE"
        PROVE  \E h \in Seq(Moves) : /\ Shows(h)' /\ ServerRecord' = Append(h, n.move)
                                     /\ Legal(h, n.move)
    <3>1. n \in Unread("CLIENT")
      BY <1>2, <1>3
    <3>2. PICK h \in Seq(Moves) : /\ Shows(h) /\ ServerRecord = Append(h, n.move)
                                  /\ Legal(h, n.move)
      BY <2>1, <2>3, <3>1 DEF OneMove
    <3> QED
      BY <1>10, <1>17, <3>2
  <2>4. ~Has("CLIENT", "MOVE")' => Shows(ServerRecord)'
    <3>1. Has("CLIENT", "MOVE") => Has("CLIENT", "MOVE")'
      BY <1>2, <1>3 DEF Has
    <3>2. ~Has("CLIENT", "MOVE") => m.hist = ServerRecord
      BY <1>17, <2>1, <2>2 DEF OneMove
    <3> QED
      BY <1>9, <1>10, <1>14, <3>1, <3>2 DEF Shows
  <2>5. \A n \in Unread("SERVER")' : n.type # "MOVE"
    BY <1>21, <2>2 DEF Has
  <2>6. Only(inbox'["SERVER"], "MOVE")
    BY <1>2, <1>3, <2>1 DEF OneMove
  <2>7. ~Has("SERVER", "MOVE")'
    BY <1>21, <2>2
  <2> QED
    BY <2>3, <2>4, <2>5, <2>6, <2>7 DEF OneMove
<1>23. OneEnd'
  <2> SUFFICES ASSUME InSync PROVE OneEnd'
    BY <1>19 DEF OneEnd
  <2>1. OneEnd
    BY DEF Kept, SyncInv, Sync, InStep
  <2>2. Has("CLIENT", "RESIGN")' <=> Has("CLIENT", "RESIGN")
    BY <1>2, <1>3 DEF Has
  <2>3. ServerOver => Has("CLIENT", "RESIGN") \/ m.over
    BY <1>2, <1>3, <1>4, <2>1 DEF OneEnd
  <2>4. (m.over => ServerOver) /\ (Has("CLIENT", "RESIGN") => ServerOver)
    BY <1>2, <1>3, <2>1 DEF OneEnd
  <2>5. ~Has("SERVER", "RESIGN")'
    BY <1>4, <1>21, <2>1 DEF OneEnd
  <2> QED
    BY <1>9, <1>10, <1>13, <1>14, <2>2, <2>3, <2>4, <2>5 DEF OneEnd
<1>24. Resuming'
  BY <1>20 DEF Resuming
<1> QED
  BY <1>13, <1>15, <1>16, <1>18, <1>22, <1>23, <1>24 DEF Sync, Trailing, InStep

\* A move reaches the client: it is the one that its board lacks.
LEMMA SyncClientMoved ==
  ASSUME Kept, HandleMove("CLIENT")
  PROVE  Sync'
<1> DEFINE m == Head(inbox["CLIENT"])
           h == Append(hist["CLIENT"], m.move)
<1>1. /\ Receive("CLIENT", "MOVE") /\ Consume("CLIENT") /\ UNCHANGED <<session, over>>
      /\ Net /\ BoardTypes /\ "CLIENT" \in Peer /\ Other("CLIENT") = "SERVER"
  BY DEF HandleMove, Kept, SyncInv, OpenInv, ColourInv, BaseInv, Peer, Other
<1>2. /\ Linked' = Linked /\ m \in Packet /\ m.type = "MOVE" /\ m \in Unread("CLIENT")
      /\ Unread("CLIENT") = {m} \cup Unread("CLIENT")' /\ inbox'["CLIENT"] = Tail(inbox["CLIENT"])
      /\ inbox["CLIENT"] \in Seq(Packet) /\ inbox["CLIENT"] # <<>>
      /\ inbox'["SERVER"] = inbox["SERVER"] /\ Unread("SERVER")' = Unread("SERVER")
  BY <1>1, ReadMail
<1>3. Has("CLIENT", "MOVE") /\ m.move \in Moves
  BY <1>2, Payloads DEF Has
<1>4. session["CLIENT"].started /\ session["CLIENT"].role = "CLIENT"
      /\ session["CLIENT"].color \in Color
  BY <1>3 DEF Kept, SyncInv, OpenInv, Begins, Acks, ColourInv, Colours, Agreed, BaseInv, Locals,
              LocalTo, Peer
<1>5. \/ hist' = [hist EXCEPT !["CLIENT"] = h]
      \/ hist' = hist /\ ~(SideToMove(hist["CLIENT"]) = Opposite(session["CLIENT"].color)
                           /\ Legal(hist["CLIENT"], m.move))
  BY <1>4 DEF HandleMove
<1>6. snap' = snap
  BY <1>4 DEF HandleMove, RecordMove
<1>7. /\ SnapshotFirst(inbox["CLIENT"])
      /\ \A n \in Unread("CLIENT") : n.type # "STATE_SNAPSHOT"
      /\ \A n \in Unread("CLIENT")' : n.type # "MOVE"
      /\ SnapshotFirst(inbox'["CLIENT"])
  <2>1. SnapshotFirst(inbox["CLIENT"])
    BY DEF Kept, SyncInv, Sync, Trailing
  <2>2. \A n \in Unread("CLIENT") : n.type # "STATE_SNAPSHOT"
    BY <1>2, <2>1, QueueRead DEF SnapshotFirst, Unread
  <2>3. \A n \in Unread("CLIENT")' : n.type # "MOVE"
    BY <1>2, <2>1, QueueRead DEF SnapshotFirst, Unread
  <2>4. SnapshotFirst(inbox'["CLIENT"])
    BY <1>2, <2>1, QueueRead DEF SnapshotFirst
  <2> QED
    BY <2>1, <2>2, <2>3, <2>4
<1> HIDE DEF m, h
<1>8. ~Has("CLIENT", "STATE_SNAPSHOT") /\ ~Has("CLIENT", "STATE_SNAPSHOT")' /\ ~Has("CLIENT", "MOVE")'
  BY <1>2, <1>7 DEF Has
<1>9. hist["CLIENT"] \in Seq(Moves) /\ h \in Seq(Moves)
  BY <1>1, <1>3 DEF BoardTypes, h
<1>10. /\ IsPrefix(h, ServerRecord)
       /\ SideToMove(hist["CLIENT"]) = Opposite(session["CLIENT"].color)
  <2>1. PICK k \in Seq(Moves) :
          /\ Shows(k) /\ IsPrefix(Append(k, m.move), ServerRecord)
          /\ SideToMove(k) = Opposite(session["CLIENT"].color)
    BY <1>2 DEF Kept, SyncInv, Sync, Trailing, MovesIn
  <2>2. k = hist["CLIENT"]
    BY <1>8, <2>1 DEF Shows
  <2> QED
    BY <2>1, <2>2 DEF h
<1>11. ServerRecord' = ServerRecord /\ ServerOver' = ServerOver
  BY <1>1, <1>6 DEF ServerRecord, ServerOver
<1>12. hist'["CLIENT"] \in {hist["CLIENT"], h}
  BY <1>1, <1>5 DEF BoardTypes
<1>13. FileBehind'
  BY <1>6, FileStillBehind DEF Kept
<1>14. ClientBehind'
  <2>1. CASE hist'["CLIENT"] = h
    BY <1>10, <1>11, <2>1 DEF ClientBehind, Behind
  <2>2. CASE hist'["CLIENT"] = hist["CLIENT"]
    BY <1>1, <2>2, ClientStillBehind DEF Kept
  <2> QED
    BY <1>12, <2>1, <2>2
<1>15. Snapshots' /\ MovesIn'
  BY <1>2, <1>7 DEF Snapshots, MovesIn
<1>16. InSync' => InSync
  BY <1>1, <1>2 DEF InSync, Joined, Has
<1>17. Resuming'
  <2>1. Joined' => Joined
    BY <1>1, <1>2 DEF Joined, Has
  <2> QED
    BY <1>1, <1>3, <2>1 DEF Kept, SyncInv, Sync, InStep, Resuming
<1>18. OneMove'
  <2> SUFFICES ASSUME InSync PROVE OneMove'
    BY <1>16 DEF OneMove
  <2>1. OneMove
    BY DEF Kept, SyncInv, Sync, InStep
  <2>2. ~Has("SERVER", "MOVE")
    BY <1>2, <2>1 DEF OneMove
  <2>3. PICK k \in Seq(Moves) : /\ Shows(k) /\ ServerRecord = Append(k, m.move)
                                /\ Legal(k, m.move)
    BY <1>2, <2>1 DEF OneMove
  <2>4. k = hist["CLIENT"]
    BY <1>8, <2>3 DEF Shows
  <2>5. hist'["CLIENT"] = h /\ h = ServerRecord
    BY <1>1, <1>5, <1>10, <2>3, <2>4 DEF h, BoardTypes
  <2>6. Shows(ServerRecord)'
    BY <1>8, <1>11, <2>5 DEF Shows
  <2>7. \A n \in Unread("SERVER")' : n.type # "MOVE"
    BY <1>2, <2>2 DEF Has
  <2>8. Only(inbox'["SERVER"], "MOVE")
    BY <1>2, <2>1 DEF OneMove
  <2> QED
    BY <1>7, <2>6, <2>7, <2>8 DEF OneMove
<1>19. OneEnd'
  <2>1. Same("CLIENT", {"STATE_SNAPSHOT", "RESIGN"}) /\ Same("SERVER", {"RESIGN"})
    BY <1>2 DEF Same
  <2> QED
    BY <1>1, <1>11, <1>16, <2>1, OneEndKept DEF Kept
<1> QED
  BY <1>7, <1>13, <1>14, <1>15, <1>17, <1>18, <1>19 DEF Sync, Trailing, InStep

\* The server writes its file.
LEMMA ServerRecords ==
  ASSUME OpenInv, session["SERVER"].started, NEW h \in Seq(Moves),
         snap' = RecordMove("SERVER", h)
  PROVE  /\ snap'["CLIENT"] = snap["CLIENT"] /\ snap'["SERVER"] # NoSnapshot
         /\ snap'["SERVER"].hist = h
<1> DEFINE o == over["SERVER"]
           c == session["SERVER"].color
           f == Record("SERVER", c, h, o)
<1>1. BoardTypes /\ session["SERVER"].role = "SERVER" /\ "SERVER" \in Peer /\ "CLIENT" \in Peer
  BY DEF OpenInv, ColourInv, BaseInv, Locals, LocalTo, Peer
<1>2. snap' = [snap EXCEPT !["SERVER"] = f]
  BY <1>1 DEF RecordMove
<1>3. f.white = White("SERVER", c) /\ f.hist = h
  BY DEF Record
<1>4. White("SERVER", c) # "none" /\ NoSnapshot.white = "none"
  BY DEF White, Other, NoSnapshot
<1> HIDE DEF f
<1> QED
  BY <1>1, <1>2, <1>3, <1>4 DEF BoardTypes

\* A move reaches the server: the file catches up with the client's board.
LEMMA SyncServerMoved ==
  ASSUME Kept, HandleMove("SERVER")
  PROVE  Sync'
<1> DEFINE m == Head(inbox["SERVER"])
           h == Append(hist["SERVER"], m.move)
<1>1. /\ Receive("SERVER", "MOVE") /\ Consume("SERVER") /\ UNCHANGED <<session, over>>
      /\ Net /\ BoardTypes /\ "SERVER" \in Peer /\ Other("SERVER") = "CLIENT"
      /\ "CLIENT" \in Peer
  BY DEF HandleMove, Kept, SyncInv, OpenInv, ColourInv, BaseInv, Peer, Other
<1>2. /\ Linked' = Linked /\ m \in Packet /\ m.type = "MOVE" /\ m \in Unread("SERVER")
      /\ Unread("SERVER") = {m} \cup Unread("SERVER")' /\ inbox'["SERVER"] = Tail(inbox["SERVER"])
      /\ inbox["SERVER"] \in Seq(Packet) /\ inbox["SERVER"] # <<>>
      /\ inbox'["CLIENT"] = inbox["CLIENT"] /\ Unread("CLIENT")' = Unread("CLIENT")
  BY <1>1, ReadMail
<1>3. Has("SERVER", "MOVE") /\ m.move \in Moves
  BY <1>2, Payloads DEF Has
<1>4. ~Has("SERVER", "ACK")
  BY <1>2, QueueRead DEF Kept, SyncInv, OpenInv, Begins, Acks, AckFirst, Has, Unread
<1>5. /\ \/ UNCHANGED <<hist, snap>>
         \/ /\ hist' = [hist EXCEPT !["SERVER"] = h] /\ session["SERVER"].started
            /\ snap' = RecordMove("SERVER", h)
      /\ session["SERVER"].started /\ SideToMove(hist["SERVER"]) = Opposite(session["SERVER"].color)
           /\ Legal(hist["SERVER"], m.move) =>
           hist' = [hist EXCEPT !["SERVER"] = h] /\ snap' = RecordMove("SERVER", h)
  BY DEF HandleMove
<1> HIDE DEF m
<1>6. h \in Seq(Moves)
  BY <1>1, <1>3 DEF BoardTypes
<1>7. snap' = RecordMove("SERVER", h) /\ session["SERVER"].started =>
        /\ snap'["CLIENT"] = snap["CLIENT"] /\ snap'["SERVER"] # NoSnapshot
        /\ snap'["SERVER"].hist = h
  <2> HIDE DEF h
  <2> QED
    BY <1>6, ServerRecords DEF Kept, SyncInv
<1>8. hist'["CLIENT"] = hist["CLIENT"] /\ snap'["CLIENT"] = snap["CLIENT"]
  BY <1>1, <1>5, <1>7 DEF BoardTypes
<1>9. Trailing'
  <2>1. Same("CLIENT", {"STATE_SNAPSHOT", "MOVE"})
    BY <1>2 DEF Same
  <2>2. SnapshotFirst(inbox'["CLIENT"])
    BY <1>2 DEF Kept, SyncInv, Sync, Trailing
  <2> QED
    BY <1>1, <1>8, <2>1, <2>2, StillTrailing DEF Kept
<1>10. (Joined' => Joined) /\ (InSync' => InSync)
  BY <1>1, <1>2 DEF InSync, Joined, Has
<1>11. Resuming'
  BY <1>1, <1>3, <1>10 DEF Kept, SyncInv, Sync, InStep, Resuming
<1>12. ASSUME InSync
       PROVE  /\ hist["CLIENT"] = ServerRecord' /\ ServerOver' = ServerOver
              /\ ~Has("CLIENT", "STATE_SNAPSHOT") /\ ~Has("CLIENT", "MOVE")
              /\ \A n \in Unread("SERVER")' : n.type # "MOVE"
              /\ Only(inbox'["SERVER"], "MOVE")
  <2>1. session["SERVER"].started /\ session["CLIENT"].started
    BY <1>4, <1>12 DEF InSync, Joined
  <2>2. OneMove
    BY DEF Kept, SyncInv, Sync, InStep
  <2>3. /\ ~Has("CLIENT", "STATE_SNAPSHOT") /\ ~Has("CLIENT", "MOVE")
        /\ hist["CLIENT"] = Append(ServerRecord, m.move) /\ Legal(ServerRecord, m.move)
        /\ SideToMove(ServerRecord) = session["CLIENT"].color
        /\ Only(inbox["SERVER"], "MOVE")
    BY <1>2, <1>12, <2>2 DEF OneMove
  <2>4. hist["SERVER"] = ServerRecord
    BY <2>1, ServerFile DEF Kept, SyncInv
  <2>5. session["CLIENT"].color = Opposite(session["SERVER"].color)
    BY <2>1, TwoColours DEF Kept, SyncInv, OpenInv
  <2>6. snap'["SERVER"] # NoSnapshot /\ snap'["SERVER"].hist = h
    BY <1>5, <1>7, <2>1, <2>3, <2>4, <2>5
  <2>7. hist["CLIENT"] = ServerRecord'
    BY <2>3, <2>4, <2>6 DEF ServerRecord
  <2>8. ServerOver' = ServerOver
    BY <1>1, <2>1 DEF ServerOver
  <2>9. (\A n \in Unread("SERVER")' : n.type # "MOVE") /\ Only(inbox'["SERVER"], "MOVE")
    BY <1>2, <2>3, QueueRead DEF Unread, m
  <2> QED
    BY <2>3, <2>7, <2>8, <2>9
<1>13. OneMove'
  <2> SUFFICES ASSUME InSync PROVE OneMove'
    BY <1>10 DEF OneMove
  <2>1. \A n \in Unread("CLIENT")' : n.type # "MOVE"
    BY <1>2, <1>12 DEF Has
  <2>2. ~Has("CLIENT", "STATE_SNAPSHOT")'
    BY <1>2, <1>12 DEF Has
  <2>3. Shows(ServerRecord)'
    BY <1>8, <1>12, <2>2 DEF Shows
  <2> QED
    BY <1>12, <2>1, <2>3 DEF OneMove
<1>14. OneEnd'
  <2> SUFFICES ASSUME InSync PROVE OneEnd'
    BY <1>10 DEF OneEnd
  <2>1. Same("CLIENT", {"STATE_SNAPSHOT", "RESIGN"}) /\ Same("SERVER", {"RESIGN"})
    BY <1>2 DEF Same
  <2> QED
    BY <1>1, <1>12, <2>1, OneEndKept DEF Kept
<1> QED
  BY <1>9, <1>11, <1>13, <1>14 DEF Sync, InStep

LEMMA SyncHandleMove ==
  ASSUME Kept, NEW p \in Peer, HandleMove(p)
  PROVE  Sync'
BY SyncClientMoved, SyncServerMoved DEF Peer

\* A resignation that the client has read, or made, is in its file.
LEMMA ClientEnds ==
  ASSUME BoardTypes, over' = [over EXCEPT !["CLIENT"] = TRUE],
         snap' = [snap EXCEPT !["CLIENT"] =
                   Record("CLIENT", session["CLIENT"].color, hist["CLIENT"], TRUE)]
  PROVE  /\ over'["CLIENT"] /\ over'["SERVER"] = over["SERVER"]
         /\ snap'["SERVER"] = snap["SERVER"] /\ snap'["CLIENT"] # NoSnapshot
         /\ snap'["CLIENT"].hist = hist["CLIENT"] /\ snap'["CLIENT"].over
         /\ snap'["CLIENT"].white = White("CLIENT", session["CLIENT"].color)
<1> DEFINE f == Record("CLIENT", session["CLIENT"].color, hist["CLIENT"], TRUE)
<1>1. /\ f.white = White("CLIENT", session["CLIENT"].color) /\ f.hist = hist["CLIENT"] /\ f.over
  BY DEF Record
<1>2. f.white # "none" /\ NoSnapshot.white = "none"
  BY <1>1 DEF White, Other, NoSnapshot
<1>3. snap' = [snap EXCEPT !["CLIENT"] = f]
  OBVIOUS
<1> HIDE DEF f
<1>4. snap'["CLIENT"] = f /\ snap'["SERVER"] = snap["SERVER"]
  BY <1>3 DEF BoardTypes, Peer
<1>5. over'["CLIENT"] /\ over'["SERVER"] = over["SERVER"]
  BY DEF BoardTypes, Peer
<1> QED
  BY <1>1, <1>2, <1>4, <1>5

\* So is one of the server.
LEMMA ServerEnds ==
  ASSUME BoardTypes, over' = [over EXCEPT !["SERVER"] = TRUE],
         snap' = [snap EXCEPT !["SERVER"] =
                   Record("SERVER", session["SERVER"].color, hist["SERVER"], TRUE)]
  PROVE  /\ over'["SERVER"] /\ over'["CLIENT"] = over["CLIENT"]
         /\ snap'["CLIENT"] = snap["CLIENT"] /\ snap'["SERVER"] # NoSnapshot
         /\ snap'["SERVER"].hist = hist["SERVER"] /\ snap'["SERVER"].over
         /\ snap'["SERVER"].white = White("SERVER", session["SERVER"].color)
<1> DEFINE f == Record("SERVER", session["SERVER"].color, hist["SERVER"], TRUE)
<1>1. /\ f.white = White("SERVER", session["SERVER"].color) /\ f.hist = hist["SERVER"] /\ f.over
  BY DEF Record
<1>2. f.white # "none" /\ NoSnapshot.white = "none"
  BY <1>1 DEF White, Other, NoSnapshot
<1>3. snap' = [snap EXCEPT !["SERVER"] = f]
  OBVIOUS
<1> HIDE DEF f
<1>4. snap'["SERVER"] = f /\ snap'["CLIENT"] = snap["CLIENT"]
  BY <1>3 DEF BoardTypes, Peer
<1>5. over'["SERVER"] /\ over'["CLIENT"] = over["CLIENT"]
  BY DEF BoardTypes, Peer
<1> QED
  BY <1>1, <1>2, <1>4, <1>5

\* The client reads that the game is over.
LEMMA SyncClientTold ==
  ASSUME Kept, HandleResign("CLIENT")
  PROVE  Sync'
<1> DEFINE m == Head(inbox["CLIENT"])
<1>1. /\ Receive("CLIENT", "RESIGN") /\ Consume("CLIENT") /\ UNCHANGED <<session, hist>>
      /\ Net /\ BoardTypes /\ "CLIENT" \in Peer /\ Other("CLIENT") = "SERVER"
      /\ "SERVER" \in Peer
  BY DEF HandleResign, Kept, SyncInv, OpenInv, ColourInv, BaseInv, Peer, Other
<1>2. /\ Linked' = Linked /\ m \in Packet /\ m.type = "RESIGN" /\ m \in Unread("CLIENT")
      /\ Unread("CLIENT") = {m} \cup Unread("CLIENT")' /\ inbox'["CLIENT"] = Tail(inbox["CLIENT"])
      /\ inbox["CLIENT"] \in Seq(Packet) /\ inbox["CLIENT"] # <<>>
      /\ inbox'["SERVER"] = inbox["SERVER"] /\ Unread("SERVER")' = Unread("SERVER")
  BY <1>1, ReadMail
<1>3. Has("CLIENT", "RESIGN")
  BY <1>2 DEF Has
<1>4. session["CLIENT"].started
  BY <1>3 DEF Kept, SyncInv, OpenInv, Begins, Acks
<1>5. /\ SnapshotFirst(inbox'["CLIENT"])
      /\ \A n \in Unread("CLIENT") : n.type # "STATE_SNAPSHOT"
  <2>1. SnapshotFirst(inbox["CLIENT"])
    BY DEF Kept, SyncInv, Sync, Trailing
  <2>2. \A n \in Unread("CLIENT") : n.type # "STATE_SNAPSHOT"
    BY <1>2, <2>1, QueueRead DEF SnapshotFirst, Unread
  <2>3. SnapshotFirst(inbox'["CLIENT"])
    BY <1>2, <2>1, QueueRead DEF SnapshotFirst
  <2> QED
    BY <2>2, <2>3
<1> HIDE DEF m
<1>6. /\ over'["CLIENT"] /\ over'["SERVER"] = over["SERVER"]
      /\ snap'["SERVER"] = snap["SERVER"]
      /\ \/ snap'["CLIENT"] = snap["CLIENT"]
         \/ /\ snap'["CLIENT"].hist = hist["CLIENT"] /\ snap'["CLIENT"].over
            /\ snap'["CLIENT"].white = White("CLIENT", session["CLIENT"].color)
  <2>1. CASE over["CLIENT"]
    BY <2>1 DEF HandleResign
  <2>2. CASE ~over["CLIENT"]
    <3>1. /\ over' = [over EXCEPT !["CLIENT"] = TRUE]
          /\ snap' = [snap EXCEPT !["CLIENT"] =
                       Record("CLIENT", session["CLIENT"].color, hist["CLIENT"], TRUE)]
      BY <1>4, <2>2 DEF HandleResign
    <3> QED
      BY <1>1, <3>1, ClientEnds
  <2> QED
    BY <2>1, <2>2
<1>7. ServerRecord' = ServerRecord /\ ServerOver' = ServerOver
  BY <1>1, <1>6 DEF ServerRecord, ServerOver
<1>8. /\ Same("CLIENT", {"STATE_SNAPSHOT", "MOVE"}) /\ Same("SERVER", {"MOVE"})
  BY <1>2 DEF Same
<1>9. Trailing'
  BY <1>1, <1>4, <1>5, <1>6, <1>8, StillTrailing DEF Kept
<1>10. (Joined' => Joined) /\ (InSync' => InSync)
  BY <1>1, <1>2 DEF InSync, Joined, Has
<1>11. Resuming'
  BY <1>1, <1>3, <1>10 DEF Kept, SyncInv, Sync, InStep, Resuming
<1>12. OneMove'
  BY <1>1, <1>2, <1>7, <1>8, <1>10, OneMoveKept DEF Kept
<1>13. OneEnd'
  <2> SUFFICES ASSUME InSync PROVE OneEnd'
    BY <1>10 DEF OneEnd
  <2>1. ServerOver
    BY <1>3 DEF Kept, SyncInv, Sync, InStep, OneEnd
  <2>2. ~Has("CLIENT", "STATE_SNAPSHOT")'
    BY <1>2, <1>5 DEF Has
  <2>3. \A n \in Unread("CLIENT")' : n.type # "STATE_SNAPSHOT"
    BY <1>2, <1>5
  <2> QED
    BY <1>6, <1>7, <2>1, <2>2, <2>3 DEF OneEnd
<1> QED
  BY <1>9, <1>11, <1>12, <1>13 DEF Sync, InStep

\* The server reads that the game is over.
LEMMA SyncServerTold ==
  ASSUME Kept, HandleResign("SERVER")
  PROVE  Sync'
<1> DEFINE m == Head(inbox["SERVER"])
<1>1. /\ Receive("SERVER", "RESIGN") /\ Consume("SERVER") /\ UNCHANGED <<session, hist>>
      /\ Net /\ BoardTypes /\ "SERVER" \in Peer /\ Other("SERVER") = "CLIENT"
      /\ "CLIENT" \in Peer
  BY DEF HandleResign, Kept, SyncInv, OpenInv, ColourInv, BaseInv, Peer, Other
<1>2. /\ Linked' = Linked /\ m \in Packet /\ m.type = "RESIGN" /\ m \in Unread("SERVER")
      /\ Unread("SERVER") = {m} \cup Unread("SERVER")' /\ inbox'["SERVER"] = Tail(inbox["SERVER"])
      /\ inbox["SERVER"] \in Seq(Packet) /\ inbox["SERVER"] # <<>>
      /\ inbox'["CLIENT"] = inbox["CLIENT"] /\ Unread("CLIENT")' = Unread("CLIENT")
  BY <1>1, ReadMail
<1>3. Has("SERVER", "RESIGN")
  BY <1>2 DEF Has
<1>4. ~Has("SERVER", "ACK")
  BY <1>2, QueueRead DEF Kept, SyncInv, OpenInv, Begins, Acks, AckFirst, Has, Unread
<1>5. Only(inbox["SERVER"], "MOVE") => Only(inbox'["SERVER"], "MOVE")
  BY <1>2, QueueRead
<1> HIDE DEF m
<1>6. /\ over'["CLIENT"] = over["CLIENT"] /\ snap'["CLIENT"] = snap["CLIENT"]
      /\ session["SERVER"].started => over'["SERVER"]
      /\ ServerRecord' = ServerRecord
  <2>1. CASE session["SERVER"].started /\ ~over["SERVER"]
    <3>1. /\ over' = [over EXCEPT !["SERVER"] = TRUE]
          /\ snap' = [snap EXCEPT !["SERVER"] =
                       Record("SERVER", session["SERVER"].color, hist["SERVER"], TRUE)]
      BY <2>1 DEF HandleResign
    <3>2. hist["SERVER"] = ServerRecord
      BY <2>1, ServerFile DEF Kept, SyncInv
    <3> QED
      BY <1>1, <3>1, <3>2, ServerEnds DEF ServerRecord
  <2>2. CASE ~(session["SERVER"].started /\ ~over["SERVER"])
    BY <2>2 DEF HandleResign, ServerRecord
  <2> QED
    BY <2>1, <2>2
<1>7. /\ Same("CLIENT", {"STATE_SNAPSHOT", "MOVE"}) /\ Same("SERVER", {"MOVE"})
  BY <1>2 DEF Same
<1>8. SnapshotFirst(inbox'["CLIENT"])
  BY <1>2 DEF Kept, SyncInv, Sync, Trailing
<1>9. Trailing'
  BY <1>1, <1>6, <1>7, <1>8, StillTrailing DEF Kept
<1>10. (Joined' => Joined) /\ (InSync' => InSync)
  BY <1>1, <1>2 DEF InSync, Joined, Has
<1>11. Resuming'
  BY <1>1, <1>3, <1>10 DEF Kept, SyncInv, Sync, InStep, Resuming
<1>12. OneMove'
  BY <1>1, <1>5, <1>6, <1>7, <1>10, OneMoveKept DEF Kept
<1>13. OneEnd'
  <2> SUFFICES ASSUME InSync PROVE OneEnd'
    BY <1>10 DEF OneEnd
  <2>1. ~Has("CLIENT", "STATE_SNAPSHOT") /\ over["CLIENT"]
    BY <1>3 DEF Kept, SyncInv, Sync, InStep, OneEnd
  <2>2. ServerOver'
    BY <1>1, <1>4, <1>6 DEF InSync, Joined, ServerOver
  <2>3. ~Has("CLIENT", "STATE_SNAPSHOT")' /\ over'["CLIENT"]
    BY <1>2, <1>6, <2>1 DEF Has
  <2> QED
    BY <2>2, <2>3 DEF OneEnd
<1> QED
  BY <1>9, <1>11, <1>12, <1>13 DEF Sync, InStep

LEMMA SyncHandleResign ==
  ASSUME Kept, NEW p \in Peer, HandleResign(p)
  PROVE  Sync'
BY SyncClientTold, SyncServerTold DEF Peer

-----------------------------------------------------------------------------
(* What the players do keeps the two in step *)

\* A player who waits for the resumed game acts on it.
LEMMA PlayersTurn ==
  ASSUME OpenInv, ~QuickPlayer, NEW p \in Peer, InPlay(p)
  PROVE  /\ session[p].started /\ ~over[p]
         /\ ~session[Other(p)].syncPending /\ ~Has(p, "STATE_SNAPSHOT")
         /\ p = "SERVER" /\ Linked => ~session[p].syncPending
<1>1. session[p].started /\ ~over[p] /\ TickDone(p) /\ Synced(p) /\ conn[p] # "none"
  BY DEF InPlay
<1>2. inbox[p] \in Seq(Packet)
  BY DEF OpenInv, ColourInv, BaseInv, Net
<1>3. DOMAIN inbox[p] = 1..Len(inbox[p])
  BY <1>2, LenProperties
<1>4. ~session[Other(p)].syncPending /\ ~Has(p, "STATE_SNAPSHOT")
  BY <1>1, <1>3 DEF Synced, Has, Unread, Range
<1>5. ASSUME p = "SERVER", Linked
      PROVE  ~session[p].syncPending
  <2>1. session[p].role = "SERVER" /\ session[p].startDone
    BY <1>1, <1>5 DEF OpenInv, ColourInv, BaseInv, Locals, LocalTo
  <2>2. conn[p] = "live"
    BY <1>5 DEF Linked, OpenInv, ColourInv, BaseInv, Net, Peer, Other
  <2> QED
    BY <1>1, <2>1, <2>2 DEF TickDone, SnapshotDue
<1> QED
  BY <1>1, <1>4, <1>5

\* The client moves on the board of the server's file.
LEMMA SyncClientMoves ==
  ASSUME Kept, ~QuickPlayer, NEW m \in Moves, TrySendLocalMove("CLIENT", m)
  PROVE  Sync'
<1> DEFINE h == Append(hist["CLIENT"], m)
           x == MoveMsg(m)
           c == session["CLIENT"].color
<1>1. /\ OpenInv /\ Net /\ BoardTypes /\ "CLIENT" \in Peer /\ "SERVER" \in Peer
      /\ Other("CLIENT") = "SERVER" /\ session \in [Peer -> SessionType]
  BY DEF Kept, SyncInv, OpenInv, ColourInv, BaseInv, SessionTypes, Peer, Other
<1>2. /\ InPlay("CLIENT") /\ SideToMove(hist["CLIENT"]) = c /\ Legal(hist["CLIENT"], m)
      /\ hist' = [hist EXCEPT !["CLIENT"] = h] /\ snap' = RecordMove("CLIENT", h)
      /\ UNCHANGED over
  BY DEF TrySendLocalMove
<1>3. /\ session["CLIENT"].started /\ ~session["SERVER"].syncPending
      /\ ~Has("CLIENT", "STATE_SNAPSHOT")
  BY <1>1, <1>2, PlayersTurn
<1>4. session["CLIENT"].role = "CLIENT" /\ c \in Color
  BY <1>1, <1>3 DEF OpenInv, ColourInv, Colours, Agreed, BaseInv, Locals, LocalTo
<1>5. snap' = snap
  BY <1>2, <1>4 DEF RecordMove
<1>6. hist["CLIENT"] \in Seq(Moves) /\ hist'["CLIENT"] = h /\ hist'["SERVER"] = hist["SERVER"]
  BY <1>1, <1>2 DEF BoardTypes
<1>7. x \in Packet /\ x.type = "MOVE" /\ x.move = m
  BY DEF MoveMsg, Packet
<1>8. CASE HandlePeerDisconnect("CLIENT", FALSE)
  <2>1. PICK s : session' = [session EXCEPT !["CLIENT"] = s] /\ ~s.started
    <3> DEFINE e == FALSE
    <3>1. e \in BOOLEAN /\ HandlePeerDisconnect("CLIENT", e)
      BY <1>8
    <3> HIDE DEF e
    <3>2. \E s : session' = [session EXCEPT !["CLIENT"] = s] /\ (s.started => e)
      BY <1>1, <3>1, DisconnectParts DEF OpenInv, ColourInv
    <3> QED
      BY <3>2 DEF e
  <2>2. ~session'["CLIENT"].started
    BY <1>1, <2>1
  <2> QED
    BY <1>5, <2>2, SyncStopped DEF Kept
<1>9. ASSUME Send("CLIENT", x), UNCHANGED session
      PROVE  Sync'
  <2> HIDE DEF h, x
  <2>1. /\ Linked' = Linked /\ inbox'["CLIENT"] = inbox["CLIENT"]
        /\ Unread("CLIENT")' = Unread("CLIENT") /\ inbox["SERVER"] \in Seq(Packet)
        /\ Linked => /\ inbox'["SERVER"] = Append(inbox["SERVER"], x)
                     /\ Unread("SERVER")' = Unread("SERVER") \cup {x}
        /\ ~Linked => Unread("SERVER")' = Unread("SERVER")
    BY <1>1, <1>7, <1>9, SentMail
  <2>2. ServerRecord' = ServerRecord /\ ServerOver' = ServerOver
    BY <1>2, <1>5, <1>9 DEF ServerRecord, ServerOver
  <2>3. IsPrefix(hist["CLIENT"], ServerRecord)
    <3>1. Behind(hist["CLIENT"], ServerRecord, c)
      BY <1>3 DEF Kept, SyncInv, Sync, Trailing, ClientBehind
    <3>2. \A f \in Seq(Moves), n \in Moves :
            hist["CLIENT"] = Append(f, n) => SideToMove(f) # c
      BY <1>2, Turns
    <3> QED
      BY <3>1, <3>2 DEF Behind, Ahead
  <2>4. ClientBehind'
    <3>1. Ahead(h, ServerRecord, c)
      BY <1>2, <1>6, <2>3 DEF Ahead, h
    <3>2. hist'["CLIENT"] = h /\ ServerRecord' = ServerRecord /\ session'["CLIENT"].color = c
      BY <1>6, <1>9, <2>2
    <3> QED
      BY <3>1, <3>2 DEF ClientBehind, Behind
  <2>5. FileBehind'
    BY <1>5, FileStillBehind DEF Kept
  <2>6. \A n \in Unread("CLIENT") : n.type # "STATE_SNAPSHOT"
    BY <1>3 DEF Has
  <2>7. \A n \in Unread("CLIENT") : n.type # "MOVE"
    <3> SUFFICES ASSUME NEW n \in Unread("CLIENT"), n.type = "MOVE" PROVE FALSE
      OBVIOUS
    <3>1. PICK k : Shows(k) /\ SideToMove(k) = Opposite(c)
      BY DEF Kept, SyncInv, Sync, Trailing, MovesIn
    <3>2. SideToMove(hist["CLIENT"]) = Opposite(c)
      BY <1>3, <3>1 DEF Shows
    <3> QED
      BY <1>2, <1>4, <3>2 DEF Opposite, Color
  <2>8. Snapshots' /\ MovesIn'
    BY <2>1, <2>6, <2>7 DEF Snapshots, MovesIn
  <2>9. SnapshotFirst(inbox'["CLIENT"])
    BY <2>1 DEF Kept, SyncInv, Sync, Trailing
  <2>10. Resuming'
    BY <1>3, <1>9 DEF Resuming
  <2>11. InSync' => InSync
    <3>1. Has("SERVER", "ACK")' => Has("SERVER", "ACK")
      BY <1>7, <2>1 DEF Has
    <3> QED
      BY <1>9, <2>1, <3>1 DEF InSync, Joined
  <2>12. OneMove'
    <3> SUFFICES ASSUME InSync PROVE OneMove'
      BY <2>11 DEF OneMove
    <3>1. Linked /\ OneMove
      BY DEF InSync, Joined, Kept, SyncInv, Sync, InStep
    <3>2. \A n \in Unread("SERVER") : n.type # "MOVE"
      <4> SUFFICES ASSUME NEW n \in Unread("SERVER"), n.type = "MOVE" PROVE FALSE
        OBVIOUS
      <4>1. hist["CLIENT"] = Append(ServerRecord, n.move) /\ SideToMove(ServerRecord) = c
        BY <3>1 DEF OneMove
      <4>2. n.move \in Moves /\ ServerRecord \in Seq(Moves)
        <5>1. n \in Packet
          BY <2>1 DEF Unread, Range
        <5> QED
          BY <5>1, Payloads DEF Kept, FileKept
      <4>3. SideToMove(hist["CLIENT"]) # c
        BY <4>1, <4>2, Turns
      <4> QED
        BY <1>2, <4>3
    <3>3. hist["CLIENT"] = ServerRecord
      BY <1>3, <2>7, <3>1, <3>2 DEF OneMove, Has, Shows
    <3>4. \A n \in Unread("SERVER")' : n.type = "MOVE" => n = x
      BY <2>1, <3>1, <3>2
    <3>5. /\ hist'["CLIENT"] = Append(ServerRecord', x.move) /\ Legal(ServerRecord', x.move)
          /\ SideToMove(ServerRecord') = session'["CLIENT"].color
      BY <1>2, <1>6, <1>7, <1>9, <2>2, <3>3 DEF h
    <3>6. Only(inbox'["SERVER"], "MOVE")
      <4>1. Only(inbox["SERVER"], "MOVE")
        BY <3>1 DEF OneMove
      <4>2. Only(Append(inbox["SERVER"], x), "MOVE")
        BY <1>7, <2>1, <3>2, <4>1, QueueWritten DEF Unread
      <4> QED
        BY <2>1, <3>1, <4>2
    <3>7. Has("SERVER", "MOVE")'
      BY <1>7, <2>1, <3>1 DEF Has
    <3>8. ~Has("CLIENT", "STATE_SNAPSHOT")' /\ ~Has("CLIENT", "MOVE")'
      BY <2>1, <2>6, <2>7 DEF Has
    <3> QED
      BY <2>1, <2>7, <3>4, <3>5, <3>6, <3>7, <3>8 DEF OneMove
  <2>13. OneEnd'
    <3>1. Same("CLIENT", {"STATE_SNAPSHOT", "RESIGN"}) /\ Same("SERVER", {"RESIGN"})
      BY <1>7, <2>1 DEF Same
    <3> QED
      BY <1>2, <2>2, <2>11, <3>1, OneEndKept DEF Kept
  <2> QED
    BY <2>4, <2>5, <2>8, <2>9, <2>10, <2>12, <2>13 DEF Sync, Trailing, InStep
<1> QED
  BY <1>8, <1>9 DEF TrySendLocalMove

\* The server moves on the board of its own file, which the client shows.
LEMMA SyncServerMoves ==
  ASSUME Kept, ~QuickPlayer, NEW m \in Moves, TrySendLocalMove("SERVER", m)
  PROVE  Sync'
<1> DEFINE h == Append(hist["SERVER"], m)
           x == MoveMsg(m)
           c == session["CLIENT"].color
<1>1. /\ OpenInv /\ Net /\ BoardTypes /\ "CLIENT" \in Peer /\ "SERVER" \in Peer
      /\ Other("SERVER") = "CLIENT"
  BY DEF Kept, SyncInv, OpenInv, ColourInv, BaseInv, Peer, Other
<1>2. /\ InPlay("SERVER") /\ Legal(hist["SERVER"], m)
      /\ SideToMove(hist["SERVER"]) = session["SERVER"].color
      /\ hist' = [hist EXCEPT !["SERVER"] = h] /\ snap' = RecordMove("SERVER", h)
      /\ UNCHANGED over
  BY DEF TrySendLocalMove
<1>3. /\ session["SERVER"].started
      /\ Linked => ~session["SERVER"].syncPending
      /\ hist["SERVER"] = ServerRecord /\ ServerOver = over["SERVER"]
  BY <1>1, <1>2, PlayersTurn, ServerFile
<1>4. h \in Seq(Moves) /\ h = Append(ServerRecord, m)
  BY <1>1, <1>3 DEF BoardTypes
<1>5. hist'["CLIENT"] = hist["CLIENT"]
  BY <1>1, <1>2 DEF BoardTypes
<1>6. x \in Packet /\ x.type = "MOVE" /\ x.move = m
  BY DEF MoveMsg, Packet
<1> HIDE DEF h, x
<1>7. snap'["CLIENT"] = snap["CLIENT"] /\ ServerRecord' = h
  <2>1. /\ snap'["CLIENT"] = snap["CLIENT"] /\ snap'["SERVER"] # NoSnapshot
        /\ snap'["SERVER"].hist = h
    BY <1>1, <1>2, <1>3, <1>4, ServerRecords
  <2> QED
    BY <2>1 DEF ServerRecord
<1>8. CASE HandlePeerDisconnect("SERVER", FALSE)
  BY <1>1, <1>2, <1>5, <1>7, <1>8, SyncDisconnect DEF Kept
<1>9. ASSUME Send("SERVER", x), UNCHANGED session
      PROVE  Sync'
  <2>1. /\ Linked' = Linked /\ inbox'["SERVER"] = inbox["SERVER"]
        /\ Unread("SERVER")' = Unread("SERVER") /\ inbox["CLIENT"] \in Seq(Packet)
        /\ Linked => /\ inbox'["CLIENT"] = Append(inbox["CLIENT"], x)
                     /\ Unread("CLIENT")' = Unread("CLIENT") \cup {x}
        /\ ~Linked => inbox'["CLIENT"] = inbox["CLIENT"]
    BY <1>1, <1>6, <1>9, SentMail
  <2>2. CASE ~Linked
    BY <1>2, <1>5, <1>7, <1>9, <2>1, <2>2, SyncUnlinked DEF Kept
  <2>3. CASE Linked
    <3>1. session["CLIENT"].started /\ ~session["SERVER"].syncPending /\ InSync
      BY <1>1, <1>3, <2>3, BothStarted DEF InSync, Joined
    <3>2. OneMove /\ ServerOver' = ServerOver /\ ServerRecord \in Seq(Moves)
      BY <1>2, <1>3, <1>9 DEF Kept, SyncInv, Sync, InStep, ServerOver, FileKept
    <3>3. c \in Color /\ SideToMove(ServerRecord) = Opposite(c) /\ Legal(ServerRecord, m)
      BY <1>2, <1>3, <3>1, TwoColours DEF Kept, SyncInv, OpenInv
    <3>4. SideToMove(ServerRecord) # c
      BY <3>3 DEF Opposite, Color
    <3>5. \A n \in Unread("CLIENT") : n.type # "MOVE"
      <4> SUFFICES ASSUME NEW n \in Unread("CLIENT"), n.type = "MOVE" PROVE FALSE
        OBVIOUS
      <4>1. PICK k \in Seq(Moves) : Shows(k) /\ ServerRecord = Append(k, n.move)
        BY <3>1, <3>2 DEF OneMove
      <4>2. PICK l \in Seq(Moves) : Shows(l) /\ SideToMove(l) = Opposite(c)
        BY DEF Kept, SyncInv, Sync, Trailing, MovesIn
      <4>3. k = l
        BY <4>1, <4>2, ShownOnce
      <4>4. n.move \in Moves
        <5>1. n \in Packet
          BY <2>1 DEF Unread, Range
        <5> QED
          BY <5>1, Payloads
      <4>5. SideToMove(ServerRecord) # Opposite(c)
        BY <4>1, <4>2, <4>3, <4>4, Turns
      <4> QED
        BY <3>3, <4>5
    <3>6. \A n \in Unread("SERVER") : n.type # "MOVE"
      BY <3>1, <3>2, <3>4 DEF OneMove
    <3>7. Shows(ServerRecord)
      BY <3>1, <3>2, <3>5, <3>6 DEF OneMove, Has
    <3>8. /\ Same("CLIENT", {"STATE_SNAPSHOT", "RESIGN"}) /\ Same("SERVER", {"RESIGN"})
      BY <1>6, <2>1, <2>3 DEF Same
    <3>9. \A k : Shows(k) => Shows(k)'
      <4>1. Has("CLIENT", "STATE_SNAPSHOT")' <=> Has("CLIENT", "STATE_SNAPSHOT")
        BY <3>8 DEF Same, Has
      <4> QED
        BY <1>5, <3>8, <4>1 DEF Same, Shows
    <3>10. \A n \in Unread("CLIENT")' : n.type = "MOVE" => n = x
      BY <2>1, <2>3, <3>5
    <3>11. SnapshotFirst(inbox'["CLIENT"])
      <4>1. SnapshotFirst(inbox["CLIENT"])
        BY DEF Kept, SyncInv, Sync, Trailing
      <4>2. Only(Append(inbox["CLIENT"], x), "STATE_SNAPSHOT")
        BY <1>6, <2>1, <4>1, QueueWritten DEF SnapshotFirst
      <4>3. Only(Append(inbox["CLIENT"], x), "MOVE")
        BY <1>6, <2>1, <3>5, <4>1, QueueWritten DEF SnapshotFirst, Unread
      <4>4. Before(Append(inbox["CLIENT"], x), "STATE_SNAPSHOT", {"MOVE", "RESIGN"})
        BY <1>6, <2>1, <4>1, QueueWritten DEF SnapshotFirst
      <4> QED
        BY <2>1, <2>3, <4>2, <4>3, <4>4 DEF SnapshotFirst
    <3>12. FileBehind' /\ ClientBehind'
      BY <1>5, <1>7, <1>9, FileStillBehind, ClientStillBehind DEF Kept
    <3>13. Snapshots'
      <4> SUFFICES ASSUME NEW n \in Unread("CLIENT")', n.type = "STATE_SNAPSHOT"
                   PROVE  IsPrefix(n.hist, ServerRecord') /\
                            (over'["CLIENT"] \/ IsPrefix(hist'["CLIENT"], n.hist))
        BY DEF Snapshots
      <4>1. n \in Unread("CLIENT") /\ n \in Packet
        BY <2>1, <3>8 DEF Same, Unread, Range
      <4>2. /\ IsPrefix(n.hist, ServerRecord) /\ n.hist \in Seq(Moves)
            /\ over["CLIENT"] \/ IsPrefix(hist["CLIENT"], n.hist)
        BY <4>1, Payloads DEF Kept, SyncInv, Sync, Trailing, Snapshots
      <4>3. IsPrefix(n.hist, ServerRecord')
        BY <4>2, StillBehind DEF Kept, FileKept
      <4> QED
        BY <1>2, <1>5, <4>2, <4>3
    <3>14. MovesIn'
      <4> SUFFICES ASSUME NEW n \in Unread("CLIENT")', n.type = "MOVE"
                   PROVE  \E k \in Seq(Moves) :
                            /\ Shows(k)' /\ IsPrefix(Append(k, n.move), ServerRecord')
                            /\ SideToMove(k) = Opposite(session'["CLIENT"].color)
        BY DEF MovesIn
      <4>1. Append(ServerRecord, n.move) = ServerRecord'
        BY <1>4, <1>6, <1>7, <3>10
      <4>2. IsPrefix(ServerRecord', ServerRecord')
        BY <1>4, <1>7, PrefixRefl
      <4>3. PICK r \in Seq(Moves) : r = ServerRecord
        BY <3>2
      <4>4. /\ Shows(r)' /\ IsPrefix(Append(r, n.move), ServerRecord')
            /\ SideToMove(r) = Opposite(session'["CLIENT"].color)
        BY <1>9, <3>3, <3>7, <3>9, <4>1, <4>2, <4>3
      <4> QED
        BY <4>4
    <3>15. Resuming'
      BY <1>9, <3>1 DEF Resuming
    <3>16. OneMove'
      <4>1. ~Has("SERVER", "MOVE")' /\ \A n \in Unread("SERVER")' : n.type # "MOVE"
        BY <2>1, <3>6 DEF Has
      <4>2. Only(inbox'["SERVER"], "MOVE")
        BY <2>1, <3>1, <3>2 DEF OneMove
      <4>3. Has("CLIENT", "MOVE")'
        BY <1>6, <2>1, <2>3 DEF Has
      <4>4. ASSUME NEW n \in Unread("CLIENT")', n.type = "MOVE"
            PROVE  \E k \in Seq(Moves) : /\ Shows(k)' /\ ServerRecord' = Append(k, n.move)
                                         /\ Legal(k, n.move)
        <5>1. n.move = m
          BY <1>6, <3>10, <4>4
        <5>2. PICK r \in Seq(Moves) : r = ServerRecord
          BY <3>2
        <5>3. Shows(r)' /\ ServerRecord' = Append(r, n.move) /\ Legal(r, n.move)
          BY <1>4, <1>7, <3>3, <3>7, <3>9, <5>1, <5>2
        <5> QED
          BY <5>3
      <4> QED
        BY <4>1, <4>2, <4>3, <4>4 DEF OneMove
    <3>17. OneEnd'
      <4>1. over'["CLIENT"] = over["CLIENT"]
        BY <1>2
      <4> QED
        BY <3>1, <3>2, <3>8, <4>1, OneEndKept DEF Kept
    <3> QED
      BY <3>11, <3>12, <3>13, <3>14, <3>15, <3>16, <3>17 DEF Sync, Trailing, InStep
  <2> QED
    BY <2>2, <2>3
<1> QED
  BY <1>8, <1>9 DEF TrySendLocalMove, x

LEMMA SyncTrySendLocalMove ==
  ASSUME Kept, ~QuickPlayer, NEW p \in Peer, NEW m \in Moves, TrySendLocalMove(p, m)
  PROVE  Sync'
BY SyncClientMoves, SyncServerMoves DEF Peer

\* The client resigns: its board and its file say so, and a packet tells the server.
LEMMA SyncClientResigns ==
  ASSUME Kept, ~QuickPlayer, Resign("CLIENT")
  PROVE  Sync'
<1> DEFINE x == Bare("RESIGN")
<1>1. /\ OpenInv /\ Net /\ BoardTypes /\ "CLIENT" \in Peer /\ "SERVER" \in Peer
      /\ Other("CLIENT") = "SERVER"
  BY DEF Kept, SyncInv, OpenInv, ColourInv, BaseInv, Peer, Other
<1>2. InPlay("CLIENT") /\ over' = [over EXCEPT !["CLIENT"] = TRUE] /\ UNCHANGED hist
  BY DEF Resign
<1>3. /\ session["CLIENT"].started /\ ~session["SERVER"].syncPending
      /\ ~Has("CLIENT", "STATE_SNAPSHOT")
  BY <1>1, <1>2, PlayersTurn
<1>4. x \in Packet /\ x.type = "RESIGN"
  BY DEF Bare, Packet
<1> HIDE DEF x
<1>5. CASE HandlePeerDisconnect("CLIENT", TRUE) /\ UNCHANGED snap
  <2>1. over["CLIENT"] => over'["CLIENT"]
    BY <1>1, <1>2 DEF BoardTypes
  <2> QED
    BY <1>1, <1>2, <1>5, <2>1, SyncDisconnect DEF Kept
<1>6. ASSUME Send("CLIENT", x), UNCHANGED session,
             snap' = [snap EXCEPT !["CLIENT"] =
                       Record("CLIENT", session["CLIENT"].color, hist["CLIENT"], TRUE)]
      PROVE  Sync'
  <2>1. /\ Linked' = Linked /\ inbox'["CLIENT"] = inbox["CLIENT"]
        /\ Unread("CLIENT")' = Unread("CLIENT") /\ inbox["SERVER"] \in Seq(Packet)
        /\ Linked => /\ inbox'["SERVER"] = Append(inbox["SERVER"], x)
                     /\ Unread("SERVER")' = Unread("SERVER") \cup {x}
        /\ ~Linked => /\ inbox'["SERVER"] = inbox["SERVER"]
                      /\ Unread("SERVER")' = Unread("SERVER")
    BY <1>1, <1>4, <1>6, SentMail
  <2>2. /\ over'["CLIENT"] /\ over'["SERVER"] = over["SERVER"]
        /\ snap'["SERVER"] = snap["SERVER"]
        /\ snap'["CLIENT"].hist = hist["CLIENT"] /\ snap'["CLIENT"].over
        /\ snap'["CLIENT"].white = White("CLIENT", session["CLIENT"].color)
    <3>1. /\ over' = [over EXCEPT !["CLIENT"] = TRUE]
          /\ snap' = [snap EXCEPT !["CLIENT"] =
                       Record("CLIENT", session["CLIENT"].color, hist["CLIENT"], TRUE)]
      BY <1>2, <1>6
    <3> QED
      BY <1>1, <3>1, ClientEnds
  <2>3. ServerRecord' = ServerRecord /\ ServerOver' = ServerOver
    BY <1>6, <2>2 DEF ServerRecord, ServerOver
  <2>4. /\ Same("CLIENT", {"STATE_SNAPSHOT", "MOVE"}) /\ Same("SERVER", {"MOVE"})
    BY <1>4, <2>1 DEF Same
  <2>5. SnapshotFirst(inbox'["CLIENT"])
    BY <2>1 DEF Kept, SyncInv, Sync, Trailing
  <2>6. Trailing'
    BY <1>2, <1>3, <1>6, <2>2, <2>4, <2>5, StillTrailing DEF Kept
  <2>7. Resuming'
    BY <1>3, <1>6 DEF Resuming
  <2>8. InSync' => InSync
    <3>1. Has("SERVER", "ACK")' => Has("SERVER", "ACK")
      BY <1>4, <2>1 DEF Has
    <3> QED
      BY <1>6, <2>1, <3>1 DEF InSync, Joined
  <2>9. Only(inbox["SERVER"], "MOVE") => Only(inbox'["SERVER"], "MOVE")
    <3>1. Only(inbox["SERVER"], "MOVE") => Only(Append(inbox["SERVER"], x), "MOVE")
      BY <1>4, <2>1, QueueWritten
    <3> QED
      BY <2>1, <3>1
  <2>10. OneMove'
    BY <1>2, <1>6, <2>3, <2>4, <2>8, <2>9, OneMoveKept DEF Kept
  <2>11. OneEnd'
    <3> SUFFICES ASSUME InSync PROVE OneEnd'
      BY <2>8 DEF OneEnd
    <3>1. Has("CLIENT", "RESIGN") => ServerOver
      BY DEF Kept, SyncInv, Sync, InStep, OneEnd
    <3>2. Has("SERVER", "RESIGN")'
      BY <1>4, <2>1 DEF Has, InSync, Joined
    <3>3. /\ ~Has("CLIENT", "STATE_SNAPSHOT")'
          /\ \A n \in Unread("CLIENT")' : n.type # "STATE_SNAPSHOT"
          /\ Has("CLIENT", "RESIGN")' => Has("CLIENT", "RESIGN")
      BY <1>3, <2>1 DEF Has
    <3> QED
      BY <2>2, <2>3, <3>1, <3>2, <3>3 DEF OneEnd
  <2> QED
    BY <2>6, <2>7, <2>10, <2>11 DEF Sync, InStep
<1> QED
  BY <1>5, <1>6 DEF Resign, x

\* The server resigns: its file is final, and a packet tells the client.
LEMMA SyncServerResigns ==
  ASSUME Kept, ~QuickPlayer, Resign("SERVER")
  PROVE  Sync'
<1> DEFINE x == Bare("RESIGN")
<1>1. /\ OpenInv /\ Net /\ BoardTypes /\ "CLIENT" \in Peer /\ "SERVER" \in Peer
      /\ Other("SERVER") = "CLIENT"
  BY DEF Kept, SyncInv, OpenInv, ColourInv, BaseInv, Peer, Other
<1>2. InPlay("SERVER") /\ over' = [over EXCEPT !["SERVER"] = TRUE] /\ UNCHANGED hist
  BY DEF Resign
<1>3. /\ session["SERVER"].started
      /\ Linked => ~session["SERVER"].syncPending
      /\ hist["SERVER"] = ServerRecord
  BY <1>1, <1>2, PlayersTurn, ServerFile
<1>4. x \in Packet /\ x.type = "RESIGN"
  BY DEF Bare, Packet
<1>5. over'["CLIENT"] = over["CLIENT"] /\ over'["SERVER"]
  BY <1>1, <1>2 DEF BoardTypes
<1> HIDE DEF x
<1>6. CASE HandlePeerDisconnect("SERVER", TRUE) /\ UNCHANGED snap
  BY <1>1, <1>2, <1>5, <1>6, SyncDisconnect DEF Kept
<1>7. ASSUME Send("SERVER", x), UNCHANGED session,
             snap' = [snap EXCEPT !["SERVER"] =
                       Record("SERVER", session["SERVER"].color, hist["SERVER"], TRUE)]
      PROVE  Sync'
  <2>1. /\ Linked' = Linked /\ inbox'["SERVER"] = inbox["SERVER"]
        /\ Unread("SERVER")' = Unread("SERVER") /\ inbox["CLIENT"] \in Seq(Packet)
        /\ Linked => /\ inbox'["CLIENT"] = Append(inbox["CLIENT"], x)
                     /\ Unread("CLIENT")' = Unread("CLIENT") \cup {x}
        /\ ~Linked => inbox'["CLIENT"] = inbox["CLIENT"]
    BY <1>1, <1>4, <1>7, SentMail
  <2>2. snap'["CLIENT"] = snap["CLIENT"] /\ ServerRecord' = ServerRecord
    <3>1. /\ over' = [over EXCEPT !["SERVER"] = TRUE]
          /\ snap' = [snap EXCEPT !["SERVER"] =
                       Record("SERVER", session["SERVER"].color, hist["SERVER"], TRUE)]
      BY <1>2, <1>7
    <3> QED
      BY <1>1, <1>3, <3>1, ServerEnds DEF ServerRecord
  <2>3. CASE ~Linked
    BY <1>2, <1>5, <1>7, <2>1, <2>2, <2>3, SyncUnlinked DEF Kept
  <2>4. CASE Linked
    <3>1. /\ Same("CLIENT", {"STATE_SNAPSHOT", "MOVE"}) /\ Same("SERVER", {"MOVE"})
          /\ Only(inbox["SERVER"], "MOVE") => Only(inbox'["SERVER"], "MOVE")
      BY <1>4, <2>1, <2>4 DEF Same
    <3>2. SnapshotFirst(inbox'["CLIENT"])
      <4>1. SnapshotFirst(inbox["CLIENT"])
        BY DEF Kept, SyncInv, Sync, Trailing
      <4>2. SnapshotFirst(Append(inbox["CLIENT"], x))
        BY <1>4, <2>1, <4>1, QueueWritten DEF SnapshotFirst
      <4> QED
        BY <2>1, <2>4, <4>2
    <3>3. Trailing'
      BY <1>2, <1>5, <1>7, <2>2, <3>1, <3>2, StillTrailing DEF Kept
    <3>4. Resuming'
      BY <1>3, <1>7, <2>4 DEF Resuming
    <3>5. InSync' => InSync
      <4>1. Has("SERVER", "ACK")' => Has("SERVER", "ACK")
        BY <2>1 DEF Has
      <4> QED
        BY <1>7, <2>1, <4>1 DEF InSync, Joined
    <3>6. OneMove'
      BY <1>2, <1>7, <2>2, <3>1, <3>5, OneMoveKept DEF Kept
    <3>7. OneEnd'
      <4> SUFFICES ASSUME InSync PROVE OneEnd'
        BY <3>5 DEF OneEnd
      <4>1. Has("SERVER", "RESIGN") => ~Has("CLIENT", "STATE_SNAPSHOT") /\ over["CLIENT"]
        BY DEF Kept, SyncInv, Sync, InStep, OneEnd
      <4>2. ServerOver'
        BY <1>3, <1>5, <1>7 DEF ServerOver
      <4>3. Has("CLIENT", "RESIGN")'
        BY <1>4, <2>1, <2>4 DEF Has
      <4>4. /\ Has("CLIENT", "STATE_SNAPSHOT")' => Has("CLIENT", "STATE_SNAPSHOT")
            /\ Has("SERVER", "RESIGN")' => Has("SERVER", "RESIGN")
        BY <1>4, <2>1, <2>4 DEF Has
      <4> QED
        BY <1>5, <4>1, <4>2, <4>3, <4>4 DEF OneEnd
    <3> QED
      BY <3>3, <3>4, <3>6, <3>7 DEF Sync, InStep
  <2> QED
    BY <2>3, <2>4
<1> QED
  BY <1>6, <1>7 DEF Resign, x

LEMMA SyncResign ==
  ASSUME Kept, ~QuickPlayer, NEW p \in Peer, Resign(p)
  PROVE  Sync'
BY SyncClientResigns, SyncServerResigns DEF Peer

-----------------------------------------------------------------------------
(* Nothing shown is lost *)

LEMMA InitSync ==
  Init => SyncInv
<1> SUFFICES ASSUME Init PROVE Sync
  BY InitOpen DEF SyncInv
<1>1. inbox["CLIENT"] = <<>> /\ inbox["SERVER"] = <<>> /\ snap["CLIENT"] = NoSnapshot
  BY DEF Init, Peer
<1>2. ~session["CLIENT"].started
  <2> DEFINE h == [NewSession EXCEPT !.phase = "GAME_STARTING", !.role = "SERVER",
                                     !.available = TRUE, !.helloSent = TRUE]
  <2>1. session["SERVER"] = [h EXCEPT !.helloReceived = TRUE, !.hello = TRUE,
                                      !.challengeDone = TRUE]
    BY DEF Init, Peer
  <2>2. h \in SessionType
    BY DEF NewSession, SessionType, Phase, Peer
  <2> HIDE DEF h
  <2>3. session["SERVER"].challengeDone /\ ~pend["SERVER"].set
    BY <2>1, <2>2 DEF SessionType, Init, NoPending, Peer
  <2> QED
    BY <2>3, InitOpen DEF OpenInv, ColourInv, Colours, Undrawn, Peer
<1>3. Unread("CLIENT") = {} /\ Unread("SERVER") = {}
  <2>1. Range(<<>>) = {}
    BY DEF Range
  <2> QED
    BY <1>1, <2>1 DEF Unread
<1>4. SnapshotFirst(inbox["CLIENT"])
  <2>1. inbox["CLIENT"] \in Seq(Packet)
    BY InitOpen DEF OpenInv, ColourInv, BaseInv, Net, Peer
  <2> QED
    BY <1>3, <2>1, NothingFirst DEF Unread
<1>5. Trailing
  BY <1>1, <1>2, <1>3, <1>4 DEF Trailing, FileBehind, ClientBehind, Snapshots, MovesIn
<1>6. InStep
  BY <1>2 DEF InStep, Resuming, OneMove, OneEnd, InSync, Joined
<1> QED
  BY <1>5, <1>6 DEF Sync

LEMMA NextSync ==
  ASSUME ~QuickPlayer
  PROVE  SyncInv /\ [Next]_vars => SyncInv'
<1> SUFFICES ASSUME SyncInv, [Next]_vars PROVE SyncInv'
  OBVIOUS
<1>1. Kept
  BY NextOpen, FileOnlyGrows DEF SyncInv, Kept
<1> SUFFICES Sync'
  BY <1>1 DEF Kept, SyncInv
<1>2. CASE UNCHANGED vars
  BY <1>1, <1>2, SyncSame, MailSame DEF vars, board, Kept
<1>3. CASE Break
  BY <1>1, <1>3, SyncBreak
<1>4. ASSUME NEW p \in Peer,
             \/ Discover(p) \/ NetTick(p) \/ RetryStart(p) \/ PlayerInput(p)
             \/ Crash(p) \/ Restart(p)
      PROVE  Sync'
  <2>1. CASE NetTick(p)
    <3>1. CASE DispatchIncomingPacket(p)
      BY <1>1, <3>1, SyncFlags, SyncHandleStart, SyncHandleAck, SyncHandleResumeRequest,
         SyncResumeResponse, SyncHandleStateSnapshot, SyncHandleMove, SyncHandleResign
      DEF DispatchIncomingPacket
    <3> QED
      BY <1>1, <2>1, <3>1, SyncConnect, SyncFinalizeConnect, SyncHello, SyncFlags,
         SyncReceiveError, SyncSendStateSnapshot DEF NetTick
  <2>2. CASE PlayerInput(p)
    BY <1>1, <2>2, SyncTrySendLocalMove, SyncResign, SyncReturnToLobby DEF PlayerInput
  <2> QED
    BY <1>1, <1>4, <2>1, <2>2, SyncDiscover, SyncFlags, SyncCrash, SyncRestart
<1> QED
  BY <1>2, <1>3, <1>4 DEF Next

LEMMA SyncInvariance ==
  ASSUME ~QuickPlayer
  PROVE  Spec => []SyncInv
BY InitSync, NextSync, PTL DEF Spec

\* A game without its last move.
LEMMA WithoutLast ==
  ASSUME NEW f \in Seq(Moves), NEW m \in Moves, NEW h, h = Append(f, m)
  PROVE  h # <<>> /\ [i \in 1..Len(h) - 1 |-> h[i]] = f
<1>1. Len(f) \in Nat /\ Len(h) = Len(f) + 1 /\ \A i \in 1..Len(f) : h[i] = f[i]
  BY AppendProperties, LenProperties
<1>2. f = [i \in 1..Len(f) |-> f[i]]
  BY SeqDef
<1>3. Len(h) - 1 = Len(f)
  BY <1>1
<1>4. h # <<>>
  BY <1>1
<1> QED
  BY <1>1, <1>2, <1>3, <1>4

LEMMA SyncGivesNothingShownIsLost ==
  SyncInv => NothingShownIsLost
<1> SUFFICES ASSUME SyncInv PROVE NothingShownIsLost
  OBVIOUS
<1> DEFINE h == hist["CLIENT"]
           last == [i \in 1..Len(h) - 1 |-> h[i]]
<1>1. session["SERVER"].started => hist["SERVER"] = ServerRecord
  BY ServerFile DEF SyncInv
<1>2. ASSUME session["CLIENT"].started
      PROVE  \/ IsPrefix(h, ServerRecord)
             \/ /\ h # <<>> /\ IsPrefix(last, ServerRecord)
                /\ SideToMove(last) = session["CLIENT"].color
  <2>1. Behind(h, ServerRecord, session["CLIENT"].color)
    BY <1>2 DEF SyncInv, Sync, Trailing, ClientBehind
  <2>2. CASE IsPrefix(h, ServerRecord)
    BY <2>2
  <2>3. CASE Ahead(h, ServerRecord, session["CLIENT"].color)
    <3>1. PICK f \in Seq(Moves), m \in Moves :
            /\ h = Append(f, m) /\ IsPrefix(f, ServerRecord)
            /\ SideToMove(f) = session["CLIENT"].color
      BY <2>3 DEF Ahead
    <3> HIDE DEF h
    <3>2. h # <<>> /\ last = f
      BY <3>1, WithoutLast
    <3> QED
      BY <3>1, <3>2
  <2> QED
    BY <2>1, <2>2, <2>3 DEF Behind
<1> QED
  BY <1>1, <1>2 DEF NothingShownIsLost

\* Whatever breaks or crashes, and however often the game is resumed, the moves
\* that a program shows are in the server's file, but for the client's last one
\* while it is on its way (or was lost there): a restart costs no other move.
THEOREM ShownMovesKept ==
  ASSUME ~QuickPlayer
  PROVE  Spec => []NothingShownIsLost
BY SyncInvariance, SyncGivesNothingShownIsLost, PTL

-----------------------------------------------------------------------------
(* The two show the same game *)

LEMMA SyncGivesInStepAtRest ==
  SyncInv => InStepAtRest
<1> SUFFICES ASSUME SyncInv, AtRest
             PROVE  hist["SERVER"] = hist["CLIENT"] /\ over["SERVER"] = over["CLIENT"]
  BY DEF InStepAtRest
<1>1. /\ session["CLIENT"].started /\ session["SERVER"].started /\ conn["CLIENT"] = "live"
      /\ conn["SERVER"] = "live" /\ inbox["CLIENT"] = <<>> /\ inbox["SERVER"] = <<>>
      /\ TickDone("SERVER") /\ dialing = {}
  BY DEF AtRest, Peer
<1>2. \A p \in Peer : \A t : ~Has(p, t)
  <2>1. Range(<<>>) = {}
    BY DEF Range
  <2> QED
    BY <1>1, <2>1 DEF Has, Unread, Peer
<1>3. session["SERVER"].role = "SERVER" /\ session["SERVER"].startDone
  BY <1>1 DEF SyncInv, OpenInv, ColourInv, BaseInv, Locals, LocalTo, Peer
<1>4. InSync
  BY <1>1, <1>3 DEF TickDone, SnapshotDue, InSync, Joined, Linked
<1>5. hist["SERVER"] = ServerRecord /\ ServerOver = over["SERVER"]
  BY <1>1, ServerFile DEF SyncInv
<1>6. hist["CLIENT"] = ServerRecord
  <2>1. Shows(ServerRecord)
    BY <1>2, <1>4 DEF SyncInv, Sync, InStep, OneMove, Peer
  <2> QED
    BY <1>2, <2>1 DEF Shows, Peer
<1>7. over["CLIENT"] <=> ServerOver
  BY <1>2, <1>4 DEF SyncInv, Sync, InStep, OneEnd, Peer
<1>8. over["CLIENT"] \in BOOLEAN /\ over["SERVER"] \in BOOLEAN
  BY DEF SyncInv, OpenInv, ColourInv, BaseInv, BoardTypes, Peer
<1> QED
  BY <1>5, <1>6, <1>7, <1>8

\* When both programs are in the game, their connection is open and everything
\* written on it has been read, both show the same moves and the same end: the
\* message "Game state re-synchronized." tells the truth.
THEOREM InStepWhenRead ==
  ASSUME ~QuickPlayer
  PROVE  Spec => []InStepAtRest
BY SyncInvariance, SyncGivesInStepAtRest, PTL

-----------------------------------------------------------------------------
(* No board goes back *)

\* A board keeps its moves, gains one, or is replaced by the game resumed.
LEMMA NextBoards ==
  ASSUME SyncInv, [Next]_vars, NEW q \in Peer, session[q].started, ~over[q],
         session'[q].started
  PROVE  IsPrefix(hist[q], hist'[q])
<1>1. hist \in [Peer -> Seq(Moves)] /\ session \in [Peer -> SessionType]
      /\ Locals /\ Net /\ session[q].startDone
  BY DEF SyncInv, OpenInv, ColourInv, BaseInv, BoardTypes, SessionTypes, Locals, LocalTo
<1>2. CASE hist'[q] = hist[q]
  BY <1>1, <1>2, PrefixRefl
<1>3. ASSUME NEW p \in Peer, NEW h, hist' = [hist EXCEPT ![p] = h], p # q
      PROVE  hist'[q] = hist[q]
  BY <1>1, <1>3
<1>4. ASSUME NEW p \in Peer, NEW m \in Moves, hist' = [hist EXCEPT ![p] = Append(hist[p], m)]
      PROVE  IsPrefix(hist[q], hist'[q])
  <2>1. CASE p = q
    BY <1>1, <1>4, <2>1, PrefixAppend
  <2> QED
    BY <1>1, <1>2, <1>4, <2>1
<1>5. ASSUME NEW p \in Peer, HandleStart(p)
      PROVE  hist'[q] = hist[q]
  <2>1. CASE p = q
    BY <1>1, <1>5, <2>1 DEF HandleStart, StartAcceptable, board
  <2> QED
    BY <1>1, <1>5, <2>1 DEF HandleStart, board
<1>6. ASSUME NEW p \in Peer, HandleAck(p)
      PROVE  hist'[q] = hist[q]
  <2>1. CASE p = q
    BY <1>1, <1>6, <2>1 DEF HandleAck, board
  <2> QED
    BY <1>1, <1>6, <2>1 DEF HandleAck, board
<1>7. ASSUME NEW p \in Peer, HandleStateSnapshot(p)
      PROVE  IsPrefix(hist[q], hist'[q])
  <2> DEFINE m == Head(inbox[p])
  <2>1. Receive(p, "STATE_SNAPSHOT")
    BY <1>7 DEF HandleStateSnapshot
  <2>2. CASE p = q /\ hist' = [hist EXCEPT ![p] = m.hist]
    <3>1. /\ m \in Packet /\ m.type = "STATE_SNAPSHOT" /\ m \in To(p)
          /\ inbox[p] \in Seq(Packet) /\ inbox[p] # <<>>
      BY <1>1, <2>1, Received DEF Net
    <3>2. m \in Unread(p)
      BY <3>1, QueueRead DEF Unread
    <3> HIDE DEF m
    <3>3. p = "CLIENT"
      BY <3>1 DEF To, ToServer, Peer
    <3>4. IsPrefix(hist["CLIENT"], m.hist)
      BY <2>2, <3>1, <3>2, <3>3 DEF SyncInv, Sync, Trailing, Snapshots
    <3> QED
      BY <1>1, <2>2, <3>3, <3>4
  <2>3. CASE ~(p = q /\ hist' = [hist EXCEPT ![p] = m.hist])
    <3>1. hist'[q] = hist[q]
      BY <1>1, <1>7, <2>3 DEF HandleStateSnapshot, board
    <3> QED
      BY <1>2, <3>1
  <2> QED
    BY <2>2, <2>3
<1>8. ASSUME NEW p \in Peer, HandleMove(p)
      PROVE  IsPrefix(hist[q], hist'[q])
  <2> DEFINE m == Head(inbox[p]).move
  <2>1. Receive(p, "MOVE")
    BY <1>8 DEF HandleMove
  <2>2. m \in Moves
    BY <1>1, <2>1, Received, Payloads
  <2>3. hist' = hist \/ hist' = [hist EXCEPT ![p] = Append(hist[p], m)]
    BY <1>8 DEF HandleMove
  <2> HIDE DEF m
  <2> QED
    BY <1>2, <1>4, <2>2, <2>3
<1>9. ASSUME NEW p \in Peer, NEW m \in Moves, TrySendLocalMove(p, m)
      PROVE  IsPrefix(hist[q], hist'[q])
  BY <1>4, <1>9 DEF TrySendLocalMove
<1>10. ASSUME NEW p \in Peer, ReturnToLobby(p) \/ Crash(p)
       PROVE  hist'[q] = hist[q]
  <2>1. hist' = [hist EXCEPT ![p] = <<>>] /\ session' = [session EXCEPT ![p] = NewSession]
    BY <1>10 DEF ReturnToLobby, Crash
  <2>2. ~NewSession.started
    BY DEF NewSession
  <2> QED
    BY <1>1, <2>1, <2>2
<1>11. ASSUME NEW p \in Peer, \/ Discover(p) \/ RetryStart(p) \/ Restart(p) \/ Resign(p)
       PROVE  UNCHANGED hist
  BY <1>11 DEF Discover, RetryStart, Restart, Resign, board
<1>12. ASSUME NEW p \in Peer, NetTick(p), ~DispatchIncomingPacket(p)
       PROVE  UNCHANGED hist
  BY <1>12 DEF NetTick, Dial, FinalizeConnect, Accept, AdvanceHelloClient, AdvanceHelloServer,
     SendResumeRequest, ReceiveError, SendStart, SendStateSnapshot, board
<1>13. ASSUME NEW p \in Peer, \/ HandleHello(p) \/ HandleResumeRequest(p)
                              \/ HandleResumeResponse(p) \/ HandleResign(p)
       PROVE  UNCHANGED hist
  BY <1>13 DEF HandleHello, HandleResumeRequest, HandleResumeResponse, HandleResign, board
<1>14. ASSUME NEW p \in Peer, DispatchIncomingPacket(p)
       PROVE  IsPrefix(hist[q], hist'[q])
  BY <1>2, <1>5, <1>6, <1>7, <1>8, <1>13, <1>14 DEF DispatchIncomingPacket
<1>15. ASSUME NEW p \in Peer, PlayerInput(p)
       PROVE  IsPrefix(hist[q], hist'[q])
  BY <1>2, <1>9, <1>10, <1>11, <1>15 DEF PlayerInput
<1>16. CASE UNCHANGED vars
  BY <1>2, <1>16 DEF vars
<1>17. CASE Break
  BY <1>2, <1>17 DEF Break, board
<1> QED
  BY <1>2, <1>10, <1>11, <1>12, <1>14, <1>15, <1>16, <1>17 DEF Next

\* While a game is on the screen its moves stay there: a repeated START finds
\* the game started, and a STATE_SNAPSHOT is never older than the client's board.
THEOREM BoardsNeverRewound ==
  ASSUME ~QuickPlayer
  PROVE  Spec => NeverRewound
<1>1. SyncInv /\ [Next]_vars =>
        [\A p \in Peer : session[p].started /\ ~over[p] /\ session'[p].started =>
                           IsPrefix(hist[p], hist'[p])]_vars
  BY NextBoards
<1> QED
  BY <1>1, SyncInvariance, PTL DEF Spec, NeverRewound

====
