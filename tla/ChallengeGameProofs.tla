---- MODULE ChallengeGameProofs ----
(***************************************************************************)
(* Proofs about module Challenge, for any number of programs: what a       *)
(* program makes of a connection and what the other end of it does fit     *)
(* together, from the connect to the ACK, so that a game has one server,   *)
(* is one both players asked for, leaves no challenge open behind it and   *)
(* starts or is given up.  It holds until something goes astray in one of  *)
(* them (`strayed`): a peer that leaves while challenges are pending, a    *)
(* second challenge that is accepted while a game starts, or a kept OFFER  *)
(* that is applied when its sender does not await the answer any more.     *)
(***************************************************************************)
EXTENDS ChallengeProofs

-----------------------------------------------------------------------------
(* The packets of a connection.  Each end writes three, in this order, and   *)
(* the acceptor may write the third, START, again.                           *)

ByDialer(p) ==
  [n \in 1 .. 3 |-> IF n = 1 THEN [type |-> "HELLO", from |-> p]
                    ELSE IF n = 2 THEN [type |-> "OFFER", from |-> p] ELSE [type |-> "ACK"]]

ByAcceptor(p) ==
  [n \in 1 .. 3 |-> IF n = 1 THEN [type |-> "HELLO", from |-> p]
                    ELSE IF n = 2 THEN [type |-> "ACCEPT", from |-> p] ELSE [type |-> "START"]]

\* Of the w packets written the first r are read and the others are in the queue.
Stream(queue, packets, r, w) ==
  /\ r \in 0 .. 3 /\ w \in 0 .. 3 /\ r <= w /\ Len(queue) = w - r
  /\ \A n \in 1 .. w - r : queue[n] = packets[r + n]

\* The same of packets of which the last one may have been written repeatedly.
Repeats(queue, packets, r, w) ==
  /\ r \in 0 .. 3 /\ w \in 0 .. 3 /\ r <= w
  /\ Len(queue) \in Nat /\ Len(queue) >= w - r
  /\ w < 3 => Len(queue) = w - r
  /\ \A n \in 1 .. Len(queue) : queue[n] = packets[IF r + n <= 3 THEN r + n ELSE 3]

\* How many of the three are read after one more is.
OneMore(r) == IF r < 3 THEN r + 1 ELSE 3

\* How many packets the dialer has read and written on c, from its slots f (the
\* first n in use), its session s and its transport t; and whether it has c open.
ReadBy(f, n, s, t, c) ==
  IF t = c THEN IF s.startDone THEN 3 ELSE 2
  ELSE IF \E i \in 1 .. n : f[i].fd = c /\ f[i].hello = "completed" THEN 1 ELSE 0

WrittenBy(f, n, s, t, c) ==
  IF t = c THEN IF s.startDone THEN 3 ELSE 2
  ELSE IF \E i \in 1 .. n : f[i].fd = c /\ f[i].offerSent THEN 2
  ELSE IF \E i \in 1 .. n : f[i].fd = c /\ f[i].hello # "no" THEN 1 ELSE 0

HeldBy(f, n, t, c) == t = c \/ \E i \in 1 .. n : f[i].fd = c

\* The same of an acceptor, which has one connection: its game connection.
AnswersOf(s) == IF s.startSent THEN 3 ELSE IF s.challengeDone THEN 2
                ELSE IF s.helloSent THEN 1 ELSE 0

\* A retry forgets that START is sent.
HasAnswered(s, w) == w = AnswersOf(s) \/ (s.challengeDone /\ w = 3)

\* An ACK that is read may be passed over: it comes between a retry and its START.
HasRead(s, r) == (s.helloReceived <=> r >= 1) /\ (s.startDone => r = 3)

-----------------------------------------------------------------------------
(* The inductive invariant *)

Free(k) == \E st \in {"free", "closed"} : k = Unused(st)

ToDialer(k, read, s) ==
  \E w \in 0 .. 3 :
    /\ Repeats(k.toRead["dialer"], ByAcceptor(k.ends["acceptor"]), read, w)
    /\ k.state["acceptor"] \in {"free", "queued"} => w = 0
    /\ k.state["acceptor"] = "open" => HasAnswered(s, w)

ToAcceptor(k, written, s) ==
  \E r, w \in 0 .. 3 :
    /\ Stream(k.toRead["acceptor"], ByDialer(k.ends["dialer"]), r, w)
    /\ k.state["dialer"] = "open" => w = written
    /\ k.state["acceptor"] # "open" => r = 0 /\ w <= 1
    /\ k.state["acceptor"] = "open" =>
         HasRead(s, r) /\ (w >= 2 => s.helloSent) /\ (w = 3 => s.challengeDone)

\* Connection k joins two programs: what is in the queue of an open end is what the
\* other has written and it has not read.
Joined(k, read, written, s) ==
  /\ k.ends["dialer"] \in Program /\ k.ends["acceptor"] \in Program
  /\ k.ends["dialer"] # k.ends["acceptor"]
  /\ \/ k.state["dialer"] = "open"
     \/ k.state["dialer"] = "closed" /\ k.state["acceptor"] \in {"queued", "open"}
  /\ k.state["dialer"] = "open" => ToDialer(k, read, s)
  /\ k.state["acceptor"] # "closed" => ToAcceptor(k, written, s)

Dialer(c) == conns[c].ends["dialer"]
Acceptor(c) == conns[c].ends["acceptor"]

Held(p, c) == HeldBy(slots[p], count[p], transport[p], c)
HasReadBy(p, c) == ReadBy(slots[p], count[p], session[p], transport[p], c)
HasWritten(p, c) == WrittenBy(slots[p], count[p], session[p], transport[p], c)

\* An end that is open is one its program knows of.
ConnInv(c) ==
  \/ Free(conns[c])
  \/ /\ Joined(conns[c], HasReadBy(Dialer(c), c), HasWritten(Dialer(c), c),
               session[Acceptor(c)])
     /\ conns[c].state["dialer"] = "open" => Held(Dialer(c), c)
     /\ conns[c].state["acceptor"] = "open" => transport[Acceptor(c)] = c

Settled(s) == s.phase \in {"GAME_STARTING", "IN_GAME", "DISCONNECTED"}

\* A slot s of p, with connections cs.  A challenge that is connected is
\* undecided; its state is that of a challenge p has made, unless p has taken the
\* OFFER of that peer on a game connection that is hung up.
SlotInv(p, s, t, own, cs) ==
  /\ s.fd # 0 =>
       /\ cs[s.fd].ends["dialer"] = p /\ cs[s.fd].ends["acceptor"] = s.peer
       /\ cs[s.fd].state["dialer"] = "open"
       /\ s.connecting <=> cs[s.fd].state["acceptor"] = "free"
       /\ s.connecting => s.hello = "no"
       /\ s.offerSent => s.hello = "completed"
       /\ ~own.challengeDone /\ ~Settled(own)
       /\ \/ s.state = "OUTGOING_PENDING"
          \/ /\ s.state = "INCOMING_PENDING" /\ t # 0
             /\ cs[t].ends["acceptor"] = p /\ cs[t].state["dialer"] = "closed"
  /\ \/ s.state \in {"NONE", "CONNECT_FAILED"}
     \/ s.state = "OUTGOING_PENDING" /\ s.fd = 0 /\ ~own.challengeDone /\ ~Settled(own)
     => s.hello = "no" /\ ~s.offerSent

\* The player has asked for the game with q, and q's slot shows it.
Matched(f, n, a, q) ==
  q \in a /\ \E i \in 1 .. n : f[i].peer = q /\ f[i].state = "MATCHED"

\* A program without a game connection.
Alone(s, f, n) ==
  /\ ~s.helloSent /\ ~s.helloReceived /\ ~s.hello /\ ~s.challengeDone /\ ~s.startSent
  /\ s.remote = None
  /\ \/ s.phase = "DISCONNECTED"
     \/ /\ s.phase = "IDLE" /\ s.role = "UNKNOWN" /\ ~s.startDone
        /\ \A i \in 1 .. n : f[i].state # "INCOMING_PENDING"

\* A program whose challenge of q has become its game connection.
Client(s, f, n, a, q) ==
  /\ s.role = "CLIENT" /\ s.remote = q /\ ~s.startSent
  /\ s.phase = IF s.startDone THEN "IN_GAME" ELSE "GAME_STARTING"
  /\ Matched(f, n, a, q)

\* A program that has accepted q's connection.
Server(s, f, n, a, q) ==
  /\ s.role # "CLIENT" /\ s.remote = (IF s.helloReceived THEN q ELSE None)
  /\ s.hello = s.helloSent
  /\ s.helloSent => s.helloReceived /\ s.role = "SERVER"
  /\ s.challengeDone => s.helloSent /\ Matched(f, n, a, q)
  /\ s.startSent => s.challengeDone
  /\ s.startDone => s.startSent
  /\ s.phase = "GAME_STARTING" <=> s.challengeDone /\ ~s.startDone
  /\ s.phase = "IN_GAME" <=> s.startDone
  /\ s.phase # "DISCONNECTED"
  /\ \A i \in 1 .. n : f[i].state = "INCOMING_PENDING" => f[i].peer = q /\ s.helloSent

SessionInv(p, s, t, f, n, a, cs) ==
  \/ t = 0 /\ Alone(s, f, n)
  \/ /\ t # 0 /\ cs[t].ends["dialer"] = p /\ cs[t].state["dialer"] = "open"
     /\ Client(s, f, n, a, cs[t].ends["acceptor"])
  \/ /\ t # 0 /\ cs[t].ends["acceptor"] = p /\ cs[t].state["acceptor"] = "open"
     /\ Server(s, f, n, a, cs[t].ends["dialer"])

ProgInv(p) ==
  /\ SessionInv(p, session[p], transport[p], slots[p], count[p], asked[p], conns)
  /\ \A i \in 1 .. MaxSlots : SlotInv(p, slots[p][i], transport[p], session[p], conns)

\* The connections in a listen queue b of p wait to be accepted, each once.
Waiting(p, b, cs) ==
  /\ \A n \in 1 .. Len(b) : cs[b[n]].ends["acceptor"] = p /\ cs[b[n]].state["acceptor"] = "queued"
  /\ \A m, n \in 1 .. Len(b) : b[m] = b[n] => m = n

GameInv ==
  /\ AskedInv
  /\ \A c \in ConnId : ConnInv(c)
  /\ \A p \in Program : ProgInv(p)
  /\ \A p \in Program : Waiting(p, backlog[p], conns)

-----------------------------------------------------------------------------
(* Lemmas on the packets *)

LEMMA Packets ==
  ASSUME NEW p
  PROVE  /\ ByDialer(p)[1] = [type |-> "HELLO", from |-> p]
         /\ ByDialer(p)[2] = [type |-> "OFFER", from |-> p]
         /\ ByDialer(p)[3] = [type |-> "ACK"]
         /\ ByAcceptor(p)[1] = [type |-> "HELLO", from |-> p]
         /\ ByAcceptor(p)[2] = [type |-> "ACCEPT", from |-> p]
         /\ ByAcceptor(p)[3] = [type |-> "START"]
<1>1. 1 \in 1 .. 3 /\ 2 \in 1 .. 3 /\ 3 \in 1 .. 3 /\ 2 # 1 /\ 3 # 1 /\ 3 # 2
  OBVIOUS
<1> QED
  BY <1>1 DEF ByDialer, ByAcceptor

\* One more packet is written.
LEMMA StreamWritten ==
  ASSUME NEW M, NEW queue \in Seq(M), NEW packets, NEW r, NEW w, Stream(queue, packets, r, w),
         w < 3, NEW m \in M, m = packets[w + 1]
  PROVE  Stream(Append(queue, m), packets, r, w + 1)
<1>1. /\ r \in 0 .. 3 /\ w \in 0 .. 3 /\ r <= w /\ Len(queue) = w - r
      /\ \A n \in 1 .. w - r : queue[n] = packets[r + n]
  BY DEF Stream
<1> DEFINE q == Append(queue, m)
<1>2. /\ Len(q) = (w - r) + 1
      /\ \A n \in 1 .. w - r : q[n] = queue[n]
      /\ q[(w - r) + 1] = m
  <2>1. /\ Len(q) = Len(queue) + 1 /\ q[Len(queue) + 1] = m
        /\ \A n \in 1 .. Len(queue) : q[n] = queue[n]
    OBVIOUS
  <2> QED
    BY <1>1, <2>1
<1> HIDE DEF q
<1>3. r \in 0 .. 3 /\ w + 1 \in 0 .. 3 /\ r <= w + 1 /\ Len(q) = (w + 1) - r
  BY <1>1, <1>2
<1>4. ASSUME NEW n \in 1 .. (w + 1) - r PROVE q[n] = packets[r + n]
  <2>1. CASE n = (w - r) + 1
    <3>1. r + n = w + 1
      BY <1>1, <2>1
    <3> QED
      BY <1>2, <2>1, <3>1
  <2>2. CASE n # (w - r) + 1
    <3>1. n \in 1 .. w - r
      BY <1>1, <2>2
    <3> QED
      BY <1>1, <1>2, <3>1
  <2> QED
    BY <2>1, <2>2
<1>5. Stream(q, packets, r, w + 1)
  BY <1>3, <1>4 DEF Stream
<1> QED
  BY <1>5 DEF q

\* One more packet is read.
LEMMA StreamRead ==
  ASSUME NEW M, NEW queue \in Seq(M), NEW packets, NEW r, NEW w, Stream(queue, packets, r, w),
         queue # <<>>
  PROVE  /\ r \in 0 .. 2 /\ r < w /\ w \in 1 .. 3 /\ Head(queue) = packets[r + 1]
         /\ Stream(Tail(queue), packets, r + 1, w)
<1>1. /\ r \in 0 .. 3 /\ w \in 0 .. 3 /\ r <= w /\ Len(queue) = w - r
      /\ \A n \in 1 .. w - r : queue[n] = packets[r + n]
  BY DEF Stream
<1> DEFINE q == Tail(queue)
<1>2. Len(queue) # 0 /\ Head(queue) = queue[1] /\ Len(q) = Len(queue) - 1
      /\ \A n \in 1 .. Len(queue) - 1 : q[n] = queue[n + 1]
  <2>1. Len(queue) \in Nat /\ Len(queue) # 0
    OBVIOUS
  <2> QED
    BY <2>1
<1> HIDE DEF q
<1>3. r \in 0 .. 2 /\ r < w /\ w \in 1 .. 3 /\ 1 \in 1 .. w - r
  BY <1>1, <1>2
<1>4. ASSUME NEW n \in 1 .. w - (r + 1) PROVE q[n] = packets[(r + 1) + n]
  <2>1. n \in 1 .. (w - r) - 1 /\ n + 1 \in 1 .. w - r /\ r + (n + 1) = (r + 1) + n
    BY <1>3
  <2> QED
    BY <1>1, <1>2, <2>1
<1>5. r + 1 \in 0 .. 3 /\ w \in 0 .. 3 /\ r + 1 <= w /\ Len(q) = w - (r + 1)
  BY <1>1, <1>2, <1>3
<1>6. Stream(q, packets, r + 1, w)
  BY <1>4, <1>5 DEF Stream
<1> QED
  BY <1>1, <1>2, <1>3, <1>6 DEF q

LEMMA StreamBounds ==
  ASSUME NEW queue, NEW packets, NEW r, NEW w, Stream(queue, packets, r, w)
  PROVE  r \in 0 .. 3 /\ w \in 0 .. 3 /\ r <= w
BY DEF Stream

\* A packet written and not read is in the queue.
LEMMA StreamHolds ==
  ASSUME NEW M, NEW queue \in Seq(M), NEW packets, NEW r, NEW w, Stream(queue, packets, r, w),
         NEW n \in 1 .. 3, r < n, n <= w
  PROVE  \E k \in DOMAIN queue : queue[k] = packets[n]
<1>1. /\ r \in 0 .. 3 /\ w \in 0 .. 3 /\ Len(queue) = w - r
      /\ \A k \in 1 .. w - r : queue[k] = packets[r + k]
  BY DEF Stream
<1>2. n - r \in 1 .. w - r /\ r + (n - r) = n
  BY <1>1
<1>3. DOMAIN queue = 1 .. w - r
  BY <1>1
<1> QED
  BY <1>1, <1>2, <1>3

\* What is in the queue was written and is not read.
LEMMA StreamOf ==
  ASSUME NEW M, NEW queue \in Seq(M), NEW packets, NEW r, NEW w, Stream(queue, packets, r, w),
         NEW k \in DOMAIN queue
  PROVE  \E n \in 1 .. 3 : r < n /\ n <= w /\ queue[k] = packets[n]
<1>1. /\ r \in 0 .. 3 /\ w \in 0 .. 3 /\ Len(queue) = w - r
      /\ \A n \in 1 .. w - r : queue[n] = packets[r + n]
  BY DEF Stream
<1>2. k \in 1 .. w - r
  BY <1>1
<1>3. r + k \in 1 .. 3 /\ r < r + k /\ r + k <= w
  <2>1. r \in Nat /\ w \in Nat /\ w <= 3
    BY <1>1
  <2>2. k \in Nat /\ k >= 1 /\ k <= w - r
    BY <1>2, <2>1
  <2> QED
    BY <2>1, <2>2
<1>4. queue[k] = packets[r + k]
  BY <1>1, <1>2
<1> QED
  BY <1>3, <1>4

LEMMA StreamEmpty ==
  ASSUME NEW packets
  PROVE  Stream(<<>>, packets, 0, 0)
BY DEF Stream

\* The same of packets the last of which is repeated.
LEMMA RepeatsWritten ==
  ASSUME NEW M, NEW queue \in Seq(M), NEW packets, NEW r, NEW w, Repeats(queue, packets, r, w),
         NEW m \in M, m = packets[OneMore(w)]
  PROVE  OneMore(w) \in 0 .. 3 /\ Repeats(Append(queue, m), packets, r, OneMore(w))
<1>1. /\ r \in 0 .. 3 /\ w \in 0 .. 3 /\ r <= w
      /\ Len(queue) \in Nat /\ Len(queue) >= w - r /\ (w < 3 => Len(queue) = w - r)
      /\ \A n \in 1 .. Len(queue) : queue[n] = packets[IF r + n <= 3 THEN r + n ELSE 3]
  BY DEF Repeats
<1> DEFINE q == Append(queue, m)
           v == OneMore(w)
           len == Len(queue)
<1>2. /\ Len(q) = len + 1 /\ q[len + 1] = m
      /\ \A n \in 1 .. len : q[n] = queue[n]
  OBVIOUS
<1>3. /\ v \in 0 .. 3 /\ w <= v /\ (w < 3 => v = w + 1) /\ (w = 3 => v = 3)
  BY <1>1 DEF OneMore
<1> HIDE DEF q, v, len
<1>4. /\ len \in Nat /\ len >= w - r /\ (w < 3 => len = w - r)
      /\ m = packets[v]
  BY <1>1 DEF len, v
<1>5. /\ r <= v /\ Len(q) \in Nat /\ Len(q) >= v - r /\ (v < 3 => Len(q) = v - r)
  BY <1>1, <1>2, <1>3, <1>4
<1>6. ASSUME NEW n \in 1 .. len + 1
      PROVE  q[n] = packets[IF r + n <= 3 THEN r + n ELSE 3]
  <2>1. CASE n = len + 1
    <3>1. (IF r + n <= 3 THEN r + n ELSE 3) = v
      BY <1>1, <1>3, <1>4, <2>1
    <3> QED
      BY <1>2, <1>4, <2>1, <3>1
  <2>2. CASE n # len + 1
    <3>1. n \in 1 .. len
      BY <1>4, <2>2
    <3>2. queue[n] = packets[IF r + n <= 3 THEN r + n ELSE 3]
      BY <1>1, <3>1 DEF len
    <3> QED
      BY <1>2, <3>1, <3>2
  <2> QED
    BY <2>1, <2>2
<1>7. Repeats(q, packets, r, v)
  BY <1>1, <1>2, <1>3, <1>5, <1>6 DEF Repeats
<1> QED
  BY <1>3, <1>7 DEF q, v

LEMMA RepeatsRead ==
  ASSUME NEW M, NEW queue \in Seq(M), NEW packets, NEW r, NEW w, Repeats(queue, packets, r, w),
         queue # <<>>
  PROVE  /\ r \in 0 .. 3 /\ w \in 1 .. 3 /\ OneMore(r) \in 1 .. 3 /\ OneMore(r) <= w
         /\ Head(queue) = packets[OneMore(r)]
         /\ Repeats(Tail(queue), packets, OneMore(r), w)
<1>1. /\ r \in 0 .. 3 /\ w \in 0 .. 3 /\ r <= w
      /\ Len(queue) \in Nat /\ Len(queue) >= w - r /\ (w < 3 => Len(queue) = w - r)
      /\ \A n \in 1 .. Len(queue) : queue[n] = packets[IF r + n <= 3 THEN r + n ELSE 3]
  BY DEF Repeats
<1> DEFINE q == Tail(queue)
           v == OneMore(r)
           len == Len(queue)
<1>2. /\ len # 0 /\ Head(queue) = queue[1] /\ Len(q) = len - 1
      /\ \A n \in 1 .. len - 1 : q[n] = queue[n + 1]
  <2>1. Len(queue) \in Nat /\ Len(queue) # 0
    OBVIOUS
  <2> QED
    BY <2>1
<1>3. /\ v \in 1 .. 3 /\ r <= v /\ (r < 3 => v = r + 1) /\ (r = 3 => v = 3)
  BY <1>1 DEF OneMore
<1> HIDE DEF q, v, len
<1>4. /\ len \in Nat /\ len >= w - r /\ (w < 3 => len = w - r)
      /\ \A n \in 1 .. len : queue[n] = packets[IF r + n <= 3 THEN r + n ELSE 3]
  BY <1>1 DEF len
<1>5. v <= w /\ w \in 1 .. 3 /\ Len(q) \in Nat /\ Len(q) >= w - v /\ (w < 3 => Len(q) = w - v)
  BY <1>1, <1>2, <1>3, <1>4
<1>6. queue[1] = packets[v]
  <2>1. 1 \in 1 .. len /\ (IF r + 1 <= 3 THEN r + 1 ELSE 3) = v
    BY <1>1, <1>2, <1>3, <1>4
  <2> QED
    BY <1>4, <2>1
<1>7. ASSUME NEW n \in 1 .. Len(q)
      PROVE  q[n] = packets[IF v + n <= 3 THEN v + n ELSE 3]
  <2>1. n \in 1 .. len - 1 /\ n + 1 \in 1 .. len
    BY <1>2, <1>4
  <2>2. (IF r + (n + 1) <= 3 THEN r + (n + 1) ELSE 3) = (IF v + n <= 3 THEN v + n ELSE 3)
    BY <1>1, <1>3, <2>1
  <2>3. queue[n + 1] = packets[IF r + (n + 1) <= 3 THEN r + (n + 1) ELSE 3]
    BY <1>4, <2>1
  <2>4. q[n] = queue[n + 1]
    BY <1>2, <2>1
  <2> QED
    BY <2>2, <2>3, <2>4
<1>8. v \in 0 .. 3
  BY <1>3
<1>9. Repeats(q, packets, v, w)
  BY <1>1, <1>5, <1>7, <1>8 DEF Repeats
<1> QED
  BY <1>1, <1>2, <1>3, <1>5, <1>6, <1>9 DEF q, v

LEMMA RepeatsBounds ==
  ASSUME NEW queue, NEW packets, NEW r, NEW w, Repeats(queue, packets, r, w)
  PROVE  r \in 0 .. 3 /\ w \in 0 .. 3 /\ r <= w
BY DEF Repeats

LEMMA RepeatsHolds ==
  ASSUME NEW M, NEW queue \in Seq(M), NEW packets, NEW r, NEW w, Repeats(queue, packets, r, w),
         NEW n \in 1 .. 3, r < n, n <= w
  PROVE  \E k \in DOMAIN queue : queue[k] = packets[n]
<1>1. /\ r \in 0 .. 3 /\ w \in 0 .. 3 /\ Len(queue) \in Nat /\ Len(queue) >= w - r
      /\ \A k \in 1 .. Len(queue) : queue[k] = packets[IF r + k <= 3 THEN r + k ELSE 3]
  BY DEF Repeats
<1>2. n - r \in 1 .. Len(queue) /\ (IF r + (n - r) <= 3 THEN r + (n - r) ELSE 3) = n
  BY <1>1
<1>3. DOMAIN queue = 1 .. Len(queue)
  OBVIOUS
<1> QED
  BY <1>1, <1>2, <1>3

LEMMA RepeatsOf ==
  ASSUME NEW M, NEW queue \in Seq(M), NEW packets, NEW r, NEW w, Repeats(queue, packets, r, w),
         NEW k \in DOMAIN queue
  PROVE  \E n \in 1 .. 3 : (r < n \/ n = 3) /\ n <= w /\ queue[k] = packets[n]
<1>1. /\ r \in 0 .. 3 /\ w \in 0 .. 3 /\ r <= w /\ Len(queue) \in Nat
      /\ (w < 3 => Len(queue) = w - r)
      /\ \A n \in 1 .. Len(queue) : queue[n] = packets[IF r + n <= 3 THEN r + n ELSE 3]
  BY DEF Repeats
<1>2. k \in 1 .. Len(queue)
  OBVIOUS
<1> DEFINE n == IF r + k <= 3 THEN r + k ELSE 3
<1>3. n \in 1 .. 3 /\ (r < n \/ n = 3) /\ n <= w
  BY <1>1, <1>2
<1>4. queue[k] = packets[n]
  BY <1>1, <1>2
<1> QED
  BY <1>3, <1>4

LEMMA RepeatsEmpty ==
  ASSUME NEW packets
  PROVE  Repeats(<<>>, packets, 0, 0)
<1>1. Len(<<>>) = 0 /\ 0 \in 0 .. 3 /\ 0 >= 0 - 0
  OBVIOUS
<1> QED
  BY <1>1 DEF Repeats

-----------------------------------------------------------------------------
(* Lemmas on the connections *)

\* Connection l is k once the end e of it is closed.
Shut(k, l, e) ==
  \/ k.state[Opposite(e)] \in {"free", "closed"} /\ Free(l)
  \/ /\ k.state[Opposite(e)] \in {"queued", "open"} /\ l.ends = k.ends
     /\ l.state[e] = "closed" /\ l.toRead[e] = <<>>
     /\ l.state[Opposite(e)] = k.state[Opposite(e)]
     /\ l.toRead[Opposite(e)] = k.toRead[Opposite(e)]

\* l is k once m is written at its end e.
Sent(k, l, e, m) ==
  \/ k.state[Opposite(e)] = "closed" /\ l = k
  \/ /\ k.state[Opposite(e)] # "closed" /\ l.ends = k.ends /\ l.state = k.state
     /\ l.toRead[e] = k.toRead[e]
     /\ l.toRead[Opposite(e)] = Append(k.toRead[Opposite(e)], m)

\* l is k once a packet is read at its end e.
Taken(k, l, e) ==
  /\ l.ends = k.ends /\ l.state = k.state
  /\ l.toRead[e] = Tail(k.toRead[e]) /\ l.toRead[Opposite(e)] = k.toRead[Opposite(e)]

LEMMA Sides == "dialer" \in Side /\ "acceptor" \in Side /\ "dialer" # "acceptor"
               /\ Opposite("dialer") = "acceptor" /\ Opposite("acceptor") = "dialer"
BY DEF Side, Opposite

LEMMA ClosedEffect ==
  ASSUME NEW cs \in Conns, NEW c \in ConnId, NEW e \in Side
  PROVE  /\ Shut(cs[c], Closed(cs, c, e)[c], e)
         /\ \A d \in ConnId : d # c => Closed(cs, c, e)[d] = cs[d]
<1> DEFINE k == cs[c]
           st == k.state[Opposite(e)]
<1>1. c # 0 /\ k \in Connection
  BY ProgramsAssumption DEF ConnId, Conns
<1>2. st \in {"free", "queued", "open", "closed"}
  BY <1>1, OppositeSide, ConnectionFields
<1>3. CASE st \in {"free", "closed"}
  <2>1. Closed(cs, c, e) = [cs EXCEPT ![c] = Unused(st)]
    BY <1>1, <1>3 DEF Closed
  <2> QED
    BY <2>1, <1>3 DEF Shut, Free, Conns
<1>4. CASE st \notin {"free", "closed"}
  <2> DEFINE l == [k EXCEPT !.state[e] = "closed", !.toRead[e] = <<>>]
  <2>1. Closed(cs, c, e) = [cs EXCEPT ![c] = l]
    BY <1>1, <1>4 DEF Closed, Conns
  <2>2. /\ l.ends = k.ends /\ l.state[e] = "closed" /\ l.toRead[e] = <<>>
        /\ l.state[Opposite(e)] = st /\ l.toRead[Opposite(e)] = k.toRead[Opposite(e)]
    BY <1>1, OppositeSide DEF Connection, Side
  <2> HIDE DEF l
  <2>3. Closed(cs, c, e)[c] = l /\ \A d \in ConnId : d # c => Closed(cs, c, e)[d] = cs[d]
    BY <2>1 DEF Conns
  <2> QED
    BY <1>2, <1>4, <2>2, <2>3 DEF Shut
<1> QED
  BY <1>3, <1>4

LEMMA AllClosedEffect ==
  ASSUME NEW cs \in Conns, NEW fds, NEW c \in ConnId
  PROVE  /\ c \in fds => Shut(cs[c], AllClosed(cs, fds)[c], "dialer")
         /\ c \notin fds => AllClosed(cs, fds)[c] = cs[c]
BY ClosedEffect, Sides DEF AllClosed

LEMMA WrittenEffect ==
  ASSUME NEW cs \in Conns, NEW c \in ConnId, NEW e \in Side, NEW m \in Message
  PROVE  /\ Sent(cs[c], Written(cs, c, e, m)[c], e, m)
         /\ \A d \in ConnId : d # c => Written(cs, c, e, m)[d] = cs[d]
<1> DEFINE k == cs[c]
           o == Opposite(e)
<1>1. k \in Connection /\ o \in Side /\ o # e
  BY OppositeSide DEF Conns
<1>2. CASE k.state[o] = "closed"
  BY <1>2 DEF Written, Sent
<1>3. CASE k.state[o] # "closed"
  <2> DEFINE l == [k EXCEPT !.toRead[o] = Append(@, m)]
  <2>1. Written(cs, c, e, m) = [cs EXCEPT ![c] = l]
    BY <1>3 DEF Written, Conns
  <2>2. /\ l.ends = k.ends /\ l.state = k.state /\ l.toRead[e] = k.toRead[e]
        /\ l.toRead[o] = Append(k.toRead[o], m)
    BY <1>1 DEF Connection, Side
  <2> HIDE DEF l
  <2>3. Written(cs, c, e, m)[c] = l /\ \A d \in ConnId : d # c => Written(cs, c, e, m)[d] = cs[d]
    BY <2>1 DEF Conns
  <2> QED
    BY <1>3, <2>2, <2>3 DEF Sent
<1> QED
  BY <1>2, <1>3

LEMMA ReadEffect ==
  ASSUME NEW cs \in Conns, NEW c \in ConnId, NEW e \in Side
  PROVE  /\ Taken(cs[c], Read(cs, c, e)[c], e)
         /\ \A d \in ConnId : d # c => Read(cs, c, e)[d] = cs[d]
<1> DEFINE k == cs[c]
           o == Opposite(e)
           l == [k EXCEPT !.toRead[e] = Tail(@)]
<1>1. k \in Connection /\ o \in Side /\ o # e
  BY OppositeSide DEF Conns
<1>2. Read(cs, c, e) = [cs EXCEPT ![c] = l]
  BY DEF Read, Conns
<1>3. /\ l.ends = k.ends /\ l.state = k.state /\ l.toRead[o] = k.toRead[o]
      /\ l.toRead[e] = Tail(k.toRead[e])
  BY <1>1 DEF Connection, Side
<1> HIDE DEF l
<1>4. Read(cs, c, e)[c] = l /\ \A d \in ConnId : d # c => Read(cs, c, e)[d] = cs[d]
  BY <1>2 DEF Conns
<1> QED
  BY <1>3, <1>4 DEF Taken

LEMMA FreeConnection ==
  ASSUME NEW k, Free(k)
  PROVE  /\ \A e \in Side : k.ends[e] = None /\ k.state[e] \in {"free", "closed"}
                            /\ k.toRead[e] = <<>>
BY DEF Free, Unused, Side

\* An open end is that of a connection between two programs.
LEMMA OpenJoined ==
  ASSUME NEW k, NEW e \in Side, k.state[e] \in {"open", "queued"}
  PROVE  ~Free(k)
BY FreeConnection

\* The dialer closes its end.
LEMMA DialerShuts ==
  ASSUME NEW k, NEW l, NEW read, NEW written, NEW s,
         Joined(k, read, written, s), Shut(k, l, "dialer"),
         NEW read2, NEW written2
  PROVE  Free(l) \/ (l.ends = k.ends /\ Joined(l, read2, written2, s))
<1>1. CASE k.state["acceptor"] \in {"free", "closed"} /\ Free(l)
  BY <1>1
<1>2. CASE ~(k.state["acceptor"] \in {"free", "closed"} /\ Free(l))
  <2>1. /\ k.state["acceptor"] \in {"queued", "open"} /\ l.ends = k.ends
        /\ l.state["dialer"] = "closed"
        /\ l.state["acceptor"] = k.state["acceptor"] /\ l.toRead["acceptor"] = k.toRead["acceptor"]
    BY <1>2, Sides DEF Shut
  <2>2. ToAcceptor(k, written, s) => ToAcceptor(l, written2, s)
    BY <2>1 DEF ToAcceptor
  <2> QED
    BY <2>1, <2>2 DEF Joined
<1> QED
  BY <1>1, <1>2

\* The acceptor closes its end.
LEMMA AcceptorShuts ==
  ASSUME NEW k, NEW l, NEW read, NEW written, NEW s,
         Joined(k, read, written, s), Shut(k, l, "acceptor"),
         NEW s2
  PROVE  Free(l) \/ (l.ends = k.ends /\ Joined(l, read, written, s2))
<1>1. CASE k.state["dialer"] \in {"free", "closed"} /\ Free(l)
  BY <1>1
<1>2. CASE ~(k.state["dialer"] \in {"free", "closed"} /\ Free(l))
  <2>1. /\ k.state["dialer"] \in {"queued", "open"} /\ l.ends = k.ends
        /\ l.state["acceptor"] = "closed"
        /\ l.state["dialer"] = k.state["dialer"] /\ l.toRead["dialer"] = k.toRead["dialer"]
    BY <1>2, Sides DEF Shut
  <2>2. ToDialer(k, read, s) => ToDialer(l, read, s2)
    BY <2>1 DEF ToDialer
  <2> QED
    BY <2>1, <2>2 DEF Joined
<1> QED
  BY <1>1, <1>2


\* The dialer writes its next packet.
LEMMA DialerSends ==
  ASSUME NEW k \in Connection, NEW l, NEW read, NEW written, NEW s,
         Joined(k, read, written, s), k.state["dialer"] = "open",
         k.state["acceptor"] # "free", NEW m \in Message, Sent(k, l, "dialer", m),
         written \in 0 .. 2, m = ByDialer(k.ends["dialer"])[written + 1],
         written = 0 \/ k.state["acceptor"] # "queued",
         k.state["acceptor"] = "open" =>
           (written >= 1 => s.helloSent) /\ (written = 2 => s.challengeDone)
  PROVE  l.ends = k.ends /\ Joined(l, read, written + 1, s)
<1>1. CASE k.state["acceptor"] = "closed"
  BY <1>1, Sides DEF Sent, Joined
<1>2. CASE k.state["acceptor"] # "closed"
  <2>1. /\ l.ends = k.ends /\ l.state = k.state /\ l.toRead["dialer"] = k.toRead["dialer"]
        /\ l.toRead["acceptor"] = Append(k.toRead["acceptor"], m)
    BY <1>2, Sides DEF Sent
  <2>2. ToDialer(k, read, s) => ToDialer(l, read, s)
    BY <2>1 DEF ToDialer
  <2>3. ToAcceptor(l, written + 1, s)
    <3>1. ToAcceptor(k, written, s)
      BY <1>2 DEF Joined
    <3>2. PICK r \in 0 .. 3 :
            /\ Stream(k.toRead["acceptor"], ByDialer(k.ends["dialer"]), r, written)
            /\ k.state["acceptor"] # "open" => r = 0
            /\ k.state["acceptor"] = "open" => HasRead(s, r)
      BY <3>1 DEF ToAcceptor
    <3>3. k.toRead["acceptor"] \in Seq(Message)
      BY ConnectionFields, Sides
    <3>4. Stream(l.toRead["acceptor"], ByDialer(l.ends["dialer"]), r, written + 1)
      BY <2>1, <3>2, <3>3, StreamWritten
    <3>5. /\ written + 1 \in 0 .. 3 /\ (written + 1 >= 2 <=> written >= 1)
          /\ (written + 1 = 3 <=> written = 2) /\ (written = 0 => written + 1 <= 1)
      OBVIOUS
    <3>6. k.state["acceptor"] # "open" => written = 0
      BY <1>2, ConnectionFields, Sides
    <3> QED
      BY <2>1, <3>2, <3>4, <3>5, <3>6 DEF ToAcceptor
  <2> QED
    BY <2>1, <2>2, <2>3 DEF Joined
<1> QED
  BY <1>1, <1>2

\* An acceptor with session s may have written n packets.
Knows(s, n) == \E w \in 0 .. 3 : n <= w /\ HasAnswered(s, w)

\* The dialer reads: the packet is the acceptor's next one, which has taken the
\* connection, or the last one again.
LEMMA DialerReads ==
  ASSUME NEW k \in Connection, NEW l, NEW read, NEW written, NEW s,
         Joined(k, read, written, s), k.state["dialer"] = "open",
         Taken(k, l, "dialer"), k.toRead["dialer"] # <<>>
  PROVE  /\ read \in 0 .. 3
         /\ Head(k.toRead["dialer"]) = ByAcceptor(k.ends["acceptor"])[OneMore(read)]
         /\ k.state["acceptor"] \notin {"free", "queued"}
         /\ k.state["acceptor"] = "open" => Knows(s, OneMore(read))
         /\ l.ends = k.ends /\ l.state = k.state
         /\ Joined(l, OneMore(read), written, s)
<1>1. /\ l.ends = k.ends /\ l.state = k.state /\ l.toRead["acceptor"] = k.toRead["acceptor"]
      /\ l.toRead["dialer"] = Tail(k.toRead["dialer"])
  BY Sides DEF Taken
<1>2. ToDialer(k, read, s)
  BY DEF Joined
<1>3. PICK w \in 0 .. 3 :
        /\ Repeats(k.toRead["dialer"], ByAcceptor(k.ends["acceptor"]), read, w)
        /\ k.state["acceptor"] \in {"free", "queued"} => w = 0
        /\ k.state["acceptor"] = "open" => HasAnswered(s, w)
  BY <1>2 DEF ToDialer
<1>4. k.toRead["dialer"] \in Seq(Message)
  BY ConnectionFields, Sides
<1>5. /\ read \in 0 .. 3 /\ w \in 1 .. 3 /\ OneMore(read) <= w
      /\ Head(k.toRead["dialer"]) = ByAcceptor(k.ends["acceptor"])[OneMore(read)]
      /\ Repeats(l.toRead["dialer"], ByAcceptor(l.ends["acceptor"]), OneMore(read), w)
  BY <1>1, <1>3, <1>4, RepeatsRead
<1>6. ToDialer(l, OneMore(read), s)
  BY <1>1, <1>3, <1>5 DEF ToDialer
<1>8. w # 0 /\ (k.state["acceptor"] = "open" => Knows(s, OneMore(read)))
  BY <1>3, <1>5 DEF Knows
<1>7. ToAcceptor(k, written, s) => ToAcceptor(l, written, s)
  BY <1>1 DEF ToAcceptor
<1> QED
  BY <1>1, <1>3, <1>5, <1>6, <1>7, <1>8 DEF Joined

\* The acceptor p writes its next packet m, or the last one again, and its session
\* s becomes u.
Answers(p, s, u, m) ==
  /\ \A w \in 0 .. 3 : HasAnswered(s, w) =>
       m = ByAcceptor(p)[OneMore(w)] /\ HasAnswered(u, OneMore(w))
  /\ u.helloReceived = s.helloReceived /\ u.startDone = s.startDone
  /\ s.helloSent => u.helloSent
  /\ s.challengeDone => u.challengeDone

LEMMA AcceptorSends ==
  ASSUME NEW k \in Connection, NEW l, NEW read, NEW written, NEW s,
         Joined(k, read, written, s), k.state["acceptor"] = "open",
         NEW m \in Message, Sent(k, l, "acceptor", m),
         NEW s2, Answers(k.ends["acceptor"], s, s2, m)
  PROVE  l.ends = k.ends /\ Joined(l, read, written, s2)
<1>1. ToAcceptor(k, written, s)
  BY DEF Joined
<1>2. ToAcceptor(k, written, s2)
  BY <1>1 DEF ToAcceptor, HasRead, Answers
<1>3. CASE k.state["dialer"] = "closed"
  BY <1>2, <1>3, Sides DEF Sent, Joined
<1>4. CASE k.state["dialer"] # "closed"
  <2>1. /\ l.ends = k.ends /\ l.state = k.state /\ l.toRead["acceptor"] = k.toRead["acceptor"]
        /\ l.toRead["dialer"] = Append(k.toRead["dialer"], m)
    BY <1>4, Sides DEF Sent
  <2>2. k.state["dialer"] = "open" /\ ToDialer(k, read, s)
    BY <1>4 DEF Joined
  <2>3. PICK w \in 0 .. 3 :
          /\ Repeats(k.toRead["dialer"], ByAcceptor(k.ends["acceptor"]), read, w)
          /\ HasAnswered(s, w)
    BY <2>2 DEF ToDialer
  <2>4. k.toRead["dialer"] \in Seq(Message)
    BY ConnectionFields, Sides
  <2>5. m = ByAcceptor(k.ends["acceptor"])[OneMore(w)] /\ HasAnswered(s2, OneMore(w))
    BY <2>3 DEF Answers
  <2>6. /\ OneMore(w) \in 0 .. 3
        /\ Repeats(l.toRead["dialer"], ByAcceptor(l.ends["acceptor"]), read, OneMore(w))
    BY <2>1, <2>3, <2>4, <2>5, RepeatsWritten
  <2>7. ToDialer(l, read, s2)
    BY <2>1, <2>5, <2>6 DEF ToDialer
  <2>8. ToAcceptor(l, written, s2)
    BY <1>2, <2>1 DEF ToAcceptor
  <2> QED
    BY <2>1, <2>2, <2>7, <2>8 DEF Joined
<1> QED
  BY <1>3, <1>4

\* The acceptor, whose session s becomes u, reads the packet after the first r.
SameAnswers(s, u) ==
  /\ \A w \in 0 .. 3 : HasAnswered(s, w) => HasAnswered(u, w)
  /\ s.helloSent => u.helloSent
  /\ s.challengeDone => u.challengeDone

Hears(k, l, read, written, s, u, r) ==
  /\ Head(k.toRead["acceptor"]) = ByDialer(k.ends["dialer"])[r + 1]
  /\ HasRead(s, r) /\ (r >= 1 => s.helloSent) /\ (r = 2 => s.challengeDone)
  /\ l.ends = k.ends /\ l.state = k.state
  /\ HasRead(u, r + 1) => Joined(l, read, written, u)

LEMMA AcceptorReads ==
  ASSUME NEW k \in Connection, NEW l, NEW read, NEW written, NEW s,
         Joined(k, read, written, s), k.state["acceptor"] = "open",
         Taken(k, l, "acceptor"), k.toRead["acceptor"] # <<>>,
         NEW s2, SameAnswers(s, s2)
  PROVE  \E r \in 0 .. 2 : Hears(k, l, read, written, s, s2, r)
<1>1. /\ l.ends = k.ends /\ l.state = k.state /\ l.toRead["dialer"] = k.toRead["dialer"]
      /\ l.toRead["acceptor"] = Tail(k.toRead["acceptor"])
  BY Sides DEF Taken
<1>2. ToAcceptor(k, written, s)
  BY DEF Joined
<1>3. PICK r \in 0 .. 3, w \in 0 .. 3 :
        /\ Stream(k.toRead["acceptor"], ByDialer(k.ends["dialer"]), r, w)
        /\ k.state["dialer"] = "open" => w = written
        /\ HasRead(s, r) /\ (w >= 2 => s.helloSent) /\ (w = 3 => s.challengeDone)
  BY <1>2 DEF ToAcceptor
<1>4. k.toRead["acceptor"] \in Seq(Message)
  BY ConnectionFields, Sides
<1>5. /\ r \in 0 .. 2 /\ r < w /\ w \in 1 .. 3
      /\ Head(k.toRead["acceptor"]) = ByDialer(k.ends["dialer"])[r + 1]
      /\ Stream(l.toRead["acceptor"], ByDialer(l.ends["dialer"]), r + 1, w)
  BY <1>1, <1>3, <1>4, StreamRead
<1>6. (r >= 1 => s.helloSent) /\ (r = 2 => s.challengeDone)
  <2>1. (r >= 1 => w >= 2) /\ (r = 2 => w = 3) /\ r + 1 \in 0 .. 3
    BY <1>5
  <2> QED
    BY <1>3, <2>1
<1>7. ASSUME HasRead(s2, r + 1) PROVE Joined(l, read, written, s2)
  <2>1. r + 1 \in 0 .. 3
    BY <1>5
  <2>2. ToAcceptor(l, written, s2)
    BY <1>1, <1>3, <1>5, <1>7, <2>1 DEF ToAcceptor, SameAnswers
  <2>3. ToDialer(k, read, s) => ToDialer(l, read, s2)
    BY <1>1 DEF ToDialer, SameAnswers
  <2> QED
    BY <1>1, <2>2, <2>3 DEF Joined
<1> QED
  BY <1>1, <1>3, <1>5, <1>6, <1>7 DEF Hears

\* The acceptor takes the connection from its queue.
LEMMA AcceptorTakes ==
  ASSUME NEW k, NEW l, NEW read, NEW written, NEW s,
         Joined(k, read, written, s), k.state["acceptor"] = "queued",
         l.ends = k.ends, l.toRead = k.toRead,
         l.state["dialer"] = k.state["dialer"], l.state["acceptor"] = "open",
         NEW s2, AnswersOf(s2) = 0, ~s2.helloReceived, ~s2.startDone
  PROVE  Joined(l, read, written, s2)
<1>1. ToDialer(k, read, s) => ToDialer(l, read, s2)
  BY DEF ToDialer, HasAnswered
<1>2. ToAcceptor(k, written, s)
  BY DEF Joined
<1>3. ToAcceptor(l, written, s2)
  <2>1. PICK w \in 0 .. 3 :
          /\ Stream(k.toRead["acceptor"], ByDialer(k.ends["dialer"]), 0, w) /\ w <= 1
          /\ k.state["dialer"] = "open" => w = written
    BY <1>2 DEF ToAcceptor
  <2>2. HasRead(s2, 0)
    BY DEF HasRead
  <2>3. 0 \in 0 .. 3 /\ ~(w >= 2) /\ w # 3
    BY <2>1
  <2> QED
    BY <2>1, <2>2, <2>3 DEF ToAcceptor
<1> QED
  BY <1>1, <1>3 DEF Joined

\* The dialer's connect succeeds.
LEMMA DialerQueues ==
  ASSUME NEW k, NEW l, NEW read, NEW written, NEW s,
         Joined(k, read, written, s),
         k.state["dialer"] = "open", k.state["acceptor"] = "free",
         l.ends = k.ends, l.toRead = k.toRead,
         l.state["dialer"] = "open", l.state["acceptor"] = "queued"
  PROVE  Joined(l, read, written, s)
<1>1. ToDialer(k, read, s) => ToDialer(l, read, s)
  BY DEF ToDialer
<1>2. ToAcceptor(k, written, s) => ToAcceptor(l, written, s)
  BY DEF ToAcceptor
<1> QED
  BY <1>1, <1>2 DEF Joined

\* The dialer dials.
LEMMA DialerDials ==
  ASSUME NEW l, NEW p \in Program, NEW q \in Program, p # q,
         l.ends["dialer"] = p, l.ends["acceptor"] = q,
         l.state["dialer"] = "open", l.state["acceptor"] = "free",
         l.toRead["dialer"] = <<>>, l.toRead["acceptor"] = <<>>, NEW s
  PROVE  Joined(l, 0, 0, s)
<1>1. 0 \in 0 .. 3 /\ 0 <= 1
  OBVIOUS
<1>2. ToDialer(l, 0, s) /\ ToAcceptor(l, 0, s)
  BY <1>1, StreamEmpty, RepeatsEmpty DEF ToDialer, ToAcceptor
<1> QED
  BY <1>2 DEF Joined

-----------------------------------------------------------------------------
(* What a program makes of its connections                                   *)

SlotRead(s) == IF s.hello = "completed" THEN 1 ELSE 0
SlotWritten(s) == IF s.offerSent THEN 2 ELSE IF s.hello # "no" THEN 1 ELSE 0

\* Of the connection of one slot, of the game connection, and of one that neither
\* changes.
LEMMA SlotView ==
  ASSUME NEW f, NEW n, NEW s, NEW t, NEW c, t # c, NEW i \in 1 .. n, f[i].fd = c,
         \A j \in 1 .. n : f[j].fd = c => j = i
  PROVE  /\ HeldBy(f, n, t, c)
         /\ ReadBy(f, n, s, t, c) = SlotRead(f[i])
         /\ WrittenBy(f, n, s, t, c) = SlotWritten(f[i])
BY DEF HeldBy, ReadBy, WrittenBy, SlotRead, SlotWritten

LEMMA GameView ==
  ASSUME NEW f, NEW n, NEW s, NEW c
  PROVE  /\ HeldBy(f, n, c, c)
         /\ ReadBy(f, n, s, c, c) = IF s.startDone THEN 3 ELSE 2
         /\ WrittenBy(f, n, s, c, c) = IF s.startDone THEN 3 ELSE 2
BY DEF HeldBy, ReadBy, WrittenBy

\* The session of an acceptor that takes no part in the change.
SameProgress(s, s2) ==
  /\ s2.helloSent = s.helloSent /\ s2.helloReceived = s.helloReceived
  /\ s2.challengeDone = s.challengeDone
  /\ s2.startSent = s.startSent /\ s2.startDone = s.startDone

LEMMA JoinedSame ==
  ASSUME NEW k, NEW read, NEW written, NEW s, Joined(k, read, written, s),
         NEW read2, NEW written2, NEW s2,
         k.state["dialer"] = "open" => read2 = read /\ written2 = written,
         k.state["acceptor"] = "open" => SameProgress(s, s2)
  PROVE  Joined(k, read2, written2, s2)
<1>1. k.state["dialer"] = "open" => ToDialer(k, read2, s2)
  BY DEF Joined, ToDialer, SameProgress, HasAnswered, AnswersOf
<1>2. k.state["acceptor"] # "closed" => ToAcceptor(k, written2, s2)
  <2>1. k.state["acceptor"] # "closed" => ToAcceptor(k, written, s)
    BY DEF Joined
  <2>2. k.state["acceptor"] = "open" =>
          \A r \in 0 .. 3 : HasRead(s, r) => HasRead(s2, r)
    BY DEF HasRead, SameProgress
  <2> QED
    BY <2>1, <2>2 DEF ToAcceptor, SameProgress
<1> QED
  BY <1>1, <1>2 DEF Joined

-----------------------------------------------------------------------------
(* A step of program p, and what it leaves to the others                     *)

OwnStep(p) ==
  \A r \in Program : r # p =>
    /\ slots'[r] = slots[r] /\ count'[r] = count[r] /\ session'[r] = session[r]
    /\ transport'[r] = transport[r] /\ asked'[r] = asked[r]

\* What an end e that is open or queued sees of k becoming l by the other end.
Keeps(k, l, e) ==
  /\ l.ends = k.ends /\ l.state[e] = k.state[e]
  /\ l.state[Opposite(e)] = "free" <=> k.state[Opposite(e)] = "free"
  /\ k.state[Opposite(e)] = "closed" => l.state[Opposite(e)] = "closed"

Respects(p, k, l) ==
  \A e \in Side : k.ends[e] \in Program \ {p} /\ k.state[e] \in {"open", "queued"}
                    => Keeps(k, l, e)

LEMMA RespectsSame ==
  ASSUME NEW p, NEW k
  PROVE  Respects(p, k, k)
BY DEF Respects, Keeps

LEMMA RespectsShut ==
  ASSUME NEW p, NEW k, NEW l, NEW e \in Side, Shut(k, l, e), k.ends[e] = p, k.state[e] = "open"
  PROVE  Respects(p, k, l)
<1>1. SUFFICES ASSUME NEW d \in Side, d # e, k.state[d] \in {"open", "queued"}
               PROVE  Keeps(k, l, d)
  BY DEF Respects
<1>2. d = Opposite(e) /\ Opposite(d) = e
  BY <1>1 DEF Side, Opposite
<1> QED
  BY <1>1, <1>2 DEF Keeps, Shut

LEMMA RespectsSent ==
  ASSUME NEW p, NEW k, NEW l, NEW e \in Side, NEW m, Sent(k, l, e, m)
  PROVE  Respects(p, k, l)
BY DEF Respects, Keeps, Sent

LEMMA RespectsTaken ==
  ASSUME NEW p, NEW k, NEW l, NEW e \in Side, Taken(k, l, e)
  PROVE  Respects(p, k, l)
BY DEF Respects, Keeps, Taken

LEMMA RespectsTwice ==
  ASSUME NEW p, NEW k, NEW m, NEW l, Respects(p, k, m), Respects(p, m, l)
  PROVE  Respects(p, k, l)
BY DEF Respects, Keeps

\* The parts of the invariant.
LEMMA GameParts ==
  ASSUME GameInv
  PROVE  /\ AskedInv /\ LobbyInv /\ Types
         /\ slots \in [Program -> Slots] /\ conns \in Conns
         /\ \A c \in ConnId : ConnInv(c) /\ conns[c] \in Connection
         /\ \A p \in Program : /\ ProgInv(p) /\ Waiting(p, backlog[p], conns)
                               /\ slots[p] \in Slots /\ count[p] \in 0 .. MaxSlots
                               /\ session[p] \in SessionType /\ transport[p] \in 0 .. MaxConns
                               /\ backlog[p] \in Seq(ConnId) /\ asked[p] \in SUBSET Program
         /\ \A c \in 0 .. MaxConns : c # 0 => c \in ConnId
BY ProgramsAssumption DEF GameInv, AskedInv, LobbyInv, Types, Conns, ConnId

LEMMA OwnSlot ==
  ASSUME GameInv, NEW p \in Program, NEW i \in 1 .. count[p]
  PROVE  /\ i \in 1 .. MaxSlots /\ slots[p][i] \in Slot
         /\ slots[p][i].fd # 0 => slots[p][i].fd \in ConnId
         /\ SlotInv(p, slots[p][i], transport[p], session[p], conns)
<1>1. i \in 1 .. MaxSlots
  BY GameParts, ProgramsAssumption
<1>2. slots[p][i] \in Slot
  BY <1>1, GameParts DEF Slots
<1>3. slots[p][i].fd \in 0 .. MaxConns
  BY <1>2 DEF Slot
<1>4. SlotInv(p, slots[p][i], transport[p], session[p], conns)
  BY <1>1, GameParts DEF ProgInv
<1> QED
  BY <1>1, <1>2, <1>3, <1>4, GameParts

\* An open end that is not free keeps what it is.
LEMMA OpenKept ==
  ASSUME NEW p, NEW r \in Program, r # p, NEW k, NEW l, Respects(p, k, l), NEW e \in Side,
         k.ends[e] = r, k.state[e] \in {"open", "queued"}
  PROVE  Keeps(k, l, e)
BY DEF Respects

LEMMA SlotInvKept ==
  ASSUME NEW p \in Program, NEW r \in Program, r # p, NEW s, NEW t, NEW own, NEW cs, NEW ds,
         s.fd # 0 => Respects(p, cs[s.fd], ds[s.fd]),
         t # 0 /\ cs[t].ends["acceptor"] = r /\ cs[t].state["dialer"] = "closed" =>
           cs[t].state["acceptor"] = "open" /\ Respects(p, cs[t], ds[t]),
         SlotInv(r, s, t, own, cs)
  PROVE  SlotInv(r, s, t, own, ds)
<1>1. CASE s.fd = 0
  BY <1>1 DEF SlotInv
<1>2. CASE s.fd # 0
  <2>1. /\ cs[s.fd].ends["dialer"] = r /\ cs[s.fd].state["dialer"] = "open"
    BY <1>2 DEF SlotInv
  <2>2. Keeps(cs[s.fd], ds[s.fd], "dialer")
    BY <1>2, <2>1, OpenKept, Sides
  <2>3. /\ ds[s.fd].ends = cs[s.fd].ends /\ ds[s.fd].state["dialer"] = "open"
        /\ ds[s.fd].state["acceptor"] = "free" <=> cs[s.fd].state["acceptor"] = "free"
    BY <2>1, <2>2, Sides DEF Keeps
  <2>4. t # 0 /\ cs[t].ends["acceptor"] = r /\ cs[t].state["dialer"] = "closed" =>
          ds[t].ends["acceptor"] = r /\ ds[t].state["dialer"] = "closed"
    <3>1. SUFFICES ASSUME t # 0, cs[t].ends["acceptor"] = r, cs[t].state["dialer"] = "closed"
                   PROVE  ds[t].ends["acceptor"] = r /\ ds[t].state["dialer"] = "closed"
      OBVIOUS
    <3>2. Keeps(cs[t], ds[t], "acceptor")
      BY <3>1, OpenKept, Sides
    <3> QED
      BY <3>1, <3>2, Sides DEF Keeps
  <2> QED
    BY <1>2, <2>3, <2>4 DEF SlotInv
<1> QED
  BY <1>1, <1>2

LEMMA SessionInvKept ==
  ASSUME NEW p \in Program, NEW r \in Program, r # p, NEW s, NEW t, NEW f, NEW n, NEW a,
         NEW cs, NEW ds, t # 0 => Respects(p, cs[t], ds[t]), SessionInv(r, s, t, f, n, a, cs)
  PROVE  SessionInv(r, s, t, f, n, a, ds)
<1>1. CASE t = 0 /\ Alone(s, f, n)
  BY <1>1 DEF SessionInv
<1>2. CASE /\ t # 0 /\ cs[t].ends["dialer"] = r /\ cs[t].state["dialer"] = "open"
           /\ Client(s, f, n, a, cs[t].ends["acceptor"])
  <2>1. Keeps(cs[t], ds[t], "dialer")
    BY <1>2, OpenKept, Sides
  <2>2. ds[t].ends = cs[t].ends /\ ds[t].state["dialer"] = "open"
    BY <1>2, <2>1 DEF Keeps
  <2> QED
    BY <1>2, <2>2 DEF SessionInv
<1>3. CASE /\ t # 0 /\ cs[t].ends["acceptor"] = r /\ cs[t].state["acceptor"] = "open"
           /\ Server(s, f, n, a, cs[t].ends["dialer"])
  <2>1. Keeps(cs[t], ds[t], "acceptor")
    BY <1>3, OpenKept, Sides
  <2>2. ds[t].ends = cs[t].ends /\ ds[t].state["acceptor"] = "open"
    BY <1>3, <2>1 DEF Keeps
  <2> QED
    BY <1>3, <2>2 DEF SessionInv
<1> QED
  BY <1>1, <1>2, <1>3 DEF SessionInv

\* An end a program has as its game connection, and the other one.
LEMMA TransportEnds ==
  ASSUME GameInv, NEW p \in Program, transport[p] # 0, NEW c, c = transport[p]
  PROVE  /\ c \in ConnId /\ ~Free(conns[c]) /\ conns[c] \in Connection
         /\ Dialer(c) \in Program /\ Acceptor(c) \in Program /\ Dialer(c) # Acceptor(c)
         /\ Joined(conns[c], HasReadBy(Dialer(c), c), HasWritten(Dialer(c), c),
                   session[Acceptor(c)])
         /\ \/ /\ Dialer(c) = p /\ conns[c].state["dialer"] = "open"
               /\ Client(session[p], slots[p], count[p], asked[p], Acceptor(c))
            \/ /\ Acceptor(c) = p /\ conns[c].state["acceptor"] = "open"
               /\ Server(session[p], slots[p], count[p], asked[p], Dialer(c))
<1>1. c \in ConnId /\ ConnInv(c) /\ conns[c] \in Connection
      /\ SessionInv(p, session[p], c, slots[p], count[p], asked[p], conns)
  BY GameParts DEF ProgInv
<1>2. \/ /\ Dialer(c) = p /\ conns[c].state["dialer"] = "open"
         /\ Client(session[p], slots[p], count[p], asked[p], Acceptor(c))
      \/ /\ Acceptor(c) = p /\ conns[c].state["acceptor"] = "open"
         /\ Server(session[p], slots[p], count[p], asked[p], Dialer(c))
  BY <1>1 DEF SessionInv, Dialer, Acceptor
<1>3. ~Free(conns[c])
  BY <1>2, OpenJoined, Sides
<1> QED
  BY <1>1, <1>2, <1>3 DEF ConnInv, Joined, Dialer, Acceptor

LEMMA OthersKept ==
  ASSUME GameInv, NEW p \in Program, OwnStep(p), NEW r \in Program, r # p,
         \A c \in ConnId : Respects(p, conns[c], conns'[c])
  PROVE  ProgInv(r)' /\ Waiting(r, backlog[r], conns')
<1>1. /\ ProgInv(r) /\ Waiting(r, backlog[r], conns) /\ slots[r] \in Slots
      /\ transport[r] \in 0 .. MaxConns /\ backlog[r] \in Seq(ConnId)
  BY GameParts
<1>2. /\ slots'[r] = slots[r] /\ count'[r] = count[r] /\ session'[r] = session[r]
      /\ transport'[r] = transport[r] /\ asked'[r] = asked[r]
  BY DEF OwnStep
<1>3. transport[r] # 0 => transport[r] \in ConnId
  BY <1>1, GameParts
<1>4. SessionInv(r, session[r], transport[r], slots[r], count[r], asked[r], conns')
  BY <1>1, <1>3, SessionInvKept DEF ProgInv
<1>5. ASSUME NEW i \in 1 .. MaxSlots
      PROVE  SlotInv(r, slots[r][i], transport[r], session[r], conns')
  <2>1. slots[r][i].fd # 0 => slots[r][i].fd \in ConnId
    BY <1>1, GameParts DEF Slots, Slot
  <2>2. transport[r] # 0 /\ Acceptor(transport[r]) = r => conns[transport[r]].state["acceptor"] = "open"
    BY TransportEnds
  <2> QED
    BY <1>1, <1>3, <2>1, <2>2, SlotInvKept DEF ProgInv, Acceptor
<1>6. Waiting(r, backlog[r], conns')
  <2>1. ASSUME NEW m \in 1 .. Len(backlog[r]), NEW c, c = backlog[r][m]
        PROVE  conns'[c].ends["acceptor"] = r /\ conns'[c].state["acceptor"] = "queued"
    <3>1. c \in ConnId /\ conns[c].ends["acceptor"] = r /\ conns[c].state["acceptor"] = "queued"
      BY <1>1, <2>1 DEF Waiting
    <3>2. Keeps(conns[c], conns'[c], "acceptor")
      BY <3>1, OpenKept, Sides
    <3> QED
      BY <3>1, <3>2 DEF Keeps
  <2> QED
    BY <1>1, <2>1 DEF Waiting
<1> QED
  BY <1>2, <1>4, <1>5, <1>6 DEF ProgInv

\* A challenge that is connected, or connecting.
LEMMA SlotEnds ==
  ASSUME GameInv, NEW p \in Program, NEW i \in 1 .. MaxSlots, slots[p][i].fd # 0,
         NEW c, c = slots[p][i].fd
  PROVE  /\ c \in ConnId /\ conns[c] \in Connection /\ ~Free(conns[c]) /\ i \in 1 .. count[p]
         /\ Dialer(c) = p /\ Acceptor(c) = slots[p][i].peer
         /\ Acceptor(c) \in Program /\ Acceptor(c) # p
         /\ conns[c].state["dialer"] = "open" /\ transport[p] # c
         /\ ~session[p].challengeDone /\ ~Settled(session[p])
         /\ \A j \in 1 .. MaxSlots : slots[p][j].fd = c => j = i
         /\ Joined(conns[c], SlotRead(slots[p][i]), SlotWritten(slots[p][i]),
                   session[Acceptor(c)])
         /\ conns[c].state["acceptor"] = "open" => transport[Acceptor(c)] = c
<1>1. /\ ProgInv(p) /\ slots[p] \in Slots /\ count[p] \in 0 .. MaxSlots
      /\ LobbyOf(slots[p], count[p], p)
  BY GameParts DEF LobbyInv, Lobbies
<1>2. c \in ConnId /\ conns[c] \in Connection /\ ConnInv(c)
  BY <1>1, GameParts DEF Slots, Slot
<1>3. \A j \in 1 .. MaxSlots : SlotInv(p, slots[p][j], transport[p], session[p], conns)
  BY <1>1 DEF ProgInv
<1>4. \A j \in 1 .. MaxSlots : slots[p][j].fd = c =>
        /\ Dialer(c) = p /\ Acceptor(c) = slots[p][j].peer /\ j \in 1 .. count[p]
        /\ conns[c].state["dialer"] = "open"
        /\ ~session[p].challengeDone /\ ~Settled(session[p])
  <2>1. \A j \in 1 .. MaxSlots : slots[p][j].fd # 0 => j \in 1 .. count[p]
    BY <1>1, ProgramsAssumption DEF LobbyOf
  <2> QED
    BY <1>3, <2>1 DEF SlotInv, Dialer, Acceptor
<1>5. \A j \in 1 .. MaxSlots : slots[p][j].fd = c => j = i
  BY <1>1, <1>4 DEF LobbyOf
<1>6. ~Free(conns[c])
  BY <1>4, OpenJoined, Sides
<1>7. /\ Joined(conns[c], HasReadBy(p, c), HasWritten(p, c), session[Acceptor(c)])
      /\ conns[c].state["acceptor"] = "open" => transport[Acceptor(c)] = c
      /\ Acceptor(c) \in Program /\ Acceptor(c) # p
  BY <1>2, <1>4, <1>6, ZenonT(40) DEF ConnInv, Joined, Dialer, Acceptor
<1>8. transport[p] # c
  <2>1. SUFFICES ASSUME transport[p] = c PROVE FALSE
    OBVIOUS
  <2>2. Client(session[p], slots[p], count[p], asked[p], Acceptor(c))
    BY <1>4, <1>7, <2>1, TransportEnds
  <2> QED
    BY <1>4, <2>2 DEF Client, Settled
<1>9. /\ HasReadBy(p, c) = SlotRead(slots[p][i])
      /\ HasWritten(p, c) = SlotWritten(slots[p][i])
  <2>1. \A j \in 1 .. count[p] : slots[p][j].fd = c => j = i
    BY <1>1, <1>5, ProgramsAssumption
  <2> QED
    BY <1>4, <1>8, <2>1, SlotView DEF HasReadBy, HasWritten
<1> QED
  BY <1>2, <1>4, <1>5, <1>6, <1>7, <1>8, <1>9, ZenonT(40)

\* A connection whose acceptor has taken it is the acceptor's game connection.
LEMMA Taker ==
  ASSUME GameInv, NEW c \in ConnId, conns[c].state["acceptor"] = "open"
  PROVE  /\ Acceptor(c) \in Program /\ transport[Acceptor(c)] = c
         /\ Server(session[Acceptor(c)], slots[Acceptor(c)], count[Acceptor(c)],
                   asked[Acceptor(c)], Dialer(c))
<1>1. ~Free(conns[c]) /\ ConnInv(c)
  BY OpenJoined, GameParts, Sides
<1>2. Acceptor(c) \in Program /\ Dialer(c) # Acceptor(c) /\ transport[Acceptor(c)] = c
  BY <1>1 DEF ConnInv, Joined, Dialer, Acceptor
<1>3. c # 0
  BY ProgramsAssumption DEF ConnId
<1> QED
  BY <1>2, <1>3, TransportEnds

\* The lobbies f and g, of n and m peers, have the same challenge on connection c.
Agree(f, n, g, m, c) ==
  /\ \A j \in 1 .. n : f[j].fd = c => j \in 1 .. m /\ g[j].fd = c
  /\ \A j \in 1 .. m : g[j].fd = c =>
       /\ j \in 1 .. n /\ f[j].fd = c
       /\ g[j].hello = f[j].hello /\ g[j].offerSent = f[j].offerSent

LEMMA SameView ==
  ASSUME NEW f, NEW n, NEW s, NEW t, NEW g, NEW m, NEW s2, NEW t2, NEW c,
         Agree(f, n, g, m, c), t = c <=> t2 = c, t = c => s2.startDone = s.startDone
  PROVE  /\ HeldBy(g, m, t2, c) <=> HeldBy(f, n, t, c)
         /\ ReadBy(g, m, s2, t2, c) = ReadBy(f, n, s, t, c)
         /\ WrittenBy(g, m, s2, t2, c) = WrittenBy(f, n, s, t, c)
BY DEF HeldBy, ReadBy, WrittenBy, Agree

\* A connection that the step leaves alone, if its ends see it as before.
LEMMA ConnKept ==
  ASSUME GameInv, NEW p \in Program, OwnStep(p), NEW c \in ConnId, conns'[c] = conns[c],
         Dialer(c) = p /\ conns[c].state["dialer"] = "open" =>
           /\ Held(p, c) => Held(p, c)'
           /\ HasReadBy(p, c)' = HasReadBy(p, c) /\ HasWritten(p, c)' = HasWritten(p, c),
         Acceptor(c) = p /\ conns[c].state["acceptor"] = "open" =>
           transport'[p] = c /\ SameProgress(session[p], session'[p])
  PROVE  ConnInv(c)'
<1>1. CASE Free(conns[c])
  BY <1>1 DEF ConnInv, Free
<1>2. CASE ~Free(conns[c])
  <2>1. PICK d \in Program, a \in Program :
          /\ d = Dialer(c) /\ a = Acceptor(c)
          /\ Joined(conns[c], HasReadBy(d, c), HasWritten(d, c), session[a])
          /\ conns[c].state["dialer"] = "open" => Held(d, c)
          /\ conns[c].state["acceptor"] = "open" => transport[a] = c
    BY <1>2, GameParts DEF ConnInv, Joined, Dialer, Acceptor
  <2>2. conns[c].state["dialer"] = "open" =>
          /\ Held(d, c)' /\ HasReadBy(d, c)' = HasReadBy(d, c)
          /\ HasWritten(d, c)' = HasWritten(d, c)
    <3>1. d # p => /\ Held(d, c)' <=> Held(d, c)
                   /\ HasReadBy(d, c)' = HasReadBy(d, c)
                   /\ HasWritten(d, c)' = HasWritten(d, c)
      BY DEF OwnStep, Held, HasReadBy, HasWritten
    <3> QED
      BY <2>1, <3>1
  <2>3. conns[c].state["acceptor"] = "open" =>
          transport'[a] = c /\ SameProgress(session[a], session'[a])
    BY <2>1 DEF OwnStep, SameProgress
  <2>4. Joined(conns[c], HasReadBy(d, c)', HasWritten(d, c)', session'[a])
    BY <2>1, <2>2, <2>3, JoinedSame
  <2>5. d = Dialer(c)' /\ a = Acceptor(c)'
    BY <2>1 DEF Dialer, Acceptor
  <2> QED
    BY <2>2, <2>3, <2>4, <2>5 DEF ConnInv, Held, HasReadBy, HasWritten
<1> QED
  BY <1>1, <1>2

\* A connection the step changes that p has dialed, with what p makes of it then.
LEMMA DialerChange ==
  ASSUME NEW p \in Program, OwnStep(p), NEW c, NEW q \in Program, q # p, NEW read, NEW written,
         \/ Free(conns'[c])
         \/ /\ conns'[c].ends["dialer"] = p /\ conns'[c].ends["acceptor"] = q
            /\ Joined(conns'[c], read, written, session[q]),
         conns'[c].state["dialer"] = "open" =>
           Held(p, c)' /\ HasReadBy(p, c)' = read /\ HasWritten(p, c)' = written,
         conns'[c].state["acceptor"] = "open" => transport[q] = c
  PROVE  ConnInv(c)'
<1>1. CASE Free(conns'[c])
  BY <1>1 DEF ConnInv
<1>2. CASE ~Free(conns'[c])
  <2>1. p = Dialer(c)' /\ q = Acceptor(c)'
    BY <1>2 DEF Dialer, Acceptor
  <2>2. session'[q] = session[q] /\ transport'[q] = transport[q]
    BY DEF OwnStep
  <2>3. Joined(conns'[c], HasReadBy(p, c)', HasWritten(p, c)', session'[q])
    BY <1>2, <2>2, JoinedSame DEF SameProgress
  <2> QED
    BY <2>1, <2>2, <2>3 DEF ConnInv, Held, HasReadBy, HasWritten
<1> QED
  BY <1>1, <1>2

\* One that p has accepted.
LEMMA AcceptorChange ==
  ASSUME NEW p \in Program, OwnStep(p), NEW c, NEW q \in Program, q # p,
         \/ Free(conns'[c])
         \/ /\ conns'[c].ends["dialer"] = q /\ conns'[c].ends["acceptor"] = p
            /\ Joined(conns'[c], HasReadBy(q, c), HasWritten(q, c), session'[p]),
         conns'[c].state["dialer"] = "open" => Held(q, c),
         conns'[c].state["acceptor"] = "open" => transport'[p] = c
  PROVE  ConnInv(c)'
<1>1. CASE Free(conns'[c])
  BY <1>1 DEF ConnInv
<1>2. CASE ~Free(conns'[c])
  <2>1. q = Dialer(c)' /\ p = Acceptor(c)'
    BY <1>2 DEF Dialer, Acceptor
  <2>2. /\ Held(q, c)' <=> Held(q, c)
        /\ HasReadBy(q, c)' = HasReadBy(q, c)
        /\ HasWritten(q, c)' = HasWritten(q, c)
    BY DEF OwnStep, Held, HasReadBy, HasWritten
  <2>3. Joined(conns'[c], HasReadBy(q, c)', HasWritten(q, c)', session'[p])
    BY <1>2, <2>2
  <2> QED
    BY <2>1, <2>2, <2>3 DEF ConnInv, Held, HasReadBy, HasWritten
<1> QED
  BY <1>1, <1>2

\* p closes a challenge.
LEMMA ChallengeHangs ==
  ASSUME GameInv, NEW p \in Program, OwnStep(p), NEW i \in 1 .. MaxSlots, slots[p][i].fd # 0,
         NEW c, c = slots[p][i].fd, Shut(conns[c], conns'[c], "dialer")
  PROVE  ConnInv(c)' /\ Respects(p, conns[c], conns'[c])
<1>1. /\ Dialer(c) = p /\ Acceptor(c) \in Program /\ Acceptor(c) # p
      /\ conns[c].state["dialer"] = "open"
      /\ Joined(conns[c], SlotRead(slots[p][i]), SlotWritten(slots[p][i]), session[Acceptor(c)])
      /\ conns[c].state["acceptor"] = "open" => transport[Acceptor(c)] = c
  BY SlotEnds
<1>2. PICK q \in Program : q = Acceptor(c)
  BY <1>1
<1>3. \/ Free(conns'[c])
      \/ conns'[c].ends = conns[c].ends /\ Joined(conns'[c], 0, 0, session[q])
  BY <1>1, <1>2, DialerShuts
<1>4. Free(conns'[c]) \/ conns'[c].state["dialer"] = "closed"
  BY Sides DEF Shut
<1>5. conns'[c].state["dialer"] # "open"
  BY <1>4, FreeConnection, Sides
<1>6. conns'[c].state["acceptor"] = "open" => conns[c].state["acceptor"] = "open"
  BY FreeConnection, Sides, ZenonT(40) DEF Shut
<1>7. ConnInv(c)'
  <2>1. \/ Free(conns'[c])
        \/ /\ conns'[c].ends["dialer"] = p /\ conns'[c].ends["acceptor"] = q
           /\ Joined(conns'[c], 0, 0, session[q])
    BY <1>1, <1>2, <1>3, ZenonT(40) DEF Dialer, Acceptor
  <2>2. conns'[c].state["acceptor"] = "open" => transport[q] = c
    BY <1>1, <1>2, <1>6, ZenonT(40)
  <2>3. q # p
    BY <1>1, <1>2
  <2> QED
    BY <1>5, <2>1, <2>2, <2>3, DialerChange, ZenonT(40)
<1> QED
  BY <1>1, <1>7, RespectsShut, Sides, ZenonT(40) DEF Dialer

\* p closes its game connection.
LEMMA GameHangs ==
  ASSUME GameInv, NEW p \in Program, OwnStep(p), transport[p] # 0,
         NEW c, c = transport[p], Shut(conns[c], conns'[c], End(c, p))
  PROVE  ConnInv(c)' /\ Respects(p, conns[c], conns'[c])
<1>1. /\ Dialer(c) \in Program /\ Acceptor(c) \in Program /\ Dialer(c) # Acceptor(c)
      /\ c \in ConnId /\ conns[c] \in Connection /\ ~Free(conns[c]) /\ ConnInv(c)
      /\ Joined(conns[c], HasReadBy(Dialer(c), c), HasWritten(Dialer(c), c), session[Acceptor(c)])
  BY TransportEnds, GameParts
<1>2. CASE Dialer(c) = p /\ conns[c].state["dialer"] = "open"
  <2>1. End(c, p) = "dialer"
    BY <1>2 DEF End, Dialer
  <2>2. PICK q \in Program : q = Acceptor(c)
    BY <1>1
  <2>3. \/ Free(conns'[c])
        \/ conns'[c].ends = conns[c].ends /\ Joined(conns'[c], 0, 0, session[q])
    BY <1>1, <2>1, <2>2, DialerShuts
  <2>4. Free(conns'[c]) \/ conns'[c].state["dialer"] = "closed"
    BY <2>1, Sides DEF Shut
  <2>5. conns'[c].state["dialer"] # "open"
    BY <2>4, FreeConnection, Sides
  <2>6. conns'[c].state["acceptor"] = "open" => conns[c].state["acceptor"] = "open"
    BY <2>1, FreeConnection, Sides DEF Shut
  <2>7. conns[c].state["acceptor"] = "open" => transport[q] = c
    BY <1>1, <2>2 DEF ConnInv
  <2>8. ConnInv(c)'
    BY <1>1, <1>2, <2>2, <2>3, <2>5, <2>6, <2>7, DialerChange, ZenonT(40) DEF Dialer, Acceptor
  <2> QED
    BY <1>2, <2>1, <2>8, RespectsShut, Sides DEF Dialer
<1>3. CASE Acceptor(c) = p /\ conns[c].state["acceptor"] = "open"
  <2>1. End(c, p) = "acceptor"
    BY <1>1, <1>3 DEF End, Dialer
  <2>2. PICK q \in Program : q = Dialer(c)
    BY <1>1
  <2>3. \/ Free(conns'[c])
        \/ /\ conns'[c].ends = conns[c].ends
           /\ Joined(conns'[c], HasReadBy(q, c), HasWritten(q, c), session'[p])
    BY <1>1, <2>1, <2>2, AcceptorShuts
  <2>4. Free(conns'[c]) \/ conns'[c].state["acceptor"] = "closed"
    BY <2>1, Sides DEF Shut
  <2>5. conns'[c].state["acceptor"] # "open"
    BY <2>4, FreeConnection, Sides
  <2>6. conns'[c].state["dialer"] = "open" => conns[c].state["dialer"] = "open"
    BY <2>1, FreeConnection, Sides DEF Shut
  <2>7. conns[c].state["dialer"] = "open" => Held(q, c)
    BY <1>1, <2>2 DEF ConnInv
  <2>8. ConnInv(c)'
    BY <1>1, <1>3, <2>2, <2>3, <2>5, <2>6, <2>7, AcceptorChange DEF Dialer, Acceptor
  <2> QED
    BY <1>3, <2>1, <2>8, RespectsShut, Sides DEF Acceptor
<1> QED
  BY <1>2, <1>3, TransportEnds

-----------------------------------------------------------------------------
(* What a program says of itself, when its lobby changes                     *)

LEMMA WaitingKept ==
  ASSUME NEW p, NEW b, NEW cs, NEW ds, Waiting(p, b, cs),
         \A m \in 1 .. Len(b) : ds[b[m]] = cs[b[m]]
  PROVE  Waiting(p, b, ds)
BY DEF Waiting

LEMMA SlotInvSame ==
  ASSUME NEW p, NEW s, NEW t, NEW own, NEW cs, NEW ds, SlotInv(p, s, t, own, cs),
         s.fd # 0 => ds[s.fd] = cs[s.fd], t # 0 => ds[t] = cs[t]
  PROVE  SlotInv(p, s, t, own, ds)
BY DEF SlotInv

\* What the lobby f tells of a game in a is told by g as well.
Tells(f, g, n, a, b) ==
  \A j \in 1 .. n :
    /\ g[j].peer = f[j].peer
    /\ f[j].state = "MATCHED" => g[j].state = "MATCHED" /\ (f[j].peer \in a => f[j].peer \in b)
    /\ g[j].state = "INCOMING_PENDING" => f[j].state = "INCOMING_PENDING"

LEMMA MatchedTold ==
  ASSUME NEW f, NEW g, NEW n, NEW a, NEW b, NEW q, Tells(f, g, n, a, b), Matched(f, n, a, q)
  PROVE  Matched(g, n, b, q)
BY DEF Tells, Matched

LEMMA SessionTold ==
  ASSUME NEW p, NEW s, NEW t, NEW f, NEW g, NEW n, NEW a, NEW b, NEW cs, NEW ds,
         SessionInv(p, s, t, f, n, a, cs), Tells(f, g, n, a, b), t # 0 => ds[t] = cs[t]
  PROVE  SessionInv(p, s, t, g, n, b, ds)
<1>1. Alone(s, f, n) => Alone(s, g, n)
  BY DEF Alone, Tells
<1>2. \A q : Client(s, f, n, a, q) => Client(s, g, n, b, q)
  BY MatchedTold DEF Client
<1>3. \A q : Server(s, f, n, a, q) => Server(s, g, n, b, q)
  <2>1. SUFFICES ASSUME NEW q, Server(s, f, n, a, q) PROVE Server(s, g, n, b, q)
    OBVIOUS
  <2>2. s.challengeDone => Matched(g, n, b, q)
    BY <2>1, MatchedTold DEF Server
  <2>3. \A i \in 1 .. n : g[i].state = "INCOMING_PENDING" => g[i].peer = q /\ s.helloSent
    BY <2>1 DEF Server, Tells
  <2> QED
    BY <2>1, <2>2, <2>3 DEF Server
<1> QED
  BY <1>1, <1>2, <1>3 DEF SessionInv

-----------------------------------------------------------------------------
(* The steps on one challenge                                                *)

\* The connections, the programs and the listen queues that stay what they are.
Kept ==
  /\ \A c \in ConnId : ConnInv(c)'
  /\ \A r \in Program : ProgInv(r)'
  /\ \A r \in Program : Waiting(r, backlog[r], conns')

LEMMA KeptGame ==
  ASSUME AskedInv', Kept, \A r \in Program : backlog'[r] = backlog[r]
  PROVE  GameInv'
BY DEF GameInv, Kept

\* Slot i of p becomes s, and with it the connection d it has or gets, if any.
SlotStep(p, i, s, d) ==
  /\ SlotSet(p, i, s) /\ session' = session /\ transport' = transport
  /\ \A r \in Program : r # p => asked'[r] = asked[r]
  /\ asked[p] \ {slots[p][i].peer} \subseteq asked'[p]
  /\ s.peer = slots[p][i].peer
  /\ slots[p][i].state # "MATCHED" /\ s.state # "INCOMING_PENDING"
  /\ slots[p][i].fd \in {0, d} /\ s.fd \in {0, d}
  /\ \A c \in ConnId : c # d => conns'[c] = conns[c]

LEMMA OneSlotOwn ==
  ASSUME GameInv, NEW p \in Program, NEW i \in 1 .. count[p], NEW s, NEW d, SlotStep(p, i, s, d)
  PROVE  /\ OwnStep(p) /\ count'[p] = count[p] /\ slots'[p][i] = s
         /\ i \in 1 .. MaxSlots
         /\ \A j \in 1 .. MaxSlots : j # i => slots'[p][j] = slots[p][j]
<1>1. slots \in [Program -> Slots] /\ i \in 1 .. MaxSlots
  BY GameParts, ProgramsAssumption DEF Types
<1>2. slots' = [slots EXCEPT ![p][i] = s] /\ count' = count
  BY DEF SlotStep, SlotSet
<1>3. slots'[p] = [slots[p] EXCEPT ![i] = s] /\ \A r \in Program : r # p => slots'[r] = slots[r]
  BY <1>1, <1>2
<1>4. slots'[p][i] = s /\ \A j \in 1 .. MaxSlots : j # i => slots'[p][j] = slots[p][j]
  BY <1>1, <1>3 DEF Slots
<1> QED
  BY <1>1, <1>2, <1>3, <1>4 DEF OwnStep, SlotStep

\* Connections but d stay what they are for p.
LEMMA OneSlotConns ==
  ASSUME GameInv, NEW p \in Program, NEW i \in 1 .. count[p], NEW s, NEW d, SlotStep(p, i, s, d),
         NEW c \in ConnId, c # d
  PROVE  ConnInv(c)'
<1>1. /\ OwnStep(p) /\ count'[p] = count[p] /\ slots'[p][i] = s /\ i \in 1 .. MaxSlots
      /\ \A j \in 1 .. MaxSlots : j # i => slots'[p][j] = slots[p][j]
  BY OneSlotOwn
<1>2. /\ session' = session /\ transport' = transport /\ conns'[c] = conns[c]
      /\ slots[p][i].fd # c /\ s.fd # c
  BY ProgramsAssumption DEF SlotStep, ConnId
<1>3. \A j \in 1 .. count[p] : j \in 1 .. MaxSlots
  BY GameParts, ProgramsAssumption
<1>4. /\ Held(p, c)' <=> Held(p, c)
      /\ HasReadBy(p, c)' = HasReadBy(p, c) /\ HasWritten(p, c)' = HasWritten(p, c)
  <2>1. Agree(slots[p], count[p], slots'[p], count'[p], c)
    BY <1>1, <1>2, <1>3 DEF Agree
  <2> QED
    BY <1>1, <1>2, <2>1, SameView DEF Held, HasReadBy, HasWritten
<1>5. Acceptor(c) = p /\ conns[c].state["acceptor"] = "open" => transport'[p] = c
  BY <1>2, Taker
<1> QED
  BY <1>1, <1>2, <1>4, <1>5, ConnKept DEF SameProgress

\* What p says of itself after such a step.
LEMMA OneSlotProg ==
  ASSUME GameInv, NEW p \in Program, NEW i \in 1 .. count[p], NEW s, NEW d, SlotStep(p, i, s, d),
         d # 0 => d \in ConnId /\ (Free(conns[d]) \/ d = slots[p][i].fd),
         SlotInv(p, s, transport[p], session[p], conns')
  PROVE  ProgInv(p)' /\ Waiting(p, backlog[p], conns')
<1>1. /\ count'[p] = count[p] /\ slots'[p][i] = s /\ i \in 1 .. MaxSlots
      /\ \A j \in 1 .. MaxSlots : j # i => slots'[p][j] = slots[p][j]
  BY OneSlotOwn
<1>2. /\ session' = session /\ transport' = transport
      /\ \A c \in ConnId : c # d => conns'[c] = conns[c]
  BY DEF SlotStep
<1>3. transport[p] # 0 => conns'[transport[p]] = conns[transport[p]]
  <2>1. SUFFICES ASSUME transport[p] # 0 PROVE transport[p] \in ConnId /\ transport[p] # d
    BY <1>2
  <2>2. transport[p] \in ConnId /\ ~Free(conns[transport[p]])
    BY <2>1, TransportEnds
  <2>3. slots[p][i].fd # 0 => transport[p] # slots[p][i].fd
    BY <1>1, SlotEnds
  <2> QED
    BY <2>1, <2>2, <2>3
<1>4. ASSUME NEW j \in 1 .. MaxSlots, j # i
      PROVE  SlotInv(p, slots'[p][j], transport'[p], session'[p], conns')
  <2>1. slots[p][j].fd # 0 => conns'[slots[p][j].fd] = conns[slots[p][j].fd]
    <3>1. SUFFICES ASSUME slots[p][j].fd # 0
                   PROVE  slots[p][j].fd \in ConnId /\ slots[p][j].fd # d
      BY <1>2
    <3>2. /\ slots[p][j].fd \in ConnId /\ ~Free(conns[slots[p][j].fd])
          /\ \A m \in 1 .. MaxSlots : slots[p][m].fd = slots[p][j].fd => m = j
      BY <3>1, SlotEnds
    <3> QED
      BY <1>1, <1>4, <3>1, <3>2
  <2>2. SlotInv(p, slots[p][j], transport[p], session[p], conns)
    BY GameParts DEF ProgInv
  <2> QED
    BY <1>1, <1>2, <1>3, <1>4, <2>1, <2>2, SlotInvSame
<1>5. SessionInv(p, session'[p], transport'[p], slots'[p], count'[p], asked'[p], conns')
  <2>1. SessionInv(p, session[p], transport[p], slots[p], count[p], asked[p], conns)
    BY GameParts DEF ProgInv
  <2>2. Tells(slots[p], slots'[p], count[p], asked[p], asked'[p])
    <3>1. SUFFICES ASSUME NEW j \in 1 .. count[p]
                   PROVE  /\ slots'[p][j].peer = slots[p][j].peer
                          /\ slots[p][j].state = "MATCHED" =>
                               /\ slots'[p][j].state = "MATCHED"
                               /\ slots[p][j].peer \in asked[p] => slots[p][j].peer \in asked'[p]
                          /\ slots'[p][j].state = "INCOMING_PENDING" =>
                               slots[p][j].state = "INCOMING_PENDING"
      BY DEF Tells
    <3>2. CASE j = i
      BY <1>1, <3>2 DEF SlotStep
    <3>3. CASE j # i
      <4>1. j \in 1 .. MaxSlots
        BY GameParts, ProgramsAssumption
      <4>2. slots[p][j].peer # slots[p][i].peer
        BY <3>3, GameParts DEF LobbyInv, Lobbies, LobbyOf
      <4> QED
        BY <1>1, <3>3, <4>1, <4>2 DEF SlotStep
    <3> QED
      BY <3>2, <3>3
  <2> QED
    BY <1>1, <1>2, <1>3, <2>1, <2>2, SessionTold
<1>6. Waiting(p, backlog[p], conns')
  <2>1. Waiting(p, backlog[p], conns) /\ backlog[p] \in Seq(ConnId)
    BY GameParts
  <2>2. ASSUME NEW m \in 1 .. Len(backlog[p]) PROVE conns'[backlog[p][m]] = conns[backlog[p][m]]
    <3>1. /\ backlog[p][m] \in ConnId /\ Acceptor(backlog[p][m]) = p
          /\ conns[backlog[p][m]].state["acceptor"] = "queued"
      BY <2>1 DEF Waiting, Acceptor
    <3>2. ~Free(conns[backlog[p][m]])
      BY <3>1, OpenJoined, Sides
    <3>3. slots[p][i].fd # 0 => Acceptor(slots[p][i].fd) # p
      BY <1>1, SlotEnds
    <3>4. d # 0 => backlog[p][m] # d
      BY <3>1, <3>2, <3>3
    <3>5. backlog[p][m] # 0
      BY <3>1, ProgramsAssumption DEF ConnId
    <3> QED
      BY <1>2, <3>1, <3>4, <3>5
  <2> QED
    BY <2>1, <2>2, WaitingKept
<1> QED
  BY <1>1, <1>2, <1>4, <1>5, <1>6 DEF ProgInv

LEMMA OneSlot ==
  ASSUME GameInv, NEW p \in Program, NEW i \in 1 .. count[p], NEW s, NEW d, SlotStep(p, i, s, d),
         d # 0 => /\ d \in ConnId /\ (Free(conns[d]) \/ d = slots[p][i].fd)
                  /\ ConnInv(d)' /\ Respects(p, conns[d], conns'[d]),
         SlotInv(p, s, transport[p], session[p], conns')
  PROVE  Kept
<1>1. OwnStep(p) /\ ProgInv(p)' /\ Waiting(p, backlog[p], conns')
  BY OneSlotOwn, OneSlotProg
<1>2. ASSUME NEW c \in ConnId PROVE ConnInv(c)' /\ Respects(p, conns[c], conns'[c])
  <2>1. CASE c = d
    BY <2>1, ProgramsAssumption DEF ConnId
  <2>2. CASE c # d
    <3>1. ConnInv(c)'
      BY <2>2, OneSlotConns
    <3>2. conns'[c] = conns[c]
      BY <2>2 DEF SlotStep
    <3> QED
      BY <3>1, <3>2, RespectsSame
  <2> QED
    BY <2>1, <2>2
<1>3. \A r \in Program : ProgInv(r)' /\ Waiting(r, backlog[r], conns')
  <2>1. \A r \in Program : r # p => ProgInv(r)' /\ Waiting(r, backlog[r], conns')
    BY <1>1, <1>2, OthersKept
  <2> QED
    BY <1>1, <2>1
<1> QED
  BY <1>2, <1>3 DEF Kept

\* What p makes of connection d after such a step.
LEMMA OneSlotView ==
  ASSUME GameInv, NEW p \in Program, NEW i \in 1 .. count[p], NEW s, NEW d \in ConnId,
         SlotStep(p, i, s, d), s.fd = d, Free(conns[d]) \/ d = slots[p][i].fd
  PROVE  Held(p, d)' /\ HasReadBy(p, d)' = SlotRead(s) /\ HasWritten(p, d)' = SlotWritten(s)
<1>1. /\ count'[p] = count[p] /\ slots'[p][i] = s /\ i \in 1 .. MaxSlots
      /\ \A j \in 1 .. MaxSlots : j # i => slots'[p][j] = slots[p][j]
  BY OneSlotOwn
<1>2. transport'[p] = transport[p] /\ d # 0
  BY ProgramsAssumption DEF SlotStep, ConnId
<1>3. transport[p] # d
  BY <1>1, <1>2, TransportEnds, SlotEnds
<1>4. \A j \in 1 .. count[p] : slots'[p][j].fd = d => j = i
  <2>1. SUFFICES ASSUME NEW j \in 1 .. count[p], j # i, slots[p][j].fd = d PROVE FALSE
    BY <1>1, GameParts, ProgramsAssumption
  <2>2. j \in 1 .. MaxSlots
    BY GameParts, ProgramsAssumption
  <2> QED
    BY <1>1, <1>2, <2>1, <2>2, SlotEnds
<1>5. HeldBy(slots'[p], count'[p], transport'[p], d)
  BY <1>1 DEF HeldBy
<1>6. /\ ReadBy(slots'[p], count'[p], session'[p], transport'[p], d) = SlotRead(slots'[p][i])
      /\ WrittenBy(slots'[p], count'[p], session'[p], transport'[p], d)
           = SlotWritten(slots'[p][i])
  BY <1>1, <1>2, <1>3, <1>4, SlotView
<1> QED
  BY <1>1, <1>5, <1>6 DEF Held, HasReadBy, HasWritten

\* A challenge that p's player makes.
LEMMA ClickChallengeGame ==
  ASSUME GameInv, AskedInv', NEW p \in Program, NEW i \in 1 .. MaxSlots, ClickChallenge(p, i)
  PROVE  GameInv'
<1> DEFINE s == WithState(slots[p][i], "OUTGOING_PENDING")
<1>1. i \in 1 .. count[p] /\ slots[p][i].state = "NONE"
  BY DEF ClickChallenge, Listed
<1>2. /\ slots[p][i] \in Slot /\ slots[p][i].fd = 0 /\ slots[p][i].hello = "no"
      /\ ~slots[p][i].offerSent
  BY <1>1, GameParts, QuietSlot DEF SlotQuiet
<1>3. /\ s.peer = slots[p][i].peer /\ s.state = "OUTGOING_PENDING" /\ s.fd = 0
      /\ s.hello = "no" /\ ~s.offerSent
  BY <1>2, WithStateType DEF ChallengeState
<1>4. SlotStep(p, i, s, 0)
  <2>1. SlotSet(p, i, s) /\ session' = session /\ transport' = transport /\ conns' = conns
    BY DEF ClickChallenge, SlotSet, net
  <2>2. \A r \in Program : r # p => asked'[r] = asked[r]
    BY GameParts DEF ClickChallenge, Types
  <2>3. asked[p] \subseteq asked'[p]
    BY GameParts DEF ClickChallenge, Types
  <2> QED
    BY <1>1, <1>2, <1>3, <2>1, <2>2, <2>3 DEF SlotStep
<1> HIDE DEF s
<1>5. SlotInv(p, s, transport[p], session[p], conns')
  BY <1>3 DEF SlotInv
<1>6. Kept
  BY <1>1, <1>4, <1>5, OneSlot
<1> QED
  BY <1>6, KeptGame DEF ClickChallenge, net

\* A challenge that ends, or starts again.
LEMMA WithdrawGame ==
  ASSUME GameInv, NEW p \in Program, NEW i \in 1 .. count[p], NEW st, Withdraw(p, i, st),
         \/ st = "NONE" /\ slots[p][i].state = "OUTGOING_PENDING"
         \/ st = "OUTGOING_PENDING" /\ slots[p][i].state = "CONNECT_FAILED",
         \A r \in Program : r # p => asked'[r] = asked[r],
         asked[p] \ {slots[p][i].peer} \subseteq asked'[p]
  PROVE  Kept /\ backlog' = backlog
<1> DEFINE s == WithState(Disconnected(slots[p][i]), st)
<1>0. PICK d : d = slots[p][i].fd
  OBVIOUS
<1>1. /\ i \in 1 .. MaxSlots /\ slots[p][i] \in Slot /\ conns \in Conns
      /\ SlotInv(p, slots[p][i], transport[p], session[p], conns)
  BY OwnSlot, GameParts
<1>2. /\ s.peer = slots[p][i].peer /\ s.state = st /\ s.fd = 0 /\ s.hello = "no"
      /\ st = "NONE" => ~s.offerSent
      /\ st # "NONE" => s.offerSent = slots[p][i].offerSent
  BY <1>1, DisconnectedType, WithStateType DEF ChallengeState
<1>3. st # "NONE" => ~slots[p][i].offerSent
  BY <1>1 DEF SlotInv
<1>4. d \in 0 .. MaxConns /\ (d # 0 => d \in ConnId)
  BY <1>0, <1>1, OwnSlot, ProgramsAssumption DEF ConnId
<1>5. conns' = Closed(conns, d, "dialer")
  BY <1>0 DEF Withdraw
<1>6. \A c \in ConnId : c # d => conns'[c] = conns[c]
  <2>1. CASE d = 0
    BY <1>5, <2>1 DEF Closed
  <2>2. CASE d # 0
    BY <1>1, <1>4, <1>5, <2>2, ClosedEffect, Sides
  <2> QED
    BY <2>1, <2>2
<1>7. SlotStep(p, i, s, d)
  BY <1>0, <1>2, <1>6 DEF SlotStep, SlotSet, Withdraw
<1> HIDE DEF s
<1>8. SlotInv(p, s, transport[p], session[p], conns')
  BY <1>2, <1>3 DEF SlotInv
<1>9. ASSUME d # 0 PROVE ConnInv(d)' /\ Respects(p, conns[d], conns'[d])
  <2>1. Shut(conns[d], conns'[d], "dialer")
    BY <1>1, <1>4, <1>5, <1>9, ClosedEffect, Sides
  <2>2. OwnStep(p)
    BY <1>7, OneSlotOwn
  <2> QED
    BY <1>0, <1>1, <1>9, <2>1, <2>2, ChallengeHangs
<1>10. Kept
  BY <1>0, <1>4, <1>7, <1>8, <1>9, OneSlot
<1> QED
  BY <1>10 DEF Withdraw

LEMMA ClickCancelGame ==
  ASSUME GameInv, AskedInv', NEW p \in Program, NEW i \in 1 .. MaxSlots, ClickCancel(p, i)
  PROVE  GameInv'
<1>1. /\ i \in 1 .. count[p] /\ slots[p][i].state = "OUTGOING_PENDING" /\ Withdraw(p, i, "NONE")
      /\ asked' = [asked EXCEPT ![p] = @ \ {slots[p][i].peer}]
  BY DEF ClickCancel, Listed
<1>2. asked'[p] = asked[p] \ {slots[p][i].peer} /\ \A r \in Program : r # p => asked'[r] = asked[r]
  BY <1>1, GameParts DEF Types
<1>3. Kept /\ backlog' = backlog
  BY <1>1, <1>2, WithdrawGame
<1> QED
  BY <1>3, KeptGame

LEMMA ClickRetryGame ==
  ASSUME GameInv, AskedInv', NEW p \in Program, NEW i \in 1 .. MaxSlots, ClickRetry(p, i)
  PROVE  GameInv'
<1>1. /\ i \in 1 .. count[p] /\ slots[p][i].state = "CONNECT_FAILED"
      /\ Withdraw(p, i, "OUTGOING_PENDING") /\ asked' = asked
  BY DEF ClickRetry, Listed
<1>2. Kept /\ backlog' = backlog
  BY <1>1, WithdrawGame
<1> QED
  BY <1>2, KeptGame

LEMMA ChallengeLostGame ==
  ASSUME GameInv, AskedInv', NEW p \in Program, NEW i \in 1 .. MaxSlots, ChallengeLost(p, i)
  PROVE  GameInv'
<1>1. /\ i \in 1 .. count[p] /\ slots[p][i].state = "OUTGOING_PENDING"
      /\ Withdraw(p, i, "NONE") /\ asked' = asked
  BY DEF ChallengeLost, Advancing, Listed
<1>2. Kept /\ backlog' = backlog
  BY <1>1, WithdrawGame
<1> QED
  BY <1>2, KeptGame

\* A challenge on its way.
LEMMA AdvancingSlot ==
  ASSUME GameInv, NEW p \in Program, NEW i \in 1 .. MaxSlots, Advancing(p, i)
  PROVE  /\ i \in 1 .. count[p] /\ slots[p][i] \in Slot /\ slots[p][i].state = "OUTGOING_PENDING"
         /\ slots[p][i].peer \in Program /\ slots[p][i].peer # p
         /\ ~session[p].challengeDone /\ ~Settled(session[p])
         /\ SlotInv(p, slots[p][i], transport[p], session[p], conns)
         /\ slots[p][i].fd = 0 => slots[p][i].hello = "no" /\ ~slots[p][i].offerSent
<1>1. /\ i \in 1 .. count[p] /\ slots[p][i] \in Slot /\ slots[p][i].state = "OUTGOING_PENDING"
      /\ ~session[p].challengeDone /\ ~Settled(session[p])
  BY GameParts DEF Advancing, Listed, Settled, Slots
<1>2. slots[p][i].peer \in Program /\ slots[p][i].peer # p
  BY <1>1, GameParts, SlotKnown
<1>3. SlotInv(p, slots[p][i], transport[p], session[p], conns)
  BY GameParts DEF ProgInv
<1> QED
  BY <1>1, <1>2, <1>3 DEF SlotInv

\* The connections once p has dialed q on c.
Dialed(cs, c, p, q) ==
  [cs EXCEPT ![c].ends = [e \in {"dialer", "acceptor"} |-> IF e = "dialer" THEN p ELSE q],
             ![c].state["dialer"] = "open"]

LEMMA DialedEffect ==
  ASSUME NEW cs \in Conns, NEW c \in ConnId, cs[c] = NoConnection, NEW p, NEW q,
         NEW ds, ds = Dialed(cs, c, p, q)
  PROVE  /\ ds[c].ends["dialer"] = p /\ ds[c].ends["acceptor"] = q
         /\ ds[c].state["dialer"] = "open" /\ ds[c].state["acceptor"] = "free"
         /\ ds[c].toRead["dialer"] = <<>> /\ ds[c].toRead["acceptor"] = <<>>
         /\ \A d \in ConnId : d # c => ds[d] = cs[d]
<1> DEFINE l == [NoConnection EXCEPT !.ends = [e \in {"dialer", "acceptor"} |->
                                                 IF e = "dialer" THEN p ELSE q],
                                     !.state["dialer"] = "open"]
<1>1. ds = [cs EXCEPT ![c] = l]
  BY DEF Conns, Dialed
<1>2. /\ l.ends["dialer"] = p /\ l.ends["acceptor"] = q
      /\ l.state["dialer"] = "open" /\ l.state["acceptor"] = "free"
      /\ l.toRead["dialer"] = <<>> /\ l.toRead["acceptor"] = <<>>
  BY DEF NoConnection, Unused
<1> HIDE DEF l
<1>3. ds[c] = l /\ \A d \in ConnId : d # c => ds[d] = cs[d]
  BY <1>1 DEF Conns
<1> QED
  BY <1>2, <1>3

LEMMA ConnectGame ==
  ASSUME GameInv, AskedInv', NEW p \in Program, NEW i \in 1 .. MaxSlots, Connect(p, i)
  PROVE  GameInv'
<1>1. /\ i \in 1 .. count[p] /\ slots[p][i] \in Slot /\ slots[p][i].state = "OUTGOING_PENDING"
      /\ slots[p][i].peer \in Program /\ slots[p][i].peer # p
      /\ ~session[p].challengeDone /\ ~Settled(session[p])
      /\ slots[p][i].fd = 0 /\ slots[p][i].hello = "no" /\ ~slots[p][i].offerSent
  BY AdvancingSlot DEF Connect
<1>2. PICK c \in ConnId :
        /\ conns[c] = NoConnection
        /\ conns' = Dialed(conns, c, p, slots[p][i].peer)
        /\ slots' = [slots EXCEPT ![p][i].fd = c, ![p][i].connecting = TRUE]
  BY DEF Connect, Dialed
<1>3. PICK q \in Program : q = slots[p][i].peer
  BY <1>1
<1>4. /\ conns'[c].ends["dialer"] = p /\ conns'[c].ends["acceptor"] = q
      /\ conns'[c].state["dialer"] = "open" /\ conns'[c].state["acceptor"] = "free"
      /\ conns'[c].toRead["dialer"] = <<>> /\ conns'[c].toRead["acceptor"] = <<>>
      /\ \A d \in ConnId : d # c => conns'[d] = conns[d]
  BY <1>2, <1>3, GameParts, DialedEffect
<1>5. Free(conns[c])
  BY <1>2 DEF Free, NoConnection
<1> DEFINE s == [slots[p][i] EXCEPT !.fd = c, !.connecting = TRUE]
<1>6. slots' = [slots EXCEPT ![p][i] = s]
  BY <1>2, GameParts DEF Slots
<1>7. /\ s.fd = c /\ s.connecting /\ s.peer = q /\ s.state = "OUTGOING_PENDING"
      /\ s.hello = "no" /\ ~s.offerSent
  BY <1>1, <1>3 DEF Slot
<1> HIDE DEF s
<1>8. SlotStep(p, i, s, c)
  BY <1>1, <1>3, <1>4, <1>6, <1>7, ZenonT(40) DEF SlotStep, SlotSet, Connect
<1>9. SlotInv(p, s, transport[p], session[p], conns')
  <2>1. c # 0
    BY ProgramsAssumption DEF ConnId
  <2> QED
    BY <1>1, <1>4, <1>7, <2>1 DEF SlotInv
<1>10. ConnInv(c)'
  <2>1. SlotRead(s) = 0 /\ SlotWritten(s) = 0
    BY <1>7 DEF SlotRead, SlotWritten
  <2>2. OwnStep(p)
    BY <1>1, <1>8, OneSlotOwn
  <2>3. Held(p, c)' /\ HasReadBy(p, c)' = 0 /\ HasWritten(p, c)' = 0
    BY <1>1, <1>5, <1>7, <1>8, <2>1, OneSlotView
  <2>4. Joined(conns'[c], 0, 0, session[q])
    BY <1>1, <1>3, <1>4, DialerDials
  <2> QED
    BY <1>1, <1>3, <1>4, <2>2, <2>3, <2>4, DialerChange
<1>11. Respects(p, conns[c], conns'[c])
  BY <1>5, FreeConnection DEF Respects
<1>12. Kept
  BY <1>1, <1>5, <1>8, <1>9, <1>10, <1>11, OneSlot
<1> QED
  BY <1>12, KeptGame DEF Connect

LEMMA ConnectRefusedGame ==
  ASSUME GameInv, AskedInv', NEW p \in Program, NEW i \in 1 .. MaxSlots, ConnectRefused(p, i)
  PROVE  GameInv'
<1> DEFINE s == Failed(slots[p][i])
<1>0. PICK d : d = slots[p][i].fd
  OBVIOUS
<1>1. /\ i \in 1 .. count[p] /\ slots[p][i] \in Slot /\ slots[p][i].state = "OUTGOING_PENDING"
      /\ ~session[p].challengeDone /\ ~Settled(session[p])
      /\ SlotInv(p, slots[p][i], transport[p], session[p], conns)
      /\ d # 0 /\ slots[p][i].connecting /\ d \in ConnId /\ conns \in Conns
  BY <1>0, AdvancingSlot, SlotEnds, GameParts DEF ConnectRefused
<1>2. slots[p][i].hello = "no" /\ ~slots[p][i].offerSent
  BY <1>0, <1>1 DEF SlotInv
<1>3. /\ s.peer = slots[p][i].peer /\ s.fd = 0 /\ s.hello = "no" /\ ~s.offerSent
      /\ s.state \in {"OUTGOING_PENDING", "CONNECT_FAILED"}
  BY <1>1, <1>2 DEF Failed, Slot
<1>4. /\ conns' = Closed(conns, d, "dialer") /\ slots' = [slots EXCEPT ![p][i] = s]
  BY <1>0, GameParts DEF ConnectRefused, Slots
<1>5. /\ Shut(conns[d], conns'[d], "dialer")
      /\ \A c \in ConnId : c # d => conns'[c] = conns[c]
  BY <1>1, <1>4, ClosedEffect, Sides
<1> HIDE DEF s
<1>6. SlotStep(p, i, s, d)
  BY <1>0, <1>1, <1>3, <1>4, <1>5, ZenonT(40) DEF SlotStep, SlotSet, ConnectRefused
<1>7. SlotInv(p, s, transport[p], session[p], conns')
  BY <1>3 DEF SlotInv
<1>8. OwnStep(p)
  BY <1>1, <1>6, OneSlotOwn
<1>9. ConnInv(d)' /\ Respects(p, conns[d], conns'[d])
  BY <1>0, <1>1, <1>5, <1>8, ChallengeHangs
<1>10. Kept
  BY <1>0, <1>1, <1>6, <1>7, <1>9, OneSlot
<1> QED
  BY <1>10, KeptGame DEF ConnectRefused

LEMMA FinishConnectGame ==
  ASSUME GameInv, AskedInv', NEW p \in Program, NEW i \in 1 .. MaxSlots, FinishConnect(p, i)
  PROVE  GameInv'
<1> DEFINE s == [slots[p][i] EXCEPT !.connecting = FALSE, !.failures = 0]
<1>0. PICK d : d = slots[p][i].fd
  OBVIOUS
<1>1. /\ i \in 1 .. count[p] /\ slots[p][i] \in Slot /\ slots[p][i].state = "OUTGOING_PENDING"
      /\ ~session[p].challengeDone /\ ~Settled(session[p])
      /\ SlotInv(p, slots[p][i], transport[p], session[p], conns)
      /\ d # 0 /\ slots[p][i].connecting /\ d \in ConnId /\ conns \in Conns
      /\ conns[d] \in Connection
  BY <1>0, AdvancingSlot, SlotEnds, GameParts DEF FinishConnect
<1>2. /\ Dialer(d) = p /\ Acceptor(d) = slots[p][i].peer /\ Acceptor(d) \in Program
      /\ Acceptor(d) # p /\ conns[d].state["dialer"] = "open"
      /\ Joined(conns[d], SlotRead(slots[p][i]), SlotWritten(slots[p][i]), session[Acceptor(d)])
  BY <1>0, <1>1, SlotEnds
<1>3. conns[d].state["acceptor"] = "free"
  BY <1>0, <1>1 DEF SlotInv
<1>4. PICK q \in Program : q = Acceptor(d)
  BY <1>2
<1>5. /\ s.peer = slots[p][i].peer /\ s.fd = d /\ s.hello = slots[p][i].hello
      /\ s.offerSent = slots[p][i].offerSent /\ ~s.connecting /\ s.state = "OUTGOING_PENDING"
  BY <1>0, <1>1 DEF Slot
<1>6. /\ conns' = [conns EXCEPT ![d].state["acceptor"] = "queued"]
      /\ backlog' = [backlog EXCEPT ![q] = Append(@, d)]
  BY <1>0, <1>2, <1>4, ZenonT(40) DEF FinishConnect
<1>7. slots' = [slots EXCEPT ![p][i] = s]
  BY GameParts DEF FinishConnect, Slots
<1>8. /\ conns'[d].ends = conns[d].ends /\ conns'[d].toRead = conns[d].toRead
      /\ conns'[d].state["dialer"] = "open" /\ conns'[d].state["acceptor"] = "queued"
      /\ \A c \in ConnId : c # d => conns'[c] = conns[c]
  BY <1>1, <1>2, <1>6 DEF Conns, Connection
<1> HIDE DEF s
<1>9. SlotStep(p, i, s, d)
  BY <1>0, <1>1, <1>5, <1>7, <1>8, ZenonT(40) DEF SlotStep, SlotSet, FinishConnect
<1>10. SlotInv(p, s, transport[p], session[p], conns')
  BY <1>0, <1>1, <1>2, <1>5, <1>8, ZenonT(40) DEF SlotInv, Dialer, Acceptor
<1>11. ConnInv(d)'
  <2>1. OwnStep(p)
    BY <1>1, <1>9, OneSlotOwn
  <2>2. Held(p, d)' /\ HasReadBy(p, d)' = SlotRead(s) /\ HasWritten(p, d)' = SlotWritten(s)
    BY <1>0, <1>1, <1>5, <1>9, OneSlotView
  <2>3. Joined(conns'[d], SlotRead(s), SlotWritten(s), session[q])
    BY <1>2, <1>3, <1>4, <1>5, <1>8, DialerQueues DEF SlotRead, SlotWritten
  <2> QED
    BY <1>2, <1>4, <1>8, <2>1, <2>2, <2>3, DialerChange DEF Dialer, Acceptor
<1>12. Respects(p, conns[d], conns'[d])
  <2>1. SUFFICES ASSUME NEW e \in Side, conns[d].ends[e] # p,
                        conns[d].state[e] \in {"open", "queued"}
                 PROVE  FALSE
    BY DEF Respects
  <2> QED
    BY <1>2, <1>3, <2>1 DEF Side, Dialer
<1>13. Kept
  BY <1>0, <1>1, <1>9, <1>10, <1>11, <1>12, OneSlot
<1>14. ASSUME NEW r \in Program PROVE Waiting(r, backlog'[r], conns')
  <2>1. Waiting(r, backlog[r], conns') /\ backlog[r] \in Seq(ConnId) /\ Waiting(r, backlog[r], conns)
    BY <1>13, GameParts DEF Kept
  <2>2. CASE r # q
    <3>1. backlog'[r] = backlog[r]
      BY <1>6, <2>2, GameParts DEF Types
    <3> QED
      BY <2>1, <3>1
  <2>3. CASE r = q
    <3>1. backlog'[r] = Append(backlog[r], d)
      BY <1>6, <2>3, GameParts DEF Types
    <3> DEFINE b == Append(backlog[r], d)
               n == Len(backlog[r])
    <3>2. /\ n \in Nat /\ Len(b) = n + 1 /\ b[n + 1] = d
          /\ \A m \in 1 .. n : b[m] = backlog[r][m]
      BY <1>1, <2>1
    <3>3. \A m \in 1 .. n : b[m] # d
      BY <1>3, <2>1, <3>2 DEF Waiting
    <3> HIDE DEF b, n
    <3>4. \A m \in 1 .. n + 1 : m \in 1 .. n \/ m = n + 1
      BY <3>2
    <3>5. /\ \A m \in 1 .. n : /\ conns'[b[m]].ends["acceptor"] = r
                               /\ conns'[b[m]].state["acceptor"] = "queued"
          /\ \A m, k \in 1 .. n : b[m] = b[k] => m = k
      BY <2>1, <3>2 DEF Waiting, n
    <3>6. Waiting(r, b, conns')
      BY <1>4, <1>8, <2>3, <3>2, <3>3, <3>4, <3>5 DEF Waiting, Acceptor
    <3> QED
      BY <3>1, <3>6 DEF b
  <2> QED
    BY <2>2, <2>3
<1> QED
  BY <1>13, <1>14 DEF GameInv, Kept

LEMMA DialerKnows ==
  ASSUME NEW k, NEW read, NEW written, NEW s, Joined(k, read, written, s),
         k.state["dialer"] = "open", read >= 1
  PROVE  /\ k.state["acceptor"] \notin {"free", "queued"}
         /\ k.state["acceptor"] = "open" => Knows(s, read)
<1>1. PICK w \in 0 .. 3 :
        /\ Repeats(k.toRead["dialer"], ByAcceptor(k.ends["acceptor"]), read, w)
        /\ k.state["acceptor"] \in {"free", "queued"} => w = 0
        /\ k.state["acceptor"] = "open" => HasAnswered(s, w)
  BY DEF Joined, ToDialer
<1>2. read \in 0 .. 3 /\ read <= w
  BY <1>1, RepeatsBounds
<1>3. w # 0
  BY <1>2
<1> QED
  BY <1>1, <1>2, <1>3 DEF Knows

LEMMA ServerAnswers ==
  ASSUME NEW s, NEW f, NEW n, NEW a, NEW q, Server(s, f, n, a, q), NEW m \in 1 .. 3,
         Knows(s, m)
  PROVE  s.helloSent /\ (m >= 2 => s.challengeDone)
<1>1. PICK w \in 0 .. 3 : m <= w /\ HasAnswered(s, w)
  BY DEF Knows
<1>2. (s.challengeDone => s.helloSent) /\ (s.startSent => s.challengeDone)
  BY DEF Server
<1>3. CASE s.challengeDone
  BY <1>2, <1>3
<1>4. CASE ~s.challengeDone
  <2>1. w = (IF s.helloSent THEN 1 ELSE 0)
    BY <1>1, <1>2, <1>4 DEF HasAnswered, AnswersOf
  <2> QED
    BY <1>1, <2>1
<1> QED
  BY <1>3, <1>4

\* The connection of a challenge.
LEMMA ChallengeConn ==
  ASSUME GameInv, NEW p \in Program, NEW i \in 1 .. MaxSlots, NEW d, d = slots[p][i].fd, d # 0
  PROVE  /\ Dialer(d) = p /\ Acceptor(d) = slots[p][i].peer /\ Acceptor(d) \in Program
         /\ Acceptor(d) # p /\ conns[d].state["dialer"] = "open" /\ d \in ConnId
         /\ conns[d].state["acceptor"] = "open" => transport[Acceptor(d)] = d
BY SlotEnds

\* A message sent or read on a challenge, whose slot becomes s.
LEMMA HandshakeGame ==
  ASSUME GameInv, NEW p \in Program, NEW i \in 1 .. MaxSlots, Advancing(p, i), Connected(p, i),
         NEW d, d = slots[p][i].fd, NEW s,
         s.fd = d, s.peer = slots[p][i].peer, s.state = slots[p][i].state, ~s.connecting,
         s.offerSent => s.hello = "completed",
         SlotSet(p, i, s), session' = session, transport' = transport, asked' = asked,
         \A c \in ConnId : c # d => conns'[c] = conns[c],
         conns'[d].ends = conns[d].ends, conns'[d].state = conns[d].state,
         Joined(conns'[d], SlotRead(s), SlotWritten(s), session[Acceptor(d)]),
         Respects(p, conns[d], conns'[d])
  PROVE  Kept
<1>1. /\ i \in 1 .. count[p] /\ slots[p][i] \in Slot /\ slots[p][i].state = "OUTGOING_PENDING"
      /\ ~session[p].challengeDone /\ ~Settled(session[p])
      /\ SlotInv(p, slots[p][i], transport[p], session[p], conns)
      /\ d # 0 /\ ~slots[p][i].connecting
  BY AdvancingSlot, ZenonT(40) DEF Connected
<1>2. /\ Dialer(d) = p /\ Acceptor(d) = slots[p][i].peer /\ Acceptor(d) \in Program
      /\ Acceptor(d) # p /\ conns[d].state["dialer"] = "open" /\ d \in ConnId
      /\ conns[d].state["acceptor"] = "open" => transport[Acceptor(d)] = d
  BY <1>1, ChallengeConn, ZenonT(40)
<1>3. conns[d].state["acceptor"] # "free"
  BY <1>1, ZenonT(40) DEF SlotInv
<1>4. SlotStep(p, i, s, d)
  BY <1>1 DEF SlotStep
<1>5. SlotInv(p, s, transport[p], session[p], conns')
  BY <1>1, <1>2, <1>3, ZenonT(40) DEF SlotInv, Dialer, Acceptor
<1>6. OwnStep(p)
  BY <1>1, <1>4, OneSlotOwn
<1>7. Held(p, d)' /\ HasReadBy(p, d)' = SlotRead(s) /\ HasWritten(p, d)' = SlotWritten(s)
  BY <1>1, <1>2, <1>4, OneSlotView, ZenonT(40)
<1>8. PICK q \in Program : q = Acceptor(d)
  BY <1>2, ZenonT(40)
<1>9. ConnInv(d)'
  BY <1>2, <1>6, <1>7, <1>8, DialerChange, ZenonT(40) DEF Dialer, Acceptor
<1> QED
  BY <1>1, <1>2, <1>4, <1>5, <1>9, OneSlot, ZenonT(40)

LEMMA SayHelloGame ==
  ASSUME GameInv, AskedInv', NEW p \in Program, NEW i \in 1 .. MaxSlots, SayHello(p, i)
  PROVE  GameInv'
<1> DEFINE s == [slots[p][i] EXCEPT !.hello = "sent"]
           m == [type |-> "HELLO", from |-> p]
<1>0. PICK d : d = slots[p][i].fd
  OBVIOUS
<1>1. /\ slots[p][i] \in Slot /\ d # 0 /\ ~slots[p][i].connecting
      /\ SlotInv(p, slots[p][i], transport[p], session[p], conns) /\ slots[p][i].hello = "no"
  BY <1>0, AdvancingSlot DEF SayHello, Connected
<1>2. /\ Dialer(d) = p /\ conns[d].state["dialer"] = "open" /\ d \in ConnId
      /\ conns[d] \in Connection /\ conns \in Conns
      /\ Joined(conns[d], SlotRead(slots[p][i]), SlotWritten(slots[p][i]), session[Acceptor(d)])
  BY <1>0, <1>1, SlotEnds, GameParts
<1>3. ~slots[p][i].offerSent /\ conns[d].state["acceptor"] # "free"
  BY <1>0, <1>1 DEF SlotInv
<1>4. SlotRead(slots[p][i]) = 0 /\ SlotWritten(slots[p][i]) = 0
  BY <1>1, <1>3 DEF SlotRead, SlotWritten
<1>5. /\ s.fd = d /\ s.peer = slots[p][i].peer /\ s.state = slots[p][i].state /\ ~s.connecting
      /\ ~s.offerSent /\ s.hello = "sent"
  BY <1>0, <1>1, <1>3 DEF Slot
<1>6. slots' = [slots EXCEPT ![p][i] = s]
  BY GameParts DEF SayHello, Slots
<1> HIDE DEF s
<1>7. SlotRead(s) = 0 /\ SlotWritten(s) = 1
  BY <1>5 DEF SlotRead, SlotWritten
<1>8. m \in Message
  BY DEF Message
<1>9. m = ByDialer(conns[d].ends["dialer"])[0 + 1]
  <2>1. conns[d].ends["dialer"] = p /\ 0 + 1 = 1
    BY <1>2 DEF Dialer
  <2> QED
    BY <2>1, Packets
<1> HIDE DEF m
<1>10. /\ Sent(conns[d], conns'[d], "dialer", m)
       /\ \A c \in ConnId : c # d => conns'[c] = conns[c]
  <2>1. conns' = Written(conns, d, "dialer", m)
    BY <1>0 DEF SayHello, m
  <2> QED
    BY <1>2, <1>8, <2>1, WrittenEffect, Sides
<1>11. conns'[d].ends = conns[d].ends /\ conns'[d].state = conns[d].state
  BY <1>10 DEF Sent
<1>12. Joined(conns'[d], SlotRead(s), SlotWritten(s), session[Acceptor(d)])
  <2>1. Joined(conns'[d], 0, 0 + 1, session[Acceptor(d)])
    BY <1>2, <1>3, <1>4, <1>8, <1>9, <1>10, DialerSends
  <2> QED
    BY <1>7, <2>1
<1>13. Respects(p, conns[d], conns'[d])
  BY <1>10, RespectsSent, Sides
<1>14. Kept
  <2>1. SlotSet(p, i, s)
    BY <1>6 DEF SlotSet, SayHello
  <2> QED
    BY <1>0, <1>5, <1>7, <1>10, <1>11, <1>12, <1>13, <2>1, HandshakeGame, ZenonT(40) DEF SayHello
<1> QED
  BY <1>14, KeptGame DEF SayHello

LEMMA HearHelloGame ==
  ASSUME GameInv, AskedInv', NEW p \in Program, NEW i \in 1 .. MaxSlots, HearHello(p, i)
  PROVE  GameInv'
<1> DEFINE s == [slots[p][i] EXCEPT !.hello = "completed"]
<1>0. PICK d : d = slots[p][i].fd
  OBVIOUS
<1>1. /\ slots[p][i] \in Slot /\ d # 0 /\ ~slots[p][i].connecting
      /\ SlotInv(p, slots[p][i], transport[p], session[p], conns) /\ slots[p][i].hello = "sent"
      /\ conns[d].toRead["dialer"] # <<>>
  BY <1>0, AdvancingSlot DEF HearHello, Connected
<1>2. /\ Dialer(d) = p /\ conns[d].state["dialer"] = "open" /\ d \in ConnId
      /\ conns[d] \in Connection /\ conns \in Conns
      /\ Joined(conns[d], SlotRead(slots[p][i]), SlotWritten(slots[p][i]), session[Acceptor(d)])
  BY <1>0, <1>1, SlotEnds, GameParts
<1>3. ~slots[p][i].offerSent
  BY <1>0, <1>1 DEF SlotInv
<1>4. SlotRead(slots[p][i]) = 0 /\ SlotWritten(slots[p][i]) = 1
  BY <1>1, <1>3 DEF SlotRead, SlotWritten
<1>5. /\ s.fd = d /\ s.peer = slots[p][i].peer /\ s.state = slots[p][i].state /\ ~s.connecting
      /\ ~s.offerSent /\ s.hello = "completed"
  BY <1>0, <1>1, <1>3 DEF Slot
<1>6. /\ Taken(conns[d], Read(conns, d, "dialer")[d], "dialer")
      /\ \A c \in ConnId : c # d => Read(conns, d, "dialer")[c] = conns[c]
  BY <1>2, ReadEffect, Sides
<1>7. /\ Head(conns[d].toRead["dialer"]) = ByAcceptor(conns[d].ends["acceptor"])[0 + 1]
      /\ Read(conns, d, "dialer")[d].ends = conns[d].ends
      /\ Read(conns, d, "dialer")[d].state = conns[d].state
      /\ Joined(Read(conns, d, "dialer")[d], 0 + 1, 1, session[Acceptor(d)])
  <2>1. PICK k, l, v : k = conns[d] /\ l = Read(conns, d, "dialer")[d] /\ v = session[Acceptor(d)]
    OBVIOUS
  <2>2. /\ k \in Connection /\ Joined(k, 0, 1, v) /\ k.state["dialer"] = "open"
        /\ Taken(k, l, "dialer") /\ k.toRead["dialer"] # <<>>
    BY <1>1, <1>2, <1>4, <1>6, <2>1
  <2>3. /\ Head(k.toRead["dialer"]) = ByAcceptor(k.ends["acceptor"])[OneMore(0)]
        /\ l.ends = k.ends /\ l.state = k.state /\ Joined(l, OneMore(0), 1, v)
    BY <2>2, DialerReads
  <2>4. OneMore(0) = 0 + 1
    BY DEF OneMore
  <2> QED
    BY <2>1, <2>3, <2>4
<1>8. Head(conns[d].toRead["dialer"]).type = "HELLO"
  <2>1. 0 + 1 = 1
    OBVIOUS
  <2>2. Head(conns[d].toRead["dialer"]) = [type |-> "HELLO", from |-> conns[d].ends["acceptor"]]
    <3>1. ByAcceptor(conns[d].ends["acceptor"])[1]
            = [type |-> "HELLO", from |-> conns[d].ends["acceptor"]]
      BY Packets
    <3> QED
      BY <1>7, <2>1, <3>1
  <2> QED
    BY <2>2
<1>9. /\ slots' = [slots EXCEPT ![p][i].hello = "completed"] /\ conns' = Read(conns, d, "dialer")
      /\ UNCHANGED <<count, session, transport, backlog, asked>>
  BY <1>0, <1>8 DEF HearHello
<1>10. slots' = [slots EXCEPT ![p][i] = s]
  BY <1>9, GameParts DEF Slots
<1> HIDE DEF s
<1>11. SlotRead(s) = 0 + 1 /\ SlotWritten(s) = 1
  BY <1>5 DEF SlotRead, SlotWritten
<1>12. /\ conns'[d].ends = conns[d].ends /\ conns'[d].state = conns[d].state
       /\ Joined(conns'[d], SlotRead(s), SlotWritten(s), session[Acceptor(d)])
  <2>1. /\ conns'[d].ends = conns[d].ends /\ conns'[d].state = conns[d].state
        /\ Joined(conns'[d], 0 + 1, 1, session[Acceptor(d)])
    BY <1>7, <1>9
  <2> QED
    BY <1>11, <2>1
<1>13. Respects(p, conns[d], conns'[d])
  BY <1>6, <1>9, RespectsTaken, Sides
<1>14. Kept
  <2>1. SlotSet(p, i, s)
    BY <1>9, <1>10 DEF SlotSet
  <2> QED
    BY <1>0, <1>5, <1>6, <1>9, <1>11, <1>12, <1>13, <2>1, HandshakeGame, ZenonT(40) DEF HearHello
<1> QED
  BY <1>9, <1>14, KeptGame

LEMMA SendOfferGame ==
  ASSUME GameInv, AskedInv', NEW p \in Program, NEW i \in 1 .. MaxSlots, SendOffer(p, i)
  PROVE  GameInv'
<1> DEFINE s == [slots[p][i] EXCEPT !.offerSent = TRUE]
           m == [type |-> "OFFER", from |-> p]
<1>0. PICK d : d = slots[p][i].fd
  OBVIOUS
<1>1. /\ slots[p][i] \in Slot /\ d # 0 /\ ~slots[p][i].connecting
      /\ slots[p][i].hello = "completed" /\ ~slots[p][i].offerSent
  BY <1>0, AdvancingSlot DEF SendOffer, Connected
<1>2. /\ Dialer(d) = p /\ conns[d].state["dialer"] = "open" /\ d \in ConnId
      /\ conns[d] \in Connection /\ conns \in Conns
      /\ Joined(conns[d], SlotRead(slots[p][i]), SlotWritten(slots[p][i]), session[Acceptor(d)])
  BY <1>0, <1>1, SlotEnds, GameParts
<1>3. SlotRead(slots[p][i]) = 1 /\ SlotWritten(slots[p][i]) = 1
  BY <1>1 DEF SlotRead, SlotWritten
<1>4. /\ conns[d].state["acceptor"] \notin {"free", "queued"}
      /\ conns[d].state["acceptor"] = "open" => session[Acceptor(d)].helloSent
  <2>1. /\ conns[d].state["acceptor"] \notin {"free", "queued"}
        /\ conns[d].state["acceptor"] = "open" => Knows(session[Acceptor(d)], 1)
    BY <1>2, <1>3, DialerKnows
  <2>2. 1 \in 1 .. 3
    OBVIOUS
  <2> QED
    BY <1>2, <2>1, <2>2, Taker, ServerAnswers
<1>5. /\ s.fd = d /\ s.peer = slots[p][i].peer /\ s.state = slots[p][i].state /\ ~s.connecting
      /\ s.offerSent /\ s.hello = "completed"
  BY <1>0, <1>1 DEF Slot
<1>6. slots' = [slots EXCEPT ![p][i] = s]
  BY GameParts DEF SendOffer, Slots
<1> HIDE DEF s
<1>7. SlotRead(s) = 1 /\ SlotWritten(s) = 2
  BY <1>5 DEF SlotRead, SlotWritten
<1>8. m \in Message
  BY DEF Message
<1>9. m = ByDialer(conns[d].ends["dialer"])[1 + 1]
  <2>1. conns[d].ends["dialer"] = p /\ 1 + 1 = 2
    BY <1>2 DEF Dialer
  <2> QED
    BY <2>1, Packets
<1> HIDE DEF m
<1>10. /\ Sent(conns[d], conns'[d], "dialer", m)
       /\ \A c \in ConnId : c # d => conns'[c] = conns[c]
  <2>1. conns' = Written(conns, d, "dialer", m)
    BY <1>0 DEF SendOffer, m
  <2> QED
    BY <1>2, <1>8, <2>1, WrittenEffect, Sides
<1>11. conns'[d].ends = conns[d].ends /\ conns'[d].state = conns[d].state
  BY <1>10 DEF Sent
<1>12. Joined(conns'[d], SlotRead(s), SlotWritten(s), session[Acceptor(d)])
  <2>1. Joined(conns'[d], 1, 1 + 1, session[Acceptor(d)])
    BY <1>2, <1>3, <1>4, <1>8, <1>9, <1>10, DialerSends
  <2> QED
    BY <1>7, <2>1
<1>13. Respects(p, conns[d], conns'[d])
  BY <1>10, RespectsSent, Sides
<1>14. Kept
  <2>1. SlotSet(p, i, s)
    BY <1>6 DEF SlotSet, SendOffer
  <2> QED
    BY <1>0, <1>5, <1>7, <1>10, <1>11, <1>12, <1>13, <2>1, HandshakeGame, ZenonT(40) DEF SendOffer
<1> QED
  BY <1>14, KeptGame DEF SendOffer

-----------------------------------------------------------------------------
(* The steps on the game connection                                          *)

\* The parts of the invariant after a step of p.
LEMMA Assembled ==
  ASSUME GameInv, AskedInv', NEW p \in Program, OwnStep(p),
         \A c \in ConnId : ConnInv(c)' /\ Respects(p, conns[c], conns'[c]),
         ProgInv(p)', Waiting(p, backlog'[p], conns'),
         \A r \in Program : r # p => backlog'[r] = backlog[r]
  PROVE  GameInv'
<1>1. ASSUME NEW r \in Program PROVE ProgInv(r)' /\ Waiting(r, backlog'[r], conns')
  <2>1. CASE r = p
    BY <2>1
  <2>2. CASE r # p
    BY <2>2, OthersKept
  <2> QED
    BY <2>1, <2>2
<1> QED
  BY <1>1 DEF GameInv

\* p's connections but those it has as a challenge or as its game are untouched.
Untouched(p) ==
  \A c \in ConnId : c # transport[p] /\ (\A i \in 1 .. MaxSlots : slots[p][i].fd # c)
                      => conns'[c] = conns[c]

LEMMA WaitingUntouched ==
  ASSUME GameInv, NEW p \in Program, Untouched(p)
  PROVE  Waiting(p, backlog[p], conns')
<1>1. Waiting(p, backlog[p], conns) /\ backlog[p] \in Seq(ConnId)
  BY GameParts
<1>2. ASSUME NEW m \in 1 .. Len(backlog[p]), NEW c, c = backlog[p][m]
      PROVE  conns'[c] = conns[c]
  <2>1. c \in ConnId /\ Acceptor(c) = p /\ conns[c].state["acceptor"] = "queued" /\ c # 0
    BY <1>1, <1>2, ProgramsAssumption DEF Waiting, Acceptor, ConnId
  <2>2. c # transport[p]
    BY <2>1, TransportEnds
  <2>3. \A i \in 1 .. MaxSlots : slots[p][i].fd # c
    BY <2>1, SlotEnds
  <2> QED
    BY <2>1, <2>2, <2>3 DEF Untouched
<1> QED
  BY <1>1, <1>2, WaitingKept

\* p's challenges are connected as before.
SameChallenges(p) ==
  /\ \A j \in 1 .. count[p] : slots[p][j].fd # 0 =>
       j \in 1 .. count'[p] /\ slots'[p][j].fd = slots[p][j].fd
  /\ \A j \in 1 .. count'[p] : slots'[p][j].fd # 0 =>
       /\ j \in 1 .. count[p] /\ slots'[p][j].fd = slots[p][j].fd
       /\ slots'[p][j].hello = slots[p][j].hello
       /\ slots'[p][j].offerSent = slots[p][j].offerSent

LEMMA ConnStays ==
  ASSUME GameInv, NEW p \in Program, OwnStep(p), SameChallenges(p),
         transport'[p] = transport[p], NEW c \in ConnId, conns'[c] = conns[c],
         c # transport[p] \/ SameProgress(session[p], session'[p])
  PROVE  ConnInv(c)'
<1>1. c # 0
  BY ProgramsAssumption DEF ConnId
<1>2. transport[p] = c => session'[p].startDone = session[p].startDone
  BY DEF SameProgress
<1>3. /\ Held(p, c)' <=> Held(p, c)
      /\ HasReadBy(p, c)' = HasReadBy(p, c) /\ HasWritten(p, c)' = HasWritten(p, c)
  <2>1. Agree(slots[p], count[p], slots'[p], count'[p], c)
    BY <1>1 DEF SameChallenges, Agree
  <2> QED
    BY <1>2, <2>1, SameView DEF Held, HasReadBy, HasWritten
<1>4. Acceptor(c) = p /\ conns[c].state["acceptor"] = "open" =>
        transport'[p] = c /\ SameProgress(session[p], session'[p])
  BY Taker
<1> QED
  BY <1>3, <1>4, ConnKept

\* A step of p that leaves its challenges, but may change its game connection t.
LEMMA ExchangeGame ==
  ASSUME GameInv, AskedInv', NEW p \in Program, OwnStep(p), SameChallenges(p),
         transport'[p] = transport[p], backlog' = backlog, NEW t, t = transport[p],
         \A c \in ConnId : c # t => conns'[c] = conns[c],
         t # 0 => ConnInv(t)' /\ Respects(p, conns[t], conns'[t]),
         ProgInv(p)'
  PROVE  GameInv'
<1>1. ASSUME NEW c \in ConnId PROVE ConnInv(c)' /\ Respects(p, conns[c], conns'[c])
  <2>1. CASE c = t
    BY <2>1, ProgramsAssumption DEF ConnId
  <2>2. CASE c # t
    BY <2>2, ConnStays, RespectsSame
  <2> QED
    BY <2>1, <2>2
<1>2. Waiting(p, backlog'[p], conns')
  BY WaitingUntouched DEF Untouched
<1> QED
  BY <1>1, <1>2, Assembled

\* A packet of the game connection sent or read, that changes only p's session.
Exchanged(p) ==
  /\ transport[p] # 0 /\ slots' = slots /\ count' = count /\ transport' = transport
  /\ asked' = asked /\ backlog' = backlog
  /\ \A r \in Program : r # p => session'[r] = session[r]
  /\ \A c \in ConnId : c # transport[p] => conns'[c] = conns[c]
  /\ conns'[transport[p]].ends = conns[transport[p]].ends
  /\ conns'[transport[p]].state = conns[transport[p]].state
  /\ session'[p].challengeDone \/ Settled(session'[p]) <=>
       session[p].challengeDone \/ Settled(session[p])

LEMMA ExchangedSlots ==
  ASSUME GameInv, NEW p \in Program, Exchanged(p), NEW i \in 1 .. MaxSlots
  PROVE  SlotInv(p, slots[p][i], transport[p], session'[p], conns')
<1>1. SlotInv(p, slots[p][i], transport[p], session[p], conns)
  BY GameParts DEF ProgInv
<1>2. slots[p][i].fd # 0 => conns'[slots[p][i].fd] = conns[slots[p][i].fd]
  BY SlotEnds DEF Exchanged
<1> QED
  BY <1>1, <1>2 DEF SlotInv, Exchanged

LEMMA ExchangedGame ==
  ASSUME GameInv, AskedInv', NEW p \in Program, Exchanged(p),
         NEW t, t = transport[p], ConnInv(t)', Respects(p, conns[t], conns'[t]),
         SessionInv(p, session'[p], t, slots[p], count[p], asked[p], conns')
  PROVE  GameInv'
<1>1. OwnStep(p) /\ SameChallenges(p)
  BY DEF Exchanged, OwnStep, SameChallenges
<1>2. ProgInv(p)'
  <2>1. /\ slots'[p] = slots[p] /\ count'[p] = count[p] /\ transport'[p] = t
        /\ asked'[p] = asked[p]
    BY DEF Exchanged
  <2>2. \A i \in 1 .. MaxSlots : SlotInv(p, slots'[p][i], transport'[p], session'[p], conns')
    BY <2>1, ExchangedSlots
  <2> QED
    BY <2>1, <2>2 DEF ProgInv
<1> QED
  BY <1>1, <1>2, ExchangeGame DEF Exchanged

\* A program whose challenge was accepted, and one that has accepted a connection.
LEMMA ClientOf ==
  ASSUME GameInv, NEW p \in Program, NEW t, t = transport[p], t # 0, session[p].role = "CLIENT"
  PROVE  /\ t \in ConnId /\ conns[t] \in Connection
         /\ Dialer(t) = p /\ Acceptor(t) \in Program /\ Acceptor(t) # p /\ End(t, p) = "dialer"
         /\ conns[t].state["dialer"] = "open"
         /\ conns[t].state["acceptor"] = "open" => transport[Acceptor(t)] = t
         /\ Client(session[p], slots[p], count[p], asked[p], Acceptor(t))
         /\ Joined(conns[t], IF session[p].startDone THEN 3 ELSE 2,
                   IF session[p].startDone THEN 3 ELSE 2, session[Acceptor(t)])
<1>1. /\ t \in ConnId /\ conns[t] \in Connection /\ ~Free(conns[t])
      /\ Dialer(t) \in Program /\ Acceptor(t) \in Program /\ Dialer(t) # Acceptor(t)
      /\ Joined(conns[t], HasReadBy(Dialer(t), t), HasWritten(Dialer(t), t),
                session[Acceptor(t)])
  BY TransportEnds
<1>2. /\ Dialer(t) = p /\ conns[t].state["dialer"] = "open"
      /\ Client(session[p], slots[p], count[p], asked[p], Acceptor(t))
  BY TransportEnds DEF Server
<1>3. End(t, p) = "dialer"
  BY <1>2 DEF End, Dialer
<1>4. /\ HasReadBy(p, t) = IF session[p].startDone THEN 3 ELSE 2
      /\ HasWritten(p, t) = IF session[p].startDone THEN 3 ELSE 2
  BY GameView DEF HasReadBy, HasWritten
<1>5. conns[t].state["acceptor"] = "open" => transport[Acceptor(t)] = t
  BY <1>1, Taker
<1> QED
  BY <1>1, <1>2, <1>3, <1>4, <1>5

LEMMA ServerOf ==
  ASSUME GameInv, NEW p \in Program, NEW t, t = transport[p], t # 0, session[p].role # "CLIENT"
  PROVE  /\ t \in ConnId /\ conns[t] \in Connection
         /\ Acceptor(t) = p /\ Dialer(t) \in Program /\ Dialer(t) # p /\ End(t, p) = "acceptor"
         /\ conns[t].state["acceptor"] = "open"
         /\ conns[t].state["dialer"] = "open" => Held(Dialer(t), t)
         /\ Server(session[p], slots[p], count[p], asked[p], Dialer(t))
         /\ Joined(conns[t], HasReadBy(Dialer(t), t), HasWritten(Dialer(t), t), session[p])
<1>1. /\ t \in ConnId /\ conns[t] \in Connection /\ ~Free(conns[t])
      /\ Dialer(t) \in Program /\ Acceptor(t) \in Program /\ Dialer(t) # Acceptor(t)
      /\ Joined(conns[t], HasReadBy(Dialer(t), t), HasWritten(Dialer(t), t),
                session[Acceptor(t)])
  BY TransportEnds
<1>2. /\ Acceptor(t) = p /\ conns[t].state["acceptor"] = "open"
      /\ Server(session[p], slots[p], count[p], asked[p], Dialer(t))
  BY TransportEnds DEF Client
<1>3. End(t, p) = "acceptor"
  BY <1>1, <1>2 DEF End, Dialer
<1>4. conns[t].state["dialer"] = "open" => Held(Dialer(t), t)
  BY <1>1, GameParts DEF ConnInv
<1> QED
  BY <1>1, <1>2, <1>3, <1>4

\* The acceptor's connection after a step that moves its session along.
LEMMA ServerConn ==
  ASSUME GameInv, NEW p \in Program, OwnStep(p), NEW t, t = transport[p], t # 0,
         session[p].role # "CLIENT", transport'[p] = t,
         conns'[t].ends = conns[t].ends, conns'[t].state = conns[t].state,
         Joined(conns'[t], HasReadBy(Dialer(t), t), HasWritten(Dialer(t), t), session'[p])
  PROVE  ConnInv(t)'
<1>1. /\ Acceptor(t) = p /\ Dialer(t) \in Program /\ Dialer(t) # p
      /\ conns[t].state["dialer"] = "open" => Held(Dialer(t), t)
  BY ServerOf
<1>2. PICK q \in Program : q = Dialer(t)
  BY <1>1
<1> QED
  BY <1>1, <1>2, AcceptorChange DEF Dialer, Acceptor

\* What the acceptor sends next, with its session as it is then.
LEMMA ServerSends ==
  ASSUME GameInv, NEW p \in Program, OwnStep(p), NEW t, t = transport[p], t # 0,
         session[p].role # "CLIENT", transport'[p] = t,
         NEW m \in Message, Answers(p, session[p], session'[p], m),
         conns' = Written(conns, t, End(t, p), m)
  PROVE  /\ ConnInv(t)' /\ Respects(p, conns[t], conns'[t])
         /\ conns'[t].ends = conns[t].ends /\ conns'[t].state = conns[t].state
         /\ \A c \in ConnId : c # t => conns'[c] = conns[c]
<1>1. /\ t \in ConnId /\ conns[t] \in Connection /\ End(t, p) = "acceptor"
      /\ conns[t].ends["acceptor"] = p /\ conns[t].state["acceptor"] = "open"
      /\ Joined(conns[t], HasReadBy(Dialer(t), t), HasWritten(Dialer(t), t), session[p])
  BY ServerOf DEF Acceptor
<1>2. /\ Sent(conns[t], conns'[t], "acceptor", m)
      /\ \A c \in ConnId : c # t => conns'[c] = conns[c]
  BY <1>1, WrittenEffect, GameParts, Sides
<1>3. conns'[t].ends = conns[t].ends /\ conns'[t].state = conns[t].state
  BY <1>2, ZenonT(40) DEF Sent
<1>4. Joined(conns'[t], HasReadBy(Dialer(t), t), HasWritten(Dialer(t), t), session'[p])
  BY <1>1, <1>2, AcceptorSends
<1>5. ConnInv(t)'
  BY <1>3, <1>4, ServerConn
<1>6. Respects(p, conns[t], conns'[t])
  BY <1>2, RespectsSent, Sides
<1> QED
  BY <1>2, <1>3, <1>5, <1>6

\* A session of a type is a record of its fields.
LEMMA SessionFields ==
  ASSUME NEW s \in SessionType
  PROVE  /\ s.helloSent \in BOOLEAN /\ s.helloReceived \in BOOLEAN /\ s.hello \in BOOLEAN
         /\ s.challengeDone \in BOOLEAN /\ s.startSent \in BOOLEAN /\ s.startDone \in BOOLEAN
         /\ s.phase \in Phase /\ s.role \in {"UNKNOWN", "SERVER", "CLIENT"}
         /\ s.remote \in Program \cup {None} /\ s.offer \in Program \cup {None}
BY DEF SessionType

\* A server's session that has not said HELLO yet.
LEMMA ServerFresh ==
  ASSUME NEW s \in SessionType, NEW f, NEW n, NEW a, NEW q, Server(s, f, n, a, q), ~s.hello
  PROVE  /\ ~s.helloSent /\ ~s.challengeDone /\ ~s.startSent /\ ~s.startDone
         /\ ~Settled(s) /\ AnswersOf(s) = 0
BY DEF Server, Settled, AnswersOf

LEMMA AdvanceHelloGame ==
  ASSUME GameInv, AskedInv', NEW p \in Program, AdvanceHello(p)
  PROVE  GameInv'
<1>0. PICK t, s, u, m : /\ t = transport[p] /\ s = session[p] /\ u = session'[p]
                        /\ m = [type |-> "HELLO", from |-> p]
  OBVIOUS
<1>1. /\ t # 0 /\ s.role # "CLIENT" /\ ~s.hello /\ s \in SessionType /\ conns \in Conns
      /\ slots' = slots /\ count' = count /\ transport' = transport /\ backlog' = backlog
      /\ asked' = asked
  BY <1>0, GameParts DEF AdvanceHello, lobby
<1>2. /\ t \in ConnId /\ Acceptor(t) = p /\ conns[t].state["acceptor"] = "open"
      /\ Server(s, slots[p], count[p], asked[p], Dialer(t))
  BY <1>0, <1>1, ServerOf
<1>3. /\ ~s.helloSent /\ ~s.challengeDone /\ ~s.startSent /\ ~s.startDone
      /\ ~Settled(s) /\ AnswersOf(s) = 0
  BY <1>1, <1>2, ServerFresh
<1>4. \A r \in Program : r # p => session'[r] = session[r]
  BY GameParts DEF AdvanceHello, Types
<1>5. OwnStep(p)
  BY <1>1, <1>4 DEF OwnStep
<1>6. CASE s.helloReceived
  <2>1. /\ u = [s EXCEPT !.role = "SERVER", !.helloSent = TRUE, !.hello = TRUE,
                         !.phase = "AUTHENTICATED"]
        /\ conns' = Written(conns, t, End(t, p), m)
    BY <1>0, <1>3, <1>6, GameParts DEF AdvanceHello, Types
  <2>2. /\ u.role = "SERVER" /\ u.helloSent /\ u.hello /\ u.phase = "AUTHENTICATED"
        /\ u.helloReceived /\ ~u.challengeDone /\ ~u.startSent /\ ~u.startDone
        /\ u.remote = s.remote /\ u.helloReceived = s.helloReceived
        /\ u.startDone = s.startDone
    BY <1>1, <1>3, <1>6, <2>1 DEF SessionType
  <2>3. AnswersOf(u) = 1 /\ ~Settled(u)
    BY <2>2 DEF AnswersOf, Settled
  <2>4. m \in Message /\ m = ByAcceptor(p)[1]
    BY <1>0, Packets DEF Message
  <2>5. /\ ConnInv(t)' /\ Respects(p, conns[t], conns'[t])
        /\ conns'[t].ends = conns[t].ends /\ conns'[t].state = conns[t].state
        /\ \A c \in ConnId : c # t => conns'[c] = conns[c]
    <3>1. Answers(p, s, u, m)
      <4>1. ASSUME NEW w \in 0 .. 3, HasAnswered(s, w)
            PROVE  m = ByAcceptor(p)[OneMore(w)] /\ HasAnswered(u, OneMore(w))
        <5>1. w = 0 /\ OneMore(w) = 1
          BY <1>3, <4>1 DEF HasAnswered, OneMore
        <5> QED
          BY <2>3, <2>4, <5>1 DEF HasAnswered
      <4> QED
        BY <1>3, <2>2, <4>1 DEF Answers
    <3>2. /\ Answers(p, session[p], session'[p], m) /\ m \in Message
          /\ session[p].role # "CLIENT" /\ transport'[p] = t
          /\ conns' = Written(conns, t, End(t, p), m)
      BY <1>0, <1>1, <2>1, <2>4, <3>1
    <3> QED
      BY <1>0, <1>1, <1>5, <3>2, ServerSends
  <2>6. Server(u, slots[p], count[p], asked[p], Dialer(t))
    BY <1>2, <1>6, <2>2 DEF Server
  <2>7. SessionInv(p, u, t, slots[p], count[p], asked[p], conns')
    BY <1>1, <1>2, <2>5, <2>6 DEF SessionInv, Dialer, Acceptor
  <2>8. Exchanged(p)
    BY <1>0, <1>1, <1>3, <1>4, <2>2, <2>3, <2>5 DEF Exchanged
  <2> QED
    BY <1>0, <2>5, <2>7, <2>8, ExchangedGame
<1>7. CASE ~s.helloReceived
  <2>1. u = [s EXCEPT !.role = "SERVER"] /\ conns' = conns
    BY <1>0, <1>7, GameParts DEF AdvanceHello, Types
  <2>2. /\ u.role = "SERVER" /\ u.helloSent = s.helloSent /\ u.hello = s.hello
        /\ u.phase = s.phase /\ u.helloReceived = s.helloReceived
        /\ u.challengeDone = s.challengeDone /\ u.startSent = s.startSent
        /\ u.startDone = s.startDone /\ u.remote = s.remote
    BY <1>1, <2>1 DEF SessionType
  <2>3. Server(u, slots[p], count[p], asked[p], Dialer(t))
    BY <1>2, <2>2 DEF Server
  <2>4. SessionInv(p, u, t, slots[p], count[p], asked[p], conns')
    BY <1>1, <1>2, <2>1, <2>3 DEF SessionInv, Dialer, Acceptor
  <2>5. Exchanged(p)
    BY <1>0, <1>1, <1>4, <2>1, <2>2 DEF Exchanged, Settled
  <2>6. ConnInv(t)'
    <3>1. SameChallenges(p) /\ SameProgress(session[p], session'[p])
      BY <1>0, <1>1, <2>2 DEF SameChallenges, SameProgress
    <3> QED
      BY <1>0, <1>1, <1>2, <1>5, <2>1, <3>1, ConnStays
  <2> QED
    BY <1>0, <2>1, <2>4, <2>5, <2>6, ExchangedGame, RespectsSame
<1> QED
  BY <1>6, <1>7

LEMMA ServerSendsGame ==
  ASSUME GameInv, AskedInv', NEW p \in Program, NEW t, t = transport[p], t # 0,
         session[p].role # "CLIENT", UNCHANGED <<lobby, transport, backlog, asked>>,
         \A r \in Program : r # p => session'[r] = session[r],
         NEW m \in Message, Answers(p, session[p], session'[p], m),
         conns' = Written(conns, t, End(t, p), m),
         Server(session'[p], slots[p], count[p], asked[p], Dialer(t)),
         session'[p].challengeDone \/ Settled(session'[p]) <=>
           session[p].challengeDone \/ Settled(session[p])
  PROVE  GameInv'
<1>1. /\ slots' = slots /\ count' = count /\ transport' = transport /\ backlog' = backlog
      /\ asked' = asked /\ transport'[p] = t
  BY DEF lobby
<1>2. OwnStep(p)
  BY <1>1 DEF OwnStep
<1>3. /\ ConnInv(t)' /\ Respects(p, conns[t], conns'[t])
      /\ conns'[t].ends = conns[t].ends /\ conns'[t].state = conns[t].state
      /\ \A c \in ConnId : c # t => conns'[c] = conns[c]
  BY <1>1, <1>2, ServerSends
<1>4. conns[t].ends["acceptor"] = p /\ conns[t].state["acceptor"] = "open"
  BY ServerOf DEF Acceptor
<1>5. SessionInv(p, session'[p], t, slots[p], count[p], asked[p], conns')
  BY <1>3, <1>4 DEF SessionInv, Dialer
<1>6. Exchanged(p)
  BY <1>1, <1>3 DEF Exchanged
<1> QED
  BY <1>3, <1>5, <1>6, ExchangedGame

LEMMA SendStartGame ==
  ASSUME GameInv, AskedInv', NEW p \in Program, SendStart(p)
  PROVE  GameInv'
<1>0. PICK t, s, u, m : /\ t = transport[p] /\ s = session[p] /\ u = session'[p]
                        /\ m = [type |-> "START"]
  OBVIOUS
<1>1. /\ t # 0 /\ s.role = "SERVER" /\ s.hello /\ s.challengeDone /\ ~s.startSent
      /\ ~s.startDone /\ s \in SessionType
      /\ conns' = Written(conns, t, End(t, p), m)
  BY <1>0, GameParts DEF SendStart
<1>2. /\ UNCHANGED <<lobby, transport, backlog, asked>>
      /\ u = [s EXCEPT !.startSent = TRUE]
      /\ \A r \in Program : r # p => session'[r] = session[r]
  BY <1>0, GameParts DEF SendStart, Types
<1>3. /\ u.startSent /\ u.role = s.role /\ u.remote = s.remote /\ u.phase = s.phase
      /\ u.hello = s.hello /\ u.helloSent = s.helloSent /\ u.helloReceived = s.helloReceived
      /\ u.challengeDone = s.challengeDone /\ u.startDone = s.startDone
  BY <1>1, <1>2 DEF SessionType
<1>4. Server(s, slots[p], count[p], asked[p], Dialer(t))
  BY <1>0, <1>1, ServerOf
<1>5. Server(u, slots[p], count[p], asked[p], Dialer(t))
  BY <1>1, <1>3, <1>4 DEF Server
<1>6. AnswersOf(s) = 2 /\ AnswersOf(u) = 3 /\ u.challengeDone
  BY <1>1, <1>3 DEF AnswersOf
<1>7. m \in Message /\ m = ByAcceptor(p)[3]
  BY <1>0, Packets DEF Message
<1>8. Answers(p, s, u, m)
  <2>1. ASSUME NEW w \in 0 .. 3, HasAnswered(s, w)
        PROVE  m = ByAcceptor(p)[OneMore(w)] /\ HasAnswered(u, OneMore(w))
    <3>1. OneMore(w) = 3
      BY <1>6, <2>1 DEF HasAnswered, OneMore
    <3> QED
      BY <1>6, <1>7, <3>1 DEF HasAnswered
  <2> QED
    BY <1>3, <2>1 DEF Answers
<1>9. u.challengeDone \/ Settled(u) <=> s.challengeDone \/ Settled(s)
  BY <1>3 DEF Settled
<1>10. s.role # "CLIENT"
  BY <1>1
<1> QED
  BY <1>0, <1>1, <1>2, <1>5, <1>7, <1>8, <1>9, <1>10, ServerSendsGame

\* A retry changes only what the server knows of its START.
LEMMA RetryStartGame ==
  ASSUME GameInv, AskedInv', NEW p \in Program, RetryStart(p)
  PROVE  GameInv'
<1>0. PICK t, s, u : t = transport[p] /\ s = session[p] /\ u = session'[p]
  OBVIOUS
<1>1. /\ s.startSent /\ ~s.startDone /\ s \in SessionType
      /\ UNCHANGED <<lobby, transport, backlog, asked>> /\ conns' = conns
      /\ u = [s EXCEPT !.startSent = FALSE]
      /\ \A r \in Program : r # p => session'[r] = session[r]
  BY <1>0, GameParts DEF RetryStart, Types, net
<1>2. /\ ~u.startSent /\ u.role = s.role /\ u.remote = s.remote /\ u.phase = s.phase
      /\ u.hello = s.hello /\ u.helloSent = s.helloSent /\ u.helloReceived = s.helloReceived
      /\ u.challengeDone = s.challengeDone /\ u.startDone = s.startDone
  BY <1>1 DEF SessionType
<1>3. t # 0 /\ s.role # "CLIENT"
  <2>1. SessionInv(p, s, t, slots[p], count[p], asked[p], conns)
    BY <1>0, GameParts DEF ProgInv
  <2> QED
    BY <1>1, <2>1 DEF SessionInv, Alone, Client, Server
<1>4. /\ t \in ConnId /\ conns[t] \in Connection
      /\ conns[t].ends["acceptor"] = p /\ conns[t].state["acceptor"] = "open"
      /\ Server(s, slots[p], count[p], asked[p], Dialer(t))
      /\ Joined(conns[t], HasReadBy(Dialer(t), t), HasWritten(Dialer(t), t), s)
  BY <1>0, <1>3, ServerOf DEF Acceptor
<1>5. Server(u, slots[p], count[p], asked[p], Dialer(t))
  BY <1>1, <1>2, <1>4 DEF Server
<1>6. Joined(conns[t], HasReadBy(Dialer(t), t), HasWritten(Dialer(t), t), u)
  <2>1. PICK k, read, written :
          k = conns[t] /\ read = HasReadBy(Dialer(t), t) /\ written = HasWritten(Dialer(t), t)
    OBVIOUS
  <2>2. Joined(k, read, written, s)
    BY <1>4, <2>1
  <2>3. s.challengeDone
    BY <1>1, <1>4 DEF Server
  <2>4. \A w \in 0 .. 3 : HasAnswered(s, w) => HasAnswered(u, w)
    BY <1>1, <1>2, <2>3 DEF HasAnswered, AnswersOf
  <2>5. \A r \in 0 .. 3 : HasRead(s, r) => HasRead(u, r)
    BY <1>2 DEF HasRead
  <2>6. ToDialer(k, read, s) => ToDialer(k, read, u)
    BY <2>4 DEF ToDialer
  <2>7. ToAcceptor(k, written, s) => ToAcceptor(k, written, u)
    BY <1>2, <2>5 DEF ToAcceptor
  <2>8. Joined(k, read, written, u)
    BY <2>2, <2>6, <2>7 DEF Joined
  <2> QED
    BY <2>1, <2>8
<1>7. /\ slots' = slots /\ count' = count /\ transport' = transport /\ backlog' = backlog
      /\ asked' = asked
  BY <1>1 DEF lobby
<1>8. ConnInv(t)'
  <2>1. OwnStep(p) /\ transport'[p] = t /\ session[p].role # "CLIENT"
    BY <1>0, <1>1, <1>3, <1>7 DEF OwnStep
  <2>2. /\ conns'[t].ends = conns[t].ends /\ conns'[t].state = conns[t].state
        /\ Joined(conns'[t], HasReadBy(Dialer(t), t), HasWritten(Dialer(t), t), session'[p])
    BY <1>0, <1>1, <1>6
  <2> QED
    BY <1>0, <1>3, <2>1, <2>2, ServerConn
<1>9. SessionInv(p, u, t, slots[p], count[p], asked[p], conns')
  BY <1>1, <1>3, <1>4, <1>5 DEF SessionInv, Dialer
<1>10. Exchanged(p)
  BY <1>0, <1>1, <1>2, <1>3, <1>7 DEF Exchanged, Settled
<1> QED
  BY <1>0, <1>1, <1>8, <1>9, <1>10, ExchangedGame, RespectsSame

\* The packet a program that has accepted a connection reads on it.
LEMMA ServerHears ==
  ASSUME GameInv, NEW p \in Program, NEW t, t = transport[p], t # 0,
         session[p].role # "CLIENT", conns[t].toRead[End(t, p)] # <<>>
  PROVE  \E r \in 0 .. 2 :
           /\ Packet(p) = ByDialer(Dialer(t))[r + 1]
           /\ HasRead(session[p], r)
           /\ (r >= 1 => session[p].helloSent) /\ (r = 2 => session[p].challengeDone)
<1>1. /\ t \in ConnId /\ conns[t] \in Connection /\ conns[t].state["acceptor"] = "open"
      /\ End(t, p) = "acceptor"
      /\ Joined(conns[t], HasReadBy(Dialer(t), t), HasWritten(Dialer(t), t), session[p])
  BY ServerOf
<1>2. Taken(conns[t], Read(conns, t, "acceptor")[t], "acceptor")
  BY <1>1, ReadEffect, GameParts, Sides
<1>3. SameAnswers(session[p], session[p]) /\ conns[t].toRead["acceptor"] # <<>>
  BY <1>1 DEF SameAnswers
<1>4. \E r \in 0 .. 2 :
        Hears(conns[t], Read(conns, t, "acceptor")[t], HasReadBy(Dialer(t), t),
              HasWritten(Dialer(t), t), session[p], session[p], r)
  BY <1>1, <1>2, <1>3, AcceptorReads
<1>5. Packet(p) = Head(conns[t].toRead["acceptor"])
  BY <1>1 DEF Packet
<1> QED
  BY <1>4, <1>5 DEF Dialer, Hears

LEMMA PacketTypes ==
  ASSUME NEW q
  PROVE  /\ \A r \in 0 .. 2 :
              ByDialer(q)[r + 1].type = IF r = 0 THEN "HELLO" ELSE IF r = 1 THEN "OFFER" ELSE "ACK"
         /\ \A r \in 0 .. 2 :
              ByAcceptor(q)[r + 1].type
                = IF r = 0 THEN "HELLO" ELSE IF r = 1 THEN "ACCEPT" ELSE "START"
         /\ \A r \in 0 .. 1 : ByDialer(q)[r + 1].from = q /\ ByAcceptor(q)[r + 1].from = q
<1>1. /\ ByDialer(q)[1].type = "HELLO" /\ ByDialer(q)[1].from = q
      /\ ByDialer(q)[2].type = "OFFER" /\ ByDialer(q)[2].from = q
      /\ ByDialer(q)[3].type = "ACK"
      /\ ByAcceptor(q)[1].type = "HELLO" /\ ByAcceptor(q)[1].from = q
      /\ ByAcceptor(q)[2].type = "ACCEPT" /\ ByAcceptor(q)[2].from = q
      /\ ByAcceptor(q)[3].type = "START"
  <2>1. PICK a, b, c, d, e :
          /\ a = [type |-> "HELLO", from |-> q] /\ b = [type |-> "OFFER", from |-> q]
          /\ c = [type |-> "ACK"] /\ d = [type |-> "ACCEPT", from |-> q]
          /\ e = [type |-> "START"]
    OBVIOUS
  <2>2. /\ a.type = "HELLO" /\ a.from = q /\ b.type = "OFFER" /\ b.from = q
        /\ c.type = "ACK" /\ d.type = "ACCEPT" /\ d.from = q /\ e.type = "START"
    BY <2>1
  <2>3. /\ ByDialer(q)[1] = a /\ ByDialer(q)[2] = b /\ ByDialer(q)[3] = c
        /\ ByAcceptor(q)[1] = a /\ ByAcceptor(q)[2] = d /\ ByAcceptor(q)[3] = e
    BY <2>1, Packets
  <2> QED
    BY <2>2, <2>3
<1>2. 0 + 1 = 1 /\ 1 + 1 = 2 /\ 2 + 1 = 3
  OBVIOUS
<1>3. \A r \in 0 .. 2 : r = 0 \/ r = 1 \/ r = 2
  OBVIOUS
<1>4. \A r \in 0 .. 1 : r = 0 \/ r = 1
  OBVIOUS
<1> QED
  BY <1>1, <1>2, <1>3, <1>4

\* The acceptor's connection once the packet is read.
LEMMA ServerTakes ==
  ASSUME GameInv, NEW p \in Program, OwnStep(p), NEW t, t = transport[p], t # 0,
         session[p].role # "CLIENT", transport'[p] = t,
         conns[t].toRead[End(t, p)] # <<>>, conns' = Consumed(p),
         NEW r \in 0 .. 2, Packet(p) = ByDialer(Dialer(t))[r + 1], HasRead(session'[p], r + 1),
         SameAnswers(session[p], session'[p])
  PROVE  /\ ConnInv(t)' /\ Respects(p, conns[t], conns'[t])
         /\ conns'[t].ends = conns[t].ends /\ conns'[t].state = conns[t].state
         /\ \A c \in ConnId : c # t => conns'[c] = conns[c]
<1>1. /\ t \in ConnId /\ conns[t] \in Connection /\ conns[t].state["acceptor"] = "open"
      /\ End(t, p) = "acceptor"
      /\ Joined(conns[t], HasReadBy(Dialer(t), t), HasWritten(Dialer(t), t), session[p])
  BY ServerOf
<1>2. /\ Taken(conns[t], conns'[t], "acceptor")
      /\ \A c \in ConnId : c # t => conns'[c] = conns[c]
  BY <1>1, ReadEffect, GameParts, Sides DEF Consumed
<1>3. PICK n \in 0 .. 2 :
        /\ Head(conns[t].toRead["acceptor"]) = ByDialer(conns[t].ends["dialer"])[n + 1]
        /\ conns'[t].ends = conns[t].ends /\ conns'[t].state = conns[t].state
        /\ HasRead(session'[p], n + 1) =>
             Joined(conns'[t], HasReadBy(Dialer(t), t), HasWritten(Dialer(t), t), session'[p])
  <2>1. conns[t].toRead["acceptor"] # <<>>
    BY <1>1
  <2>2. \E n \in 0 .. 2 :
          Hears(conns[t], conns'[t], HasReadBy(Dialer(t), t), HasWritten(Dialer(t), t),
                session[p], session'[p], n)
    BY <1>1, <1>2, <2>1, AcceptorReads
  <2> QED
    BY <2>2 DEF Hears
<1>4. n = r
  <2>1. ByDialer(Dialer(t))[n + 1] = ByDialer(Dialer(t))[r + 1]
    BY <1>1, <1>3 DEF Packet, Dialer
  <2>2. ByDialer(Dialer(t))[n + 1].type = ByDialer(Dialer(t))[r + 1].type
    BY <2>1
  <2> QED
    BY <2>2, PacketTypes
<1>5. ConnInv(t)'
  BY <1>3, <1>4, ServerConn
<1> QED
  BY <1>2, <1>3, <1>5, RespectsTaken, Sides

LEMMA ServerTakesGame ==
  ASSUME GameInv, AskedInv', NEW p \in Program, NEW t, t = transport[p], t # 0,
         session[p].role # "CLIENT", UNCHANGED <<lobby, transport, backlog, asked>>,
         \A r \in Program : r # p => session'[r] = session[r],
         conns[t].toRead[End(t, p)] # <<>>, conns' = Consumed(p),
         NEW r \in 0 .. 2, Packet(p) = ByDialer(Dialer(t))[r + 1], HasRead(session'[p], r + 1),
         SameAnswers(session[p], session'[p]),
         Server(session'[p], slots[p], count[p], asked[p], Dialer(t)),
         session'[p].challengeDone \/ Settled(session'[p]) <=>
           session[p].challengeDone \/ Settled(session[p])
  PROVE  GameInv'
<1>1. /\ slots' = slots /\ count' = count /\ transport' = transport /\ backlog' = backlog
      /\ asked' = asked /\ transport'[p] = t
  BY DEF lobby
<1>2. OwnStep(p)
  BY <1>1 DEF OwnStep
<1>3. /\ ConnInv(t)' /\ Respects(p, conns[t], conns'[t])
      /\ conns'[t].ends = conns[t].ends /\ conns'[t].state = conns[t].state
      /\ \A c \in ConnId : c # t => conns'[c] = conns[c]
  BY <1>1, <1>2, ServerTakes
<1>4. conns[t].ends["acceptor"] = p /\ conns[t].state["acceptor"] = "open"
  BY ServerOf DEF Acceptor
<1>5. SessionInv(p, session'[p], t, slots[p], count[p], asked[p], conns')
  BY <1>3, <1>4 DEF SessionInv, Dialer
<1>6. Exchanged(p)
  BY <1>1, <1>3 DEF Exchanged
<1> QED
  BY <1>3, <1>5, <1>6, ExchangedGame

\* What a client reads next on its game connection, where the server has written.
LEMMA ClientHears ==
  ASSUME GameInv, NEW p \in Program, NEW t, t = transport[p], t # 0,
         session[p].role = "CLIENT", conns[t].toRead[End(t, p)] # <<>>,
         NEW n, n = IF session[p].startDone THEN 3 ELSE 2
  PROVE  /\ Packet(p).type = "START"
         /\ Consumed(p)[t].ends = conns[t].ends /\ Consumed(p)[t].state = conns[t].state
         /\ \A c \in ConnId : c # t => Consumed(p)[c] = conns[c]
         /\ Taken(conns[t], Consumed(p)[t], "dialer")
         /\ Joined(Consumed(p)[t], 3, n, session[Acceptor(t)])
         /\ conns[t].state["acceptor"] \notin {"free", "queued"}
         /\ conns[t].state["acceptor"] = "open" =>
              session[Acceptor(t)].helloSent /\ session[Acceptor(t)].challengeDone
<1>1. /\ t \in ConnId /\ conns[t] \in Connection /\ End(t, p) = "dialer"
      /\ conns[t].state["dialer"] = "open"
      /\ Joined(conns[t], n, n, session[Acceptor(t)])
  BY ClientOf
<1>2. /\ Taken(conns[t], Consumed(p)[t], "dialer")
      /\ \A c \in ConnId : c # t => Consumed(p)[c] = conns[c]
      /\ conns[t].toRead["dialer"] # <<>>
  BY <1>1, ReadEffect, GameParts, Sides DEF Consumed
<1>3. OneMore(n) = 3
  BY DEF OneMore
<1>4. /\ Head(conns[t].toRead["dialer"]) = ByAcceptor(conns[t].ends["acceptor"])[3]
      /\ conns[t].state["acceptor"] \notin {"free", "queued"}
      /\ conns[t].state["acceptor"] = "open" => Knows(session[Acceptor(t)], 3)
      /\ Consumed(p)[t].ends = conns[t].ends /\ Consumed(p)[t].state = conns[t].state
      /\ Joined(Consumed(p)[t], 3, n, session[Acceptor(t)])
  <2>1. PICK k, l, v : k = conns[t] /\ l = Consumed(p)[t] /\ v = session[Acceptor(t)]
    OBVIOUS
  <2>2. /\ k \in Connection /\ Joined(k, n, n, v) /\ k.state["dialer"] = "open"
        /\ Taken(k, l, "dialer") /\ k.toRead["dialer"] # <<>>
    BY <1>1, <1>2, <2>1
  <2>3. /\ Head(k.toRead["dialer"]) = ByAcceptor(k.ends["acceptor"])[OneMore(n)]
        /\ k.state["acceptor"] \notin {"free", "queued"}
        /\ k.state["acceptor"] = "open" => Knows(v, OneMore(n))
        /\ l.ends = k.ends /\ l.state = k.state
        /\ Joined(l, OneMore(n), n, v)
    BY <2>2, DialerReads
  <2> QED
    BY <1>3, <2>1, <2>3
<1>5. Packet(p).type = "START"
  <2>1. Packet(p) = ByAcceptor(Acceptor(t))[3]
    BY <1>1, <1>4 DEF Packet, Acceptor
  <2>2. Packet(p) = [type |-> "START"]
    BY <2>1, Packets
  <2> QED
    BY <2>2
<1>6. conns[t].state["acceptor"] = "open" =>
        session[Acceptor(t)].helloSent /\ session[Acceptor(t)].challengeDone
  <2>1. SUFFICES ASSUME conns[t].state["acceptor"] = "open"
                 PROVE  session[Acceptor(t)].helloSent /\ session[Acceptor(t)].challengeDone
    OBVIOUS
  <2>2. 3 \in 1 .. 3 /\ 3 >= 2
    OBVIOUS
  <2> QED
    BY <1>1, <1>4, <2>1, <2>2, Taker, ServerAnswers
<1> QED
  BY <1>2, <1>4, <1>5, <1>6

\* What is asked of the session u of a server of p that was s when it read packet r.
HeardWell(p, s, u, q, r) ==
  /\ Server(u, slots[p], count[p], asked[p], q) /\ HasRead(u, r + 1) /\ SameAnswers(s, u)
  /\ u.challengeDone \/ Settled(u) <=> s.challengeDone \/ Settled(s)

LEMMA HandlePacketGame ==
  ASSUME GameInv, AskedInv', NEW p \in Program, HandlePacket(p)
  PROVE  GameInv'
<1>0. PICK t, s, u, m : /\ t = transport[p] /\ s = session[p] /\ u = session'[p]
                        /\ m = Packet(p)
  OBVIOUS
<1>1. /\ t # 0 /\ conns[t].toRead[End(t, p)] # <<>> /\ m.type \in {"HELLO", "ACCEPT", "ACK"}
      /\ conns' = Consumed(p) /\ s \in SessionType
      /\ count' = count /\ UNCHANGED <<transport, backlog, asked>>
  BY <1>0, GameParts, ZenonT(40) DEF HandlePacket, Incoming, Packet
<1>2. s.role # "CLIENT"
  <2>1. s.role = "CLIENT" => Packet(p).type = "START"
    BY <1>0, <1>1, ClientHears
  <2> QED
    BY <1>0, <1>1, <2>1
<1>3. PICK r \in 0 .. 2 :
        /\ m = ByDialer(Dialer(t))[r + 1]
        /\ HasRead(s, r) /\ (r >= 1 => s.helloSent) /\ (r = 2 => s.challengeDone)
  BY <1>0, <1>1, <1>2, ServerHears
<1>4. /\ (r = 0 /\ m.type = "HELLO") \/ (r = 2 /\ m.type = "ACK")
      /\ r = 0 => m.from = Dialer(t)
  <2>1. m.type = IF r = 0 THEN "HELLO" ELSE IF r = 1 THEN "OFFER" ELSE "ACK"
    BY <1>3, PacketTypes
  <2>2. r = 0 \/ r = 1 \/ r = 2
    OBVIOUS
  <2>3. r = 0 => m.from = Dialer(t)
    <3>1. 0 \in 0 .. 1
      OBVIOUS
    <3> QED
      BY <1>3, <3>1, PacketTypes
  <2> QED
    BY <1>1, <2>1, <2>2, <2>3
<1>5. slots' = slots
  BY <1>0, <1>4 DEF HandlePacket
<1>6. u = AfterPacket(s, m) /\ \A q \in Program : q # p => session'[q] = session[q]
  BY <1>0, GameParts DEF HandlePacket, Types
<1>7. Server(s, slots[p], count[p], asked[p], Dialer(t))
  BY <1>0, <1>1, <1>2, ServerOf
<1>8. UNCHANGED <<lobby, transport, backlog, asked>>
  BY <1>1, <1>5 DEF lobby
<1>9. ASSUME r = 0 PROVE HeardWell(p, s, u, Dialer(t), r)
  <2>1. m.type = "HELLO" /\ m.from = Dialer(t) /\ ~s.helloReceived /\ ~s.startDone
    BY <1>3, <1>4, <1>9 DEF HasRead
  <2>2. s.remote = None /\ u = [s EXCEPT !.helloReceived = TRUE, !.remote = Dialer(t)]
    BY <1>6, <1>7, <2>1 DEF AfterPacket, Server
  <2>3. /\ u.helloReceived /\ u.remote = Dialer(t) /\ u.role = s.role /\ u.phase = s.phase
        /\ u.hello = s.hello /\ u.helloSent = s.helloSent /\ u.startSent = s.startSent
        /\ u.challengeDone = s.challengeDone /\ u.startDone = s.startDone
    BY <1>1, <2>2 DEF SessionType
  <2>4. Server(u, slots[p], count[p], asked[p], Dialer(t))
    BY <1>7, <2>3 DEF Server
  <2>5. HasRead(u, r + 1)
    <3>1. r + 1 >= 1 /\ r + 1 # 3
      BY <1>9
    <3> QED
      BY <2>1, <2>3, <3>1 DEF HasRead
  <2>6. SameAnswers(s, u) /\ (u.challengeDone \/ Settled(u) <=> s.challengeDone \/ Settled(s))
    BY <2>3 DEF SameAnswers, HasAnswered, AnswersOf, Settled
  <2> QED
    BY <2>4, <2>5, <2>6 DEF HeardWell
<1>10. ASSUME r = 2 PROVE HeardWell(p, s, u, Dialer(t), r)
  <2>1. m.type = "ACK" /\ s.challengeDone /\ ~s.startDone /\ s.helloReceived
    BY <1>3, <1>4, <1>10 DEF HasRead
  <2>2. s.helloSent /\ s.role = "SERVER"
    BY <1>7, <2>1 DEF Server
  <2>3. CASE s.startSent
    <3>1. u = [s EXCEPT !.startDone = TRUE, !.phase = "IN_GAME"]
      BY <1>6, <2>1, <2>2, <2>3 DEF AfterPacket
    <3>2. /\ u.startDone /\ u.phase = "IN_GAME" /\ u.role = s.role /\ u.remote = s.remote
          /\ u.hello = s.hello /\ u.helloSent = s.helloSent /\ u.startSent = s.startSent
          /\ u.challengeDone = s.challengeDone /\ u.helloReceived = s.helloReceived
      BY <1>1, <3>1 DEF SessionType
    <3>3. Server(u, slots[p], count[p], asked[p], Dialer(t))
      BY <1>7, <2>1, <2>2, <2>3, <3>2 DEF Server
    <3>4. HasRead(u, r + 1)
      <4>1. r + 1 >= 1 /\ r + 1 = 3
        BY <1>10
      <4> QED
        BY <2>1, <3>2, <4>1 DEF HasRead
    <3>5. SameAnswers(s, u)
          /\ (u.challengeDone \/ Settled(u) <=> s.challengeDone \/ Settled(s))
      BY <2>1, <3>2 DEF SameAnswers, HasAnswered, AnswersOf
    <3> QED
      BY <3>3, <3>4, <3>5 DEF HeardWell
  <2>4. CASE ~s.startSent
    <3>1. u = s
      BY <1>6, <2>1, <2>4 DEF AfterPacket
    <3>2. HasRead(u, r + 1)
      <4>1. r + 1 >= 1
        BY <1>10
      <4> QED
        BY <2>1, <3>1, <4>1 DEF HasRead
    <3> QED
      BY <1>7, <3>1, <3>2 DEF HeardWell, SameAnswers
  <2> QED
    BY <2>3, <2>4
<1>11. HeardWell(p, session[p], session'[p], Dialer(t), r)
  BY <1>0, <1>4, <1>9, <1>10
<1>12. /\ Server(session'[p], slots[p], count[p], asked[p], Dialer(t)) /\ HasRead(session'[p], r + 1)
       /\ SameAnswers(session[p], session'[p])
       /\ session'[p].challengeDone \/ Settled(session'[p]) <=>
            session[p].challengeDone \/ Settled(session[p])
  BY <1>11 DEF HeardWell
<1>13. /\ session[p].role # "CLIENT" /\ Packet(p) = ByDialer(Dialer(t))[r + 1]
       /\ \A q \in Program : q # p => session'[q] = session[q]
  BY <1>0, <1>2, <1>3, <1>6
<1> QED
  BY <1>0, <1>1, <1>8, <1>12, <1>13, ServerTakesGame

LEMMA HandleStartGame ==
  ASSUME GameInv, AskedInv', NEW p \in Program, HandleStart(p)
  PROVE  GameInv'
<1>0. PICK t, s, u, m : /\ t = transport[p] /\ s = session[p] /\ u = session'[p]
                        /\ m = [type |-> "ACK"]
  OBVIOUS
<1>1. /\ t # 0 /\ conns[t].toRead[End(t, p)] # <<>> /\ Packet(p).type = "START"
      /\ s \in SessionType /\ UNCHANGED <<lobby, transport, backlog, asked>>
  BY <1>0, GameParts DEF HandleStart, Incoming, Packet
<1>2. s.role = "CLIENT"
  <2>1. SUFFICES ASSUME s.role # "CLIENT" PROVE FALSE
    OBVIOUS
  <2>2. PICK r \in 0 .. 2 : Packet(p) = ByDialer(Dialer(t))[r + 1]
    BY <1>0, <1>1, <2>1, ServerHears
  <2> QED
    BY <1>1, <2>2, PacketTypes
<1> DEFINE n == IF s.startDone THEN 3 ELSE 2
<1>3. /\ Consumed(p)[t].ends = conns[t].ends /\ Consumed(p)[t].state = conns[t].state
      /\ \A c \in ConnId : c # t => Consumed(p)[c] = conns[c]
      /\ Taken(conns[t], Consumed(p)[t], "dialer")
      /\ Joined(Consumed(p)[t], 3, n, session[Acceptor(t)])
      /\ conns[t].state["acceptor"] \notin {"free", "queued"}
      /\ conns[t].state["acceptor"] = "open" =>
           session[Acceptor(t)].helloSent /\ session[Acceptor(t)].challengeDone
  BY <1>0, <1>1, <1>2, ClientHears
<1>4. /\ t \in ConnId /\ Dialer(t) = p /\ Acceptor(t) \in Program /\ Acceptor(t) # p
      /\ End(t, p) = "dialer" /\ conns[t].state["dialer"] = "open"
      /\ conns[t].state["acceptor"] = "open" => transport[Acceptor(t)] = t
      /\ Client(s, slots[p], count[p], asked[p], Acceptor(t))
  BY <1>0, <1>1, <1>2, ClientOf
<1>5. /\ conns' = IF s.startDone THEN Consumed(p) ELSE Written(Consumed(p), t, "dialer", m)
      /\ u = IF s.startDone THEN s ELSE [s EXCEPT !.startDone = TRUE, !.phase = "IN_GAME"]
      /\ \A r \in Program : r # p => session'[r] = session[r]
  BY <1>0, <1>2, <1>4, GameParts DEF HandleStart, Answered, Types
<1>6. Consumed(p) \in Conns /\ Consumed(p)[t] \in Connection
  BY <1>0, <1>1, <1>4, GameParts, ReadType, Sides DEF Consumed, Conns
<1>7. m \in Message /\ m = ByDialer(Consumed(p)[t].ends["dialer"])[2 + 1]
  <2>1. 2 + 1 = 3
    OBVIOUS
  <2> QED
    BY <1>0, <2>1, Packets DEF Message
<1>8. \/ s.startDone /\ conns' = Consumed(p)
      \/ /\ ~s.startDone /\ Sent(Consumed(p)[t], conns'[t], "dialer", m)
         /\ \A c \in ConnId : c # t => conns'[c] = conns[c]
  BY <1>3, <1>4, <1>5, <1>6, <1>7, WrittenEffect, Sides
<1>9. /\ conns'[t].ends = conns[t].ends /\ conns'[t].state = conns[t].state
      /\ \A c \in ConnId : c # t => conns'[c] = conns[c]
  BY <1>3, <1>8 DEF Sent
<1>10. Joined(conns'[t], 3, 3, session[Acceptor(t)])
  <2>1. CASE s.startDone
    BY <1>3, <1>8, <2>1
  <2>2. CASE ~s.startDone
    <3>1. PICK k : k = Consumed(p)[t]
      OBVIOUS
    <3>2. PICK v : v = session[Acceptor(t)]
      OBVIOUS
    <3>3. /\ k \in Connection /\ Joined(k, 3, 2, v) /\ k.state["dialer"] = "open"
          /\ k.state["acceptor"] \notin {"free", "queued"}
          /\ k.state["acceptor"] = "open" => v.helloSent /\ v.challengeDone
          /\ Sent(k, conns'[t], "dialer", m) /\ m = ByDialer(k.ends["dialer"])[2 + 1]
      BY <1>3, <1>4, <1>6, <1>7, <1>8, <2>2, <3>1, <3>2
    <3>4. Joined(conns'[t], 3, 2 + 1, v)
      BY <1>7, <3>3, DialerSends
    <3>5. 2 + 1 = 3
      OBVIOUS
    <3> QED
      BY <3>2, <3>4, <3>5
  <2> QED
    BY <2>1, <2>2
<1>11. Respects(p, conns[t], conns'[t])
  <2>1. Respects(p, conns[t], Consumed(p)[t])
    BY <1>3, RespectsTaken, Sides
  <2>2. conns'[t] = Consumed(p)[t] \/ Respects(p, Consumed(p)[t], conns'[t])
    BY <1>8, RespectsSent, Sides
  <2> QED
    BY <2>1, <2>2, RespectsTwice
<1>12. /\ u.startDone /\ u.phase = "IN_GAME" /\ u.role = s.role /\ u.remote = s.remote
       /\ u.hello = s.hello /\ u.helloSent = s.helloSent /\ u.startSent = s.startSent
       /\ u.challengeDone = s.challengeDone /\ u.helloReceived = s.helloReceived
  <2>1. s.startDone => s.phase = "IN_GAME"
    BY <1>4 DEF Client
  <2> QED
    BY <1>1, <1>5, <2>1 DEF SessionType
<1>13. Client(u, slots[p], count[p], asked[p], Acceptor(t))
  BY <1>4, <1>12 DEF Client
<1>14. SessionInv(p, u, t, slots[p], count[p], asked[p], conns')
  BY <1>1, <1>4, <1>9, <1>13 DEF SessionInv, Dialer, Acceptor
<1>15. Settled(s) /\ Settled(u)
  BY <1>4, <1>12 DEF Client, Settled
<1>16. slots' = slots /\ count' = count /\ transport' = transport /\ backlog' = backlog
       /\ asked' = asked /\ transport'[p] = t
  BY <1>0, <1>1 DEF lobby
<1>17. Exchanged(p)
  BY <1>0, <1>1, <1>5, <1>9, <1>15, <1>16 DEF Exchanged
<1>18. ConnInv(t)'
  <2>1. OwnStep(p)
    BY <1>5, <1>16 DEF OwnStep
  <2>2. Held(p, t)' /\ HasReadBy(p, t)' = 3 /\ HasWritten(p, t)' = 3
    BY <1>0, <1>12, <1>16, GameView DEF Held, HasReadBy, HasWritten
  <2>3. PICK q \in Program : q = Acceptor(t)
    BY <1>4
  <2> QED
    BY <1>4, <1>9, <1>10, <2>1, <2>2, <2>3, DialerChange DEF Dialer, Acceptor
<1> QED
  BY <1>0, <1>11, <1>14, <1>17, <1>18, ExchangedGame

\* The rest of a listen queue, the first connection of which is taken.
LEMMA WaitingTail ==
  ASSUME NEW p, NEW b \in Seq(ConnId), b # <<>>, NEW cs, NEW ds, Waiting(p, b, cs),
         \A c \in ConnId : c # Head(b) => ds[c] = cs[c]
  PROVE  Waiting(p, Tail(b), ds)
<1> DEFINE a == Tail(b)
<1>1. /\ Len(b) \in Nat /\ Len(b) # 0 /\ Head(b) = b[1] /\ Len(a) = Len(b) - 1
      /\ \A n \in 1 .. Len(b) - 1 : a[n] = b[n + 1]
      /\ \A n \in 1 .. Len(b) : b[n] \in ConnId
  OBVIOUS
<1> HIDE DEF a
<1>2. ASSUME NEW n \in 1 .. Len(a)
      PROVE  /\ n + 1 \in 1 .. Len(b) /\ n + 1 # 1 /\ 1 \in 1 .. Len(b)
             /\ a[n] = b[n + 1] /\ a[n] \in ConnId
  BY <1>1
<1>3. ASSUME NEW n \in 1 .. Len(a)
      PROVE  ds[a[n]] = cs[a[n]]
  BY <1>1, <1>2 DEF Waiting
<1>4. ASSUME NEW m \in 1 .. Len(a), NEW n \in 1 .. Len(a), a[m] = a[n] PROVE m = n
  <2>1. m + 1 = n + 1
    BY <1>2, <1>4 DEF Waiting
  <2> QED
    BY <2>1
<1>5. \A n \in 1 .. Len(a) :
        cs[a[n]].ends["acceptor"] = p /\ cs[a[n]].state["acceptor"] = "queued"
  BY <1>2 DEF Waiting
<1>6. Waiting(p, a, ds)
  BY <1>3, <1>4, <1>5 DEF Waiting
<1> QED
  BY <1>6 DEF a

LEMMA AcceptGame ==
  ASSUME GameInv, AskedInv', NEW p \in Program, Accept(p)
  PROVE  GameInv'
<1>0. PICK c, s : c = Head(backlog[p]) /\ s = session[p]
  OBVIOUS
<1>1. /\ transport[p] = 0 /\ ~s.hello /\ s.phase # "DISCONNECTED" /\ backlog[p] # <<>>
      /\ transport' = [transport EXCEPT ![p] = c]
      /\ conns' = [conns EXCEPT ![c].state["acceptor"] = "open"]
      /\ backlog' = [backlog EXCEPT ![p] = Tail(@)]
      /\ slots' = slots /\ count' = count /\ session' = session /\ asked' = asked
  BY <1>0 DEF Accept, lobby
<1>2. /\ backlog[p] \in Seq(ConnId) /\ Waiting(p, backlog[p], conns) /\ conns \in Conns
      /\ s \in SessionType /\ ProgInv(p)
  BY <1>0, GameParts
<1>3. /\ c \in ConnId /\ conns[c] \in Connection /\ ConnInv(c) /\ Acceptor(c) = p
      /\ conns[c].state["acceptor"] = "queued" /\ c # 0
  <2>1. Len(backlog[p]) # 0 /\ Head(backlog[p]) = backlog[p][1] /\ 1 \in 1 .. Len(backlog[p])
    BY <1>1, <1>2
  <2>2. c \in ConnId /\ c = backlog[p][1]
    BY <1>0, <1>2, <2>1
  <2> QED
    BY <1>2, <2>1, <2>2, GameParts, ProgramsAssumption DEF Waiting, Acceptor, ConnId
<1>4. PICK q \in Program : q = Dialer(c) /\ q # p
  BY <1>3, OpenJoined, Sides DEF ConnInv, Joined, Dialer, Acceptor
<1>5. /\ Joined(conns[c], HasReadBy(q, c), HasWritten(q, c), s)
      /\ conns[c].state["dialer"] = "open" => Held(q, c)
  <2>1. ~Free(conns[c])
    BY <1>3, OpenJoined, Sides
  <2> QED
    BY <1>0, <1>3, <1>4, <2>1 DEF ConnInv
<1>6. /\ conns'[c].ends = conns[c].ends /\ conns'[c].toRead = conns[c].toRead
      /\ conns'[c].state["dialer"] = conns[c].state["dialer"]
      /\ conns'[c].state["acceptor"] = "open"
      /\ \A d \in ConnId : d # c => conns'[d] = conns[d]
  BY <1>1, <1>2, <1>3 DEF Conns, Connection
<1>7. transport'[p] = c /\ \A r \in Program : r # p => transport'[r] = transport[r]
  BY <1>1, GameParts DEF Types
<1>8. OwnStep(p)
  BY <1>1, <1>7 DEF OwnStep
<1>9. Alone(s, slots[p], count[p]) /\ s.phase = "IDLE"
  <2>1. Alone(s, slots[p], count[p])
    BY <1>0, <1>1, <1>2 DEF ProgInv, SessionInv
  <2> QED
    BY <1>1, <2>1 DEF Alone
<1>10. AnswersOf(s) = 0 /\ ~s.helloReceived /\ ~s.startDone
  BY <1>9 DEF Alone, AnswersOf
<1>11. ConnInv(c)'
  <2>1. Joined(conns'[c], HasReadBy(q, c), HasWritten(q, c), session'[p])
    BY <1>0, <1>1, <1>3, <1>5, <1>6, <1>10, AcceptorTakes
  <2> QED
    BY <1>3, <1>4, <1>5, <1>6, <1>7, <1>8, <2>1, AcceptorChange DEF Dialer, Acceptor
<1>12. Respects(p, conns[c], conns'[c])
  <2>1. SUFFICES ASSUME NEW e \in Side, e # "acceptor" PROVE Keeps(conns[c], conns'[c], e)
    BY <1>3 DEF Respects, Acceptor
  <2>2. e = "dialer"
    BY <2>1 DEF Side
  <2> QED
    BY <1>3, <1>6, <2>2, Sides DEF Keeps
<1>13. ASSUME NEW d \in ConnId, d # c PROVE ConnInv(d)'
  <2>1. conns'[d] = conns[d] /\ d # 0
    BY <1>6, <1>13, ProgramsAssumption DEF ConnId
  <2>2. /\ Held(p, d)' <=> Held(p, d)
        /\ HasReadBy(p, d)' = HasReadBy(p, d) /\ HasWritten(p, d)' = HasWritten(p, d)
    <3>1. Agree(slots[p], count[p], slots'[p], count'[p], d)
      BY <1>1 DEF Agree
    <3>2. transport[p] # d /\ transport'[p] # d
      BY <1>1, <1>7, <1>13, <2>1
    <3> QED
      BY <3>1, <3>2, SameView DEF Held, HasReadBy, HasWritten
  <2>3. ~(Acceptor(d) = p /\ conns[d].state["acceptor"] = "open")
    BY <1>1, <2>1, Taker
  <2> QED
    BY <1>8, <2>1, <2>2, <2>3, ConnKept
<1>14. Server(s, slots[p], count[p], asked[p], q)
  BY <1>2, <1>9, <1>10, SessionFields DEF Alone, Server
<1>15. SessionInv(p, session'[p], c, slots[p], count[p], asked[p], conns')
  BY <1>0, <1>1, <1>3, <1>4, <1>6, <1>14, ZenonT(40) DEF SessionInv, Dialer, Acceptor
<1>16. ASSUME NEW i \in 1 .. MaxSlots
       PROVE  SlotInv(p, slots[p][i], c, s, conns')
  <2>1. SlotInv(p, slots[p][i], 0, s, conns)
    BY <1>0, <1>1, <1>2 DEF ProgInv
  <2>2. slots[p][i].fd # 0 => conns'[slots[p][i].fd] = conns[slots[p][i].fd]
    BY <1>3, <1>6, SlotEnds
  <2> QED
    BY <2>1, <2>2 DEF SlotInv
<1>17. ProgInv(p)'
  BY <1>0, <1>1, <1>7, <1>15, <1>16 DEF ProgInv
<1>18. Waiting(p, backlog'[p], conns') /\ \A r \in Program : r # p => backlog'[r] = backlog[r]
  <2>1. backlog'[p] = Tail(backlog[p]) /\ \A r \in Program : r # p => backlog'[r] = backlog[r]
    BY <1>1, GameParts DEF Types
  <2>2. PICK b, ds : b = backlog[p] /\ ds = conns'
    OBVIOUS
  <2>3. /\ b \in Seq(ConnId) /\ b # <<>> /\ Waiting(p, b, conns)
        /\ \A d \in ConnId : d # Head(b) => ds[d] = conns[d]
    BY <1>0, <1>1, <1>2, <1>6, <2>2
  <2>4. Waiting(p, Tail(b), ds)
    BY <2>3, WaitingTail
  <2> QED
    BY <2>1, <2>2, <2>4
<1>19. ASSUME NEW d \in ConnId PROVE ConnInv(d)' /\ Respects(p, conns[d], conns'[d])
  BY <1>6, <1>11, <1>12, <1>13, RespectsSame
<1> QED
  BY <1>8, <1>17, <1>18, <1>19, Assembled

-----------------------------------------------------------------------------
(* The steps that close every challenge                                      *)

\* p closes its challenges and its game connection, all but connection k, which
\* is its game connection then.
GivesUp(p, k) ==
  /\ OwnStep(p) /\ backlog' = backlog /\ transport'[p] = k
  /\ \A i \in 1 .. MaxSlots : slots'[p][i].fd = 0
  /\ \A i \in 1 .. MaxSlots : slots[p][i].fd \notin {0, k} =>
       Shut(conns[slots[p][i].fd], conns'[slots[p][i].fd], "dialer")
  /\ transport[p] \notin {0, k} =>
       Shut(conns[transport[p]], conns'[transport[p]], End(transport[p], p))
  /\ Untouched(p)

LEMMA GivenUpConn ==
  ASSUME GameInv, NEW p \in Program, NEW k, GivesUp(p, k), NEW c \in ConnId, c # k
  PROVE  ConnInv(c)' /\ Respects(p, conns[c], conns'[c])
<1>0. c # 0 /\ OwnStep(p)
  BY ProgramsAssumption DEF ConnId, GivesUp
<1>1. CASE c = transport[p]
  <2>1. Shut(conns[c], conns'[c], End(c, p))
    BY <1>0, <1>1 DEF GivesUp
  <2> QED
    BY <1>0, <1>1, <2>1, GameHangs
<1>2. CASE \E i \in 1 .. MaxSlots : slots[p][i].fd = c
  <2>1. PICK i \in 1 .. MaxSlots : slots[p][i].fd = c
    BY <1>2
  <2>2. Shut(conns[c], conns'[c], "dialer")
    BY <1>0, <2>1 DEF GivesUp
  <2> QED
    BY <1>0, <2>1, <2>2, ChallengeHangs
<1>3. CASE c # transport[p] /\ \A i \in 1 .. MaxSlots : slots[p][i].fd # c
  <2>1. conns'[c] = conns[c]
    BY <1>3 DEF GivesUp, Untouched
  <2>2. ~Held(p, c)
    <3>1. \A i \in 1 .. count[p] : i \in 1 .. MaxSlots
      BY GameParts, ProgramsAssumption
    <3> QED
      BY <1>3, <3>1 DEF Held, HeldBy
  <2>3. ~(Dialer(c) = p /\ conns[c].state["dialer"] = "open")
    <3>1. SUFFICES ASSUME Dialer(c) = p, conns[c].state["dialer"] = "open" PROVE FALSE
      OBVIOUS
    <3>2. ~Free(conns[c]) /\ ConnInv(c)
      BY <3>1, OpenJoined, Sides, GameParts
    <3> QED
      BY <2>2, <3>1, <3>2 DEF ConnInv
  <2>4. ~(Acceptor(c) = p /\ conns[c].state["acceptor"] = "open")
    BY <1>3, Taker
  <2>5. ConnInv(c)'
    BY <1>0, <2>1, <2>3, <2>4, ConnKept
  <2> QED
    BY <2>1, <2>5, RespectsSame
<1> QED
  BY <1>1, <1>2, <1>3

\* What p says of a slot that has no connection.
LEMMA IdleSlot ==
  ASSUME NEW p, NEW s, NEW t, NEW own, NEW cs, s.fd = 0,
         s.state \in {"NONE", "CONNECT_FAILED"} => s.hello = "no" /\ ~s.offerSent,
         s.state = "OUTGOING_PENDING" => own.challengeDone \/ Settled(own)
  PROVE  SlotInv(p, s, t, own, cs)
BY DEF SlotInv

LEMMA GivenUpGame ==
  ASSUME GameInv, AskedInv', NEW p \in Program, NEW k, GivesUp(p, k),
         k # 0 => ConnInv(k)' /\ Respects(p, conns[k], conns'[k]),
         SessionInv(p, session'[p], k, slots'[p], count'[p], asked'[p], conns'),
         \A i \in 1 .. MaxSlots :
           slots'[p][i].state = "OUTGOING_PENDING" =>
             session'[p].challengeDone \/ Settled(session'[p]),
         \A i \in 1 .. MaxSlots :
           slots'[p][i].state = "CONNECT_FAILED" =>
             slots'[p][i].hello = "no" /\ ~slots'[p][i].offerSent
  PROVE  GameInv'
<1>1. OwnStep(p) /\ backlog' = backlog /\ transport'[p] = k /\ Untouched(p)
  BY DEF GivesUp
<1>2. ASSUME NEW c \in ConnId PROVE ConnInv(c)' /\ Respects(p, conns[c], conns'[c])
  <2>1. c # 0
    BY ProgramsAssumption DEF ConnId
  <2> QED
    BY <2>1, GivenUpConn
<1>3. ASSUME NEW i \in 1 .. MaxSlots
      PROVE  SlotInv(p, slots'[p][i], transport'[p], session'[p], conns')
  <2>1. slots'[p][i].fd = 0
    BY DEF GivesUp
  <2>2. slots'[p][i].state = "NONE" => slots'[p][i].hello = "no" /\ ~slots'[p][i].offerSent
    BY QuietSlot DEF AskedInv, Quiet, LobbyQuiet, SlotQuiet
  <2> QED
    BY <2>1, <2>2, IdleSlot
<1>4. ProgInv(p)'
  BY <1>1, <1>3 DEF ProgInv
<1>5. Waiting(p, backlog'[p], conns')
  BY <1>1, WaitingUntouched
<1> QED
  BY <1>1, <1>2, <1>4, <1>5, Assembled

\* p's challenges, but not k, are closed in the connections cs, which differ from
\* what they are in its game connection and in k.
ClosesFds(p, t, k, cs) ==
  /\ \A c \in ConnId : c \notin {t, k} => cs[c] = conns[c]
  /\ conns' = AllClosed(cs, Fds(p) \ {k})

FdsShut(p, t, k, cs) ==
  /\ \A c \in ConnId : c \notin {t, k} /\ (\A i \in 1 .. MaxSlots : slots[p][i].fd # c)
       => conns'[c] = conns[c]
  /\ \A i \in 1 .. MaxSlots : slots[p][i].fd \notin {0, k} =>
       Shut(conns[slots[p][i].fd], conns'[slots[p][i].fd], "dialer")
  /\ \A c \in ConnId : c \in {t, k} => conns'[c] = cs[c]

LEMMA FdsClosed ==
  ASSUME GameInv, NEW p \in Program, NEW t, t = transport[p], NEW k, NEW cs \in Conns,
         ClosesFds(p, t, k, cs)
  PROVE  FdsShut(p, t, k, cs)
<1>1. \A c \in Fds(p) : \E i \in 1 .. MaxSlots : slots[p][i].fd = c /\ c # 0
  <2>1. \A i \in 1 .. count[p] : i \in 1 .. MaxSlots
    BY GameParts, ProgramsAssumption
  <2> QED
    BY <2>1 DEF Fds
<1>2. ASSUME NEW i \in 1 .. MaxSlots, slots[p][i].fd \notin {0, k}, NEW c, c = slots[p][i].fd
      PROVE  Shut(conns[c], conns'[c], "dialer")
  <2>1. c \in ConnId /\ i \in 1 .. count[p] /\ c # t
    BY <1>2, SlotEnds
  <2>2. c \in Fds(p) \ {k}
    BY <1>2, <2>1 DEF Fds
  <2>3. Shut(cs[c], conns'[c], "dialer")
    BY <2>1, <2>2, AllClosedEffect DEF ClosesFds
  <2> QED
    BY <1>2, <2>1, <2>3 DEF ClosesFds
<1>3. ASSUME NEW c \in ConnId, c \in {t, k} PROVE conns'[c] = cs[c]
  <2>1. c \notin Fds(p) \ {k}
    <3>1. c = t => c \notin Fds(p)
      BY <1>1, SlotEnds
    <3> QED
      BY <1>3, <3>1
  <2> QED
    BY <2>1, AllClosedEffect DEF ClosesFds
<1>4. ASSUME NEW c \in ConnId, c \notin {t, k}, \A i \in 1 .. MaxSlots : slots[p][i].fd # c
      PROVE  conns'[c] = conns[c]
  <2>1. c \notin Fds(p) \ {k}
    BY <1>1, <1>4
  <2> QED
    BY <1>4, <2>1, AllClosedEffect DEF ClosesFds
<1> QED
  BY <1>2, <1>3, <1>4 DEF FdsShut

\* An OFFER is read by the program that has accepted its sender's connection,
\* and has said HELLO.
LEMMA OfferHeard ==
  ASSUME GameInv, NEW p \in Program, Incoming(p, {"OFFER"}), NEW t, t = transport[p]
  PROVE  /\ t # 0 /\ conns[t].toRead[End(t, p)] # <<>> /\ session[p].role # "CLIENT"
         /\ 1 \in 0 .. 2 /\ Packet(p) = ByDialer(Dialer(t))[1 + 1]
         /\ Packet(p) = [type |-> "OFFER", from |-> Dialer(t)] /\ Packet(p).from = Dialer(t)
         /\ session[p].helloReceived /\ ~session[p].startDone /\ session[p].helloSent
         /\ HasRead(session[p], 1 + 1)
<1>1. t # 0 /\ conns[t].toRead[End(t, p)] # <<>> /\ Packet(p).type = "OFFER"
  BY DEF Incoming, Packet
<1>2. session[p].role # "CLIENT"
  <2>1. session[p].role = "CLIENT" => Packet(p).type = "START"
    BY <1>1, ClientHears
  <2> QED
    BY <1>1, <2>1
<1>3. PICK r \in 0 .. 2 :
        /\ Packet(p) = ByDialer(Dialer(t))[r + 1]
        /\ HasRead(session[p], r) /\ (r >= 1 => session[p].helloSent)
  BY <1>1, <1>2, ServerHears
<1>4. r = 1
  BY <1>1, <1>3, PacketTypes
<1>5. session[p].helloReceived /\ ~session[p].startDone /\ session[p].helloSent
  <2>1. HasRead(session[p], 1) /\ session[p].helloSent
    BY <1>3, <1>4
  <2> QED
    BY <2>1 DEF HasRead
<1>6. HasRead(session[p], 1 + 1)
  BY <1>5 DEF HasRead
<1>7. Packet(p) = [type |-> "OFFER", from |-> Dialer(t)]
  <2>1. 1 + 1 = 2
    OBVIOUS
  <2>2. Packet(p) = ByDialer(Dialer(t))[2]
    BY <1>3, <1>4, <2>1
  <2> QED
    BY <2>2, Packets
<1>8. Packet(p).from = Dialer(t)
  BY <1>7
<1> QED
  BY <1>1, <1>2, <1>3, <1>4, <1>5, <1>6, <1>7, <1>8

\* One that changes nothing but what p keeps of the OFFER.
LEMMA OfferKept ==
  ASSUME GameInv, AskedInv', NEW p \in Program, Incoming(p, {"OFFER"}),
         conns' = Consumed(p), UNCHANGED <<lobby, transport, backlog, asked>>,
         NEW q, session' = session \/ session' = [session EXCEPT ![p].offer = q]
  PROVE  GameInv'
<1>0. PICK t, s, u : t = transport[p] /\ s = session[p] /\ u = session'[p]
  OBVIOUS
<1>1. /\ t # 0 /\ conns[t].toRead[End(t, p)] # <<>> /\ s.role # "CLIENT"
      /\ 1 \in 0 .. 2 /\ Packet(p) = ByDialer(Dialer(t))[1 + 1]
      /\ HasRead(s, 1 + 1) /\ s \in SessionType
  BY <1>0, OfferHeard, GameParts
<1>2. /\ u = s \/ u = [s EXCEPT !.offer = q]
      /\ \A r \in Program : r # p => session'[r] = session[r]
  BY <1>0, GameParts DEF Types
<1>3. /\ u.helloReceived = s.helloReceived /\ u.remote = s.remote /\ u.role = s.role
      /\ u.phase = s.phase /\ u.hello = s.hello /\ u.helloSent = s.helloSent
      /\ u.startSent = s.startSent /\ u.challengeDone = s.challengeDone
      /\ u.startDone = s.startDone
  BY <1>1, <1>2 DEF SessionType
<1>4. Server(s, slots[p], count[p], asked[p], Dialer(t))
  BY <1>0, <1>1, ServerOf
<1>5. Server(u, slots[p], count[p], asked[p], Dialer(t))
  BY <1>3, <1>4 DEF Server
<1>6. HasRead(u, 1 + 1)
  BY <1>1, <1>3 DEF HasRead
<1>7. SameAnswers(s, u) /\ (u.challengeDone \/ Settled(u) <=> s.challengeDone \/ Settled(s))
  BY <1>3 DEF SameAnswers, HasAnswered, AnswersOf, Settled
<1> QED
  BY <1>0, <1>1, <1>2, <1>5, <1>6, <1>7, ServerTakesGame

\* One that is shown in its sender's slot.
LEMMA OfferShown ==
  ASSUME GameInv, AskedInv', NEW p \in Program, Incoming(p, {"OFFER"}),
         NEW t, t = transport[p], NEW q, q = Packet(p).from, NEW i, i = SlotOf(p, q),
         q \in Known(p), ~session[p].challengeDone, ~Crossing(p, q) \/ Hung(t, End(t, p)),
         conns' = Consumed(p),
         slots' = [slots EXCEPT ![p][i] = WithState(@, "INCOMING_PENDING")],
         session' = [session EXCEPT ![p] = SetRemote(@, q)],
         UNCHANGED <<count, transport, backlog, asked>>
  PROVE  GameInv'
<1>0. PICK s, f, n : s = session[p] /\ f = slots[p] /\ n = count[p]
  OBVIOUS
<1>1. /\ t # 0 /\ conns[t].toRead[End(t, p)] # <<>> /\ s.role # "CLIENT"
      /\ 1 \in 0 .. 2 /\ Packet(p) = ByDialer(Dialer(t))[1 + 1]
      /\ q = Dialer(t) /\ s.helloReceived /\ ~s.startDone /\ s.helloSent
      /\ HasRead(s, 1 + 1) /\ s \in SessionType
  BY <1>0, OfferHeard, GameParts
<1>2. /\ t \in ConnId /\ Acceptor(t) = p /\ End(t, p) = "acceptor"
      /\ conns[t].state["acceptor"] = "open"
      /\ Server(s, f, n, asked[p], q)
  BY <1>0, <1>1, ServerOf
<1>3. s.remote = q
  BY <1>1, <1>2 DEF Server
<1>4. session' = session
  BY <1>0, <1>3, GameParts DEF SetRemote, Types
<1>5. /\ i \in 1 .. n /\ i \in 1 .. MaxSlots /\ f[i].peer = q /\ f[i] \in Slot /\ f \in Slots
      /\ SlotInv(p, f[i], t, s, conns)
  BY <1>0, SlotFound, OwnSlot, GameParts
<1>6. /\ slots'[p][i] = WithState(f[i], "INCOMING_PENDING")
      /\ \A j \in 1 .. MaxSlots : j # i => slots'[p][j] = f[j]
      /\ \A r \in Program : r # p => slots'[r] = slots[r]
  <2>1. slots'[p] = [f EXCEPT ![i] = WithState(f[i], "INCOMING_PENDING")]
        /\ \A r \in Program : r # p => slots'[r] = slots[r]
    BY <1>0, GameParts DEF Types
  <2> QED
    BY <1>5, <2>1, ZenonT(40) DEF Slots
<1>7. PICK g : g = slots'[p][i]
  OBVIOUS
<1>8. /\ g.peer = q /\ g.state = "INCOMING_PENDING" /\ g.fd = f[i].fd /\ g.hello = f[i].hello
      /\ g.connecting = f[i].connecting /\ g.offerSent = f[i].offerSent
  BY <1>5, <1>6, <1>7, WithStateType DEF ChallengeState
<1>9. OwnStep(p) /\ transport'[p] = t
  BY <1>4, <1>6 DEF OwnStep
<1>10. SameAnswers(s, s)
  BY DEF SameAnswers
<1>11. /\ ConnInv(t)' /\ Respects(p, conns[t], conns'[t])
       /\ conns'[t].ends = conns[t].ends /\ conns'[t].state = conns[t].state
       /\ \A c \in ConnId : c # t => conns'[c] = conns[c]
  BY <1>0, <1>1, <1>4, <1>9, <1>10, ServerTakes
<1>12. \A j \in 1 .. n : j \in 1 .. MaxSlots
  BY <1>0, GameParts, ProgramsAssumption
<1>13. SameChallenges(p)
  <2>1. \A j \in 1 .. n : /\ slots'[p][j].fd = f[j].fd /\ slots'[p][j].hello = f[j].hello
                           /\ slots'[p][j].offerSent = f[j].offerSent
    BY <1>6, <1>7, <1>8, <1>12
  <2>2. count'[p] = n
    BY <1>0
  <2> QED
    BY <1>0, <2>1, <2>2 DEF SameChallenges
<1>14. SlotInv(p, g, t, s, conns')
  <2>1. CASE g.fd = 0
    BY <1>8, <2>1 DEF SlotInv
  <2>2. CASE g.fd # 0
    <3>1. conns'[g.fd] = conns[g.fd]
      BY <1>0, <1>5, <1>8, <1>11, <2>2, SlotEnds
    <3>2. conns[t].state["dialer"] = "closed"
      <4>1. CASE f[i].state = "OUTGOING_PENDING"
        <5>1. Hung(t, End(t, p))
          BY <1>0, <4>1 DEF Crossing
        <5> QED
          BY <1>2, <5>1, Sides DEF Hung
      <4>2. CASE f[i].state # "OUTGOING_PENDING"
        BY <1>5, <1>8, <2>2, <4>2 DEF SlotInv
      <4> QED
        BY <4>1, <4>2
    <3>3. /\ conns[g.fd].ends["dialer"] = p /\ conns[g.fd].ends["acceptor"] = g.peer
          /\ conns[g.fd].state["dialer"] = "open"
          /\ g.connecting <=> conns[g.fd].state["acceptor"] = "free"
          /\ g.connecting => g.hello = "no"
          /\ g.offerSent => g.hello = "completed"
          /\ ~s.challengeDone /\ ~Settled(s)
      BY <1>5, <1>8, <2>2, ZenonT(40) DEF SlotInv
    <3>4. t # 0 /\ conns'[t].ends["acceptor"] = p /\ conns'[t].state["dialer"] = "closed"
      BY <1>1, <1>2, <1>11, <3>2 DEF Acceptor
    <3> QED
      BY <1>8, <3>1, <3>3, <3>4 DEF SlotInv
  <2> QED
    BY <2>1, <2>2
<1>15. ASSUME NEW j \in 1 .. MaxSlots, j # i PROVE SlotInv(p, f[j], t, s, conns')
  <2>1. SlotInv(p, f[j], t, s, conns)
    BY <1>0, GameParts DEF ProgInv
  <2>2. f[j].fd # 0 => conns'[f[j].fd] = conns[f[j].fd]
    BY <1>0, <1>11, SlotEnds
  <2> QED
    BY <1>11, <2>1, <2>2 DEF SlotInv
<1>16. Server(s, slots'[p], n, asked[p], q)
  <2>1. \A j \in 1 .. n : slots'[p][j].state = "INCOMING_PENDING" => slots'[p][j].peer = q
    BY <1>2, <1>6, <1>7, <1>8, <1>12 DEF Server
  <2>2. ~s.challengeDone
    BY <1>0
  <2> QED
    BY <1>1, <1>2, <2>1, <2>2, ZenonT(40) DEF Server
<1>17. ProgInv(p)'
  <2>1. SessionInv(p, s, t, slots'[p], n, asked[p], conns')
    BY <1>1, <1>2, <1>11, <1>16, ZenonT(40) DEF SessionInv, Dialer, Acceptor
  <2>2. \A j \in 1 .. MaxSlots : SlotInv(p, slots'[p][j], t, s, conns')
    BY <1>6, <1>7, <1>14, <1>15
  <2> QED
    BY <1>0, <1>4, <1>9, <2>1, <2>2 DEF ProgInv
<1> QED
  BY <1>9, <1>11, <1>13, <1>17, ExchangeGame

\* The session s of a server becomes u when it accepts the challenge of q, the
\* peer it has.
AcceptedAs(s, q, u) ==
  /\ u.challengeDone /\ u.role = "SERVER" /\ u.phase = "GAME_STARTING" /\ u.remote = q
  /\ u.hello = s.hello /\ u.helloSent = s.helloSent /\ u.helloReceived = s.helloReceived
  /\ u.startSent = s.startSent /\ u.startDone = s.startDone

LEMMA AcceptingFields ==
  ASSUME NEW s \in SessionType, NEW q, s.remote = q
  PROVE  AcceptedAs(s, q, Accepting(s, q))
<1>0. PICK u : u = Accepting(s, q)
  OBVIOUS
<1>1. PICK v : v = [s EXCEPT !.challengeDone = TRUE, !.role = "SERVER"]
  OBVIOUS
<1>2. /\ v.remote = q /\ u = [v EXCEPT !.phase = "GAME_STARTING"]
  BY <1>0, <1>1 DEF Accepting, SetRemote, SessionType
<1>3. u = [s EXCEPT !.challengeDone = TRUE, !.role = "SERVER", !.phase = "GAME_STARTING"]
  BY <1>1, <1>2
<1> QED
  BY <1>0, <1>3 DEF SessionType, AcceptedAs

\* What the lobby f of p becomes when the challenge of q, in slot i, is settled.
SettledSlots(f, g, n, i, q) ==
  /\ i \in 1 .. n /\ g[i].peer = q /\ g[i].state = "MATCHED"
  /\ \A j \in 1 .. MaxSlots :
       /\ g[j].fd = 0
       /\ g[j].state = "INCOMING_PENDING" =>
            f[j].state = "INCOMING_PENDING" /\ g[j].peer = f[j].peer
       /\ g[j].state = "CONNECT_FAILED" => g[j].hello = "no" /\ ~g[j].offerSent

\* A server accepts the challenge: its game connection is that in cs, the ACCEPT
\* written, and its challenges are closed.
LEMMA AnsweredGame ==
  ASSUME GameInv, AskedInv', NEW p \in Program, NEW t, t = transport[p], t # 0,
         session[p].role # "CLIENT", OwnStep(p),
         count'[p] = count[p], transport'[p] = t, backlog' = backlog,
         NEW q, q = Dialer(t), session[p].helloSent, ~session[p].startSent,
         ~session[p].startDone,
         NEW u, u = session'[p], AcceptedAs(session[p], q, u),
         NEW i, SettledSlots(slots[p], slots'[p], count[p], i, q), q \in asked'[p],
         NEW cs \in Conns, \A c \in ConnId : c # t => cs[c] = conns[c],
         conns' = AllClosed(cs, Fds(p)),
         cs[t].ends = conns[t].ends, cs[t].state = conns[t].state,
         Joined(cs[t], HasReadBy(q, t), HasWritten(q, t), u), Respects(p, conns[t], cs[t])
  PROVE  GameInv'
<1>1. /\ t \in ConnId /\ Acceptor(t) = p /\ conns[t].state["acceptor"] = "open"
      /\ Server(session[p], slots[p], count[p], asked[p], q)
  BY ServerOf
<1>2. /\ \A c \in ConnId : c # t /\ (\A j \in 1 .. MaxSlots : slots[p][j].fd # c)
           => conns'[c] = conns[c]
      /\ \A j \in 1 .. MaxSlots : slots[p][j].fd \notin {0, t} =>
           Shut(conns[slots[p][j].fd], conns'[slots[p][j].fd], "dialer")
      /\ conns'[t] = cs[t]
  <2>1. Fds(p) \ {t} = Fds(p)
    <3>1. \A j \in 1 .. count[p] : j \in 1 .. MaxSlots
      BY GameParts, ProgramsAssumption
    <3>2. t \notin Fds(p)
      BY <3>1, SlotEnds DEF Fds
    <3> QED
      BY <3>2
  <2>2. /\ \A c \in ConnId : c \notin {t, t} => cs[c] = conns[c]
        /\ conns' = AllClosed(cs, Fds(p) \ {t})
    BY <2>1
  <2>3. ClosesFds(p, t, t, cs)
    BY <2>2 DEF ClosesFds
  <2>4. FdsShut(p, t, t, cs)
    BY <2>3, FdsClosed
  <2> QED
    BY <1>1, <2>4 DEF FdsShut
<1>3. GivesUp(p, t)
  BY <1>2 DEF GivesUp, Untouched, SettledSlots
<1>4. ConnInv(t)'
  BY <1>2, ServerConn
<1>5. Respects(p, conns[t], conns'[t])
  BY <1>2
<1>6. Matched(slots'[p], count'[p], asked'[p], q)
  BY DEF SettledSlots, Matched
<1>7. Server(u, slots'[p], count'[p], asked'[p], q)
  <2>1. \A j \in 1 .. count'[p] : slots'[p][j].state = "INCOMING_PENDING" => slots'[p][j].peer = q
    <3>1. \A j \in 1 .. count[p] : j \in 1 .. MaxSlots
      BY GameParts, ProgramsAssumption
    <3> QED
      BY <1>1, <3>1 DEF SettledSlots, Server
  <2>2. u.hello = u.helloSent
    BY <1>1 DEF Server, AcceptedAs
  <2> QED
    BY <1>1, <1>6, <2>1, <2>2 DEF Server, AcceptedAs
<1>8. SessionInv(p, session'[p], t, slots'[p], count'[p], asked'[p], conns')
  BY <1>1, <1>2, <1>7, ZenonT(40) DEF SessionInv, Dialer, Acceptor
<1>9. \A j \in 1 .. MaxSlots :
        slots'[p][j].state = "CONNECT_FAILED" =>
          slots'[p][j].hello = "no" /\ ~slots'[p][j].offerSent
  BY DEF SettledSlots
<1> QED
  BY <1>3, <1>4, <1>5, <1>8, <1>9, GivenUpGame DEF AcceptedAs

\* The ACCEPT of the program at the acceptor's end of k.
LEMMA AcceptSent ==
  ASSUME NEW s \in SessionType, s.helloSent, ~s.challengeDone, ~s.startSent,
         NEW p \in Program, NEW m, m = [type |-> "ACCEPT", from |-> p],
         NEW q, NEW u, AcceptedAs(s, q, u)
  PROVE  m \in Message /\ Answers(p, s, u, m)
<1>1. m \in Message /\ m = ByAcceptor(p)[2]
  BY Packets DEF Message
<1>2. AnswersOf(s) = 1 /\ AnswersOf(u) = 2
  BY DEF AnswersOf, AcceptedAs
<1>3. ASSUME NEW w \in 0 .. 3, HasAnswered(s, w)
      PROVE  m = ByAcceptor(p)[OneMore(w)] /\ HasAnswered(u, OneMore(w))
  <2>1. w = 1 /\ OneMore(w) = 2
    BY <1>2, <1>3 DEF HasAnswered, OneMore
  <2> QED
    BY <1>1, <1>2, <2>1 DEF HasAnswered
<1> QED
  BY <1>1, <1>3 DEF Answers, AcceptedAs

\* The slots of p, when it answers the challenge in slot i.
LEMMA ShutSlots ==
  ASSUME GameInv, NEW p \in Program, NEW i \in 1 .. count[p], NEW j \in 1 .. MaxSlots,
         NEW s, s = slots[p][j], NEW g,
         \/ g = Disconnected(s) /\ j \in 1 .. count[p]
         \/ g = WithState(Disconnected(s), "NONE") /\ j \in 1 .. count[p]
         \/ g = s /\ j > count[p]
  PROVE  /\ g.fd = 0
         /\ g.state = "INCOMING_PENDING" => s.state = "INCOMING_PENDING" /\ g.peer = s.peer
         /\ g.state = "CONNECT_FAILED" => g.hello = "no" /\ ~g.offerSent
<1>1. s \in Slot /\ (j > count[p] => s.state = "NONE" /\ s.fd = 0)
  BY GameParts, QuietSlot DEF SlotQuiet
<1>2. SlotInv(p, s, transport[p], session[p], conns)
  BY GameParts DEF ProgInv
<1>3. s.state = "CONNECT_FAILED" => ~s.offerSent
  BY <1>2 DEF SlotInv
<1>4. CASE g = Disconnected(s)
  BY <1>1, <1>3, <1>4, DisconnectedType
<1>5. CASE g = WithState(Disconnected(s), "NONE")
  <2>1. Disconnected(s) \in Slot /\ Disconnected(s).fd = 0
    BY <1>1, DisconnectedType
  <2> QED
    BY <1>5, <2>1, WithStateType DEF ChallengeState
<1>6. CASE g = s /\ j > count[p]
  BY <1>1, <1>6
<1> QED
  BY <1>4, <1>5, <1>6

LEMMA ClickAcceptGame ==
  ASSUME strayed' = {}, GameInv, AskedInv', NEW p \in Program, NEW i \in 1 .. MaxSlots,
         ClickAccept(p, i)
  PROVE  GameInv'
<1>0. PICK t, s, u, q, m, f :
        /\ t = transport[p] /\ s = session[p] /\ u = session'[p] /\ q = slots[p][i].peer
        /\ m = [type |-> "ACCEPT", from |-> p] /\ f = AllDisconnected(p)
  OBVIOUS
<1>1. /\ i \in 1 .. count[p] /\ slots[p][i].state = "INCOMING_PENDING" /\ t # 0
      /\ s.phase \notin {"GAME_STARTING", "IN_GAME", "DISCONNECTED"} /\ s \in SessionType
      /\ conns' = AllClosed(Written(conns, t, End(t, p), m), Fds(p))
      /\ count' = count /\ transport' = transport /\ backlog' = backlog
  BY <1>0, GameParts DEF ClickAccept, Listed, InGame, Strays
<1>2. /\ u = Accepting(s, q) /\ asked'[p] = asked[p] \cup {q}
      /\ slots'[p] = [f EXCEPT ![i].state = "MATCHED"]
      /\ \A r \in Program : r # p =>
           slots'[r] = slots[r] /\ session'[r] = session[r] /\ asked'[r] = asked[r]
  BY <1>0, GameParts DEF ClickAccept, Types
<1>3. OwnStep(p) /\ transport'[p] = t
  BY <1>0, <1>1, <1>2 DEF OwnStep
<1>4. s.role # "CLIENT"
  <2>1. SUFFICES ASSUME s.role = "CLIENT" PROVE FALSE
    OBVIOUS
  <2>2. Client(s, slots[p], count[p], asked[p], Acceptor(t))
    BY <1>0, <1>1, <2>1, ClientOf
  <2> QED
    BY <1>1, <2>2 DEF Client
<1>5. /\ t \in ConnId /\ conns[t] \in Connection /\ End(t, p) = "acceptor"
      /\ conns[t].ends["acceptor"] = p /\ conns[t].state["acceptor"] = "open"
      /\ Server(s, slots[p], count[p], asked[p], Dialer(t))
      /\ Joined(conns[t], HasReadBy(Dialer(t), t), HasWritten(Dialer(t), t), s)
  BY <1>0, <1>1, <1>4, ServerOf DEF Acceptor
<1>6. q = Dialer(t) /\ s.helloSent
  BY <1>0, <1>1, <1>5 DEF Server
<1>7. ~s.challengeDone /\ ~s.startSent /\ ~s.startDone /\ s.helloReceived /\ s.remote = q
  BY <1>1, <1>5, <1>6 DEF Server
<1>8. AcceptedAs(s, q, u)
  BY <1>1, <1>2, <1>7, AcceptingFields
<1>9. m \in Message /\ Answers(p, s, u, m)
  BY <1>0, <1>1, <1>6, <1>7, <1>8, AcceptSent
<1>10. PICK cs : cs = Written(conns, t, "acceptor", m)
  OBVIOUS
<1>11. /\ cs \in Conns /\ Sent(conns[t], cs[t], "acceptor", m)
       /\ \A c \in ConnId : c # t => cs[c] = conns[c]
       /\ conns' = AllClosed(cs, Fds(p))
  BY <1>1, <1>5, <1>9, <1>10, GameParts, WrittenType, WrittenEffect, Sides
<1>12. /\ cs[t].ends = conns[t].ends /\ cs[t].state = conns[t].state
       /\ Respects(p, conns[t], cs[t])
  BY <1>11, RespectsSent, Sides, ZenonT(40) DEF Sent
<1>13. Joined(cs[t], HasReadBy(q, t), HasWritten(q, t), u)
  BY <1>5, <1>6, <1>9, <1>11, AcceptorSends
<1>14. SettledSlots(slots[p], slots'[p], count[p], i, q)
  <2>1. /\ f \in Slots /\ \A j \in 1 .. count[p] : f[j] = Disconnected(slots[p][j])
        /\ \A j \in 1 .. MaxSlots : j > count[p] => f[j] = slots[p][j]
    BY <1>0, GameParts, AllDisconnectedLobby
  <2>2. slots'[p] = Marked(f, i)
    BY <1>2 DEF Marked
  <2>3. /\ slots'[p][i].state = "MATCHED" /\ slots'[p][i].peer = f[i].peer
        /\ slots'[p][i].fd = f[i].fd
        /\ \A j \in 1 .. MaxSlots : j # i => slots'[p][j] = f[j]
    BY <2>1, <2>2, SlotMatched
  <2>4. f[i].peer = q /\ f[i].fd = 0
    BY <1>0, <1>1, <2>1, OwnSlot, DisconnectedType
  <2>5. ASSUME NEW j \in 1 .. MaxSlots
        PROVE  /\ f[j].fd = 0
               /\ f[j].state = "INCOMING_PENDING" =>
                    slots[p][j].state = "INCOMING_PENDING" /\ f[j].peer = slots[p][j].peer
               /\ f[j].state = "CONNECT_FAILED" => f[j].hello = "no" /\ ~f[j].offerSent
    <3>1. \/ f[j] = Disconnected(slots[p][j]) /\ j \in 1 .. count[p]
          \/ f[j] = slots[p][j] /\ j > count[p]
      BY <2>1, GameParts, ProgramsAssumption
    <3> QED
      BY <1>1, <3>1, ShutSlots
  <2> QED
    BY <1>1, <2>3, <2>4, <2>5 DEF SettledSlots
<1>15. q \in asked'[p]
  BY <1>2
<1> QED
  BY <1>0, <1>1, <1>3, <1>4, <1>6, <1>7, <1>8, <1>11, <1>12, <1>13, <1>14, <1>15, AnsweredGame

\* An OFFER that crosses one of p's own.
LEMMA OfferAnswered ==
  ASSUME GameInv, AskedInv', NEW p \in Program, Incoming(p, {"OFFER"}),
         NEW q, q = Packet(p).from, NEW i, i = SlotOf(p, q), Crossing(p, q),
         ~session[p].challengeDone,
         conns' = AllClosed(Answered(p, "ACCEPT"), Fds(p)),
         slots' = [slots EXCEPT ![p] =
           [OthersWithdrawn(AllDisconnected(p), count[p], i) EXCEPT ![i].state = "MATCHED"]],
         session' = [session EXCEPT ![p] = Accepting([@ EXCEPT !.hello = TRUE], q)],
         UNCHANGED <<count, transport, backlog, asked>>
  PROVE  GameInv'
<1>0. PICK t, s, v, u, m :
        /\ t = transport[p] /\ s = session[p] /\ u = session'[p]
        /\ v = [s EXCEPT !.hello = TRUE] /\ m = [type |-> "ACCEPT", from |-> p]
  OBVIOUS
<1>1. /\ t # 0 /\ conns[t].toRead[End(t, p)] # <<>> /\ s.role # "CLIENT"
      /\ q = Dialer(t) /\ s.helloReceived /\ ~s.startDone /\ s.helloSent
      /\ s \in SessionType /\ HasRead(s, 1 + 1)
      /\ Packet(p) = ByDialer(Dialer(t))[1 + 1]
  BY <1>0, OfferHeard, GameParts
<1>2. /\ u = Accepting(v, q) /\ slots'[p] = AnsweredSlots(p, i)
      /\ \A r \in Program : r # p => slots'[r] = slots[r] /\ session'[r] = session[r]
  BY <1>0, GameParts DEF Types, AnsweredSlots, Marked
<1>3. OwnStep(p) /\ transport'[p] = t
  BY <1>0, <1>2 DEF OwnStep
<1>4. /\ t \in ConnId /\ conns[t] \in Connection /\ End(t, p) = "acceptor"
      /\ conns[t].ends["acceptor"] = p /\ conns[t].state["acceptor"] = "open"
      /\ Server(s, slots[p], count[p], asked[p], q)
      /\ Joined(conns[t], HasReadBy(q, t), HasWritten(q, t), s)
  BY <1>0, <1>1, ServerOf DEF Acceptor
<1>5. ~s.challengeDone /\ ~s.startSent /\ s.remote = q /\ s.hello = s.helloSent
  BY <1>0, <1>1, <1>4 DEF Server
<1>6. v = s
  BY <1>0, <1>1, <1>5 DEF SessionType
<1>7. AcceptedAs(s, q, u)
  BY <1>1, <1>2, <1>5, <1>6, AcceptingFields
<1>8. m \in Message /\ Answers(p, s, u, m)
  BY <1>0, <1>1, <1>5, <1>7, AcceptSent
<1>9. PICK bs, cs : bs = Consumed(p) /\ cs = Answered(p, "ACCEPT")
  OBVIOUS
<1>10. /\ bs \in Conns /\ Taken(conns[t], bs[t], "acceptor")
       /\ \A c \in ConnId : c # t => bs[c] = conns[c]
  BY <1>0, <1>1, <1>4, <1>9, GameParts, ReadType, ReadEffect, Sides DEF Consumed
<1>11. cs = Written(bs, t, "acceptor", m)
  BY <1>0, <1>4, <1>9 DEF Answered
<1>12. /\ cs \in Conns /\ Sent(bs[t], cs[t], "acceptor", m)
       /\ \A c \in ConnId : c # t => cs[c] = bs[c]
  BY <1>4, <1>8, <1>10, <1>11, WrittenType, WrittenEffect, Sides
<1>13. /\ bs[t].ends = conns[t].ends /\ bs[t].state = conns[t].state
       /\ Joined(bs[t], HasReadBy(q, t), HasWritten(q, t), s)
  <2>1. SameAnswers(s, s) /\ conns[t].toRead["acceptor"] # <<>>
    BY <1>1, <1>4 DEF SameAnswers
  <2>2. PICK r \in 0 .. 2 :
          Hears(conns[t], bs[t], HasReadBy(q, t), HasWritten(q, t), s, s, r)
    BY <1>4, <1>10, <2>1, AcceptorReads
  <2>3. r = 1
    <3>1. ByDialer(Dialer(t))[r + 1] = Packet(p)
      BY <1>0, <1>4, <2>2, ZenonT(40) DEF Hears, Packet, Dialer
    <3>2. ByDialer(Dialer(t))[r + 1].type = "OFFER"
      BY <3>1, OfferHeard, <1>0
    <3> QED
      BY <3>2, PacketTypes
  <2> QED
    BY <1>1, <2>2, <2>3 DEF Hears
<1>14. /\ cs[t].ends = conns[t].ends /\ cs[t].state = conns[t].state
       /\ Respects(p, conns[t], cs[t])
  <2>1. Respects(p, conns[t], bs[t]) /\ Respects(p, bs[t], cs[t])
    BY <1>10, <1>12, RespectsTaken, RespectsSent, Sides
  <2> QED
    BY <1>12, <1>13, <2>1, RespectsTwice DEF Sent
<1>15. Joined(cs[t], HasReadBy(q, t), HasWritten(q, t), u)
  <2>1. bs[t] \in Connection /\ bs[t].state["acceptor"] = "open" /\ bs[t].ends["acceptor"] = p
    BY <1>4, <1>10, <1>13 DEF Conns
  <2> QED
    BY <1>8, <1>12, <1>13, <2>1, AcceptorSends
<1>16. /\ i \in 1 .. count[p] /\ slots[p][i].peer = q /\ slots[p][i].state = "OUTGOING_PENDING"
  BY SlotFound DEF Crossing
<1>17. q \in asked'[p]
  BY <1>16, GameParts, ListedSlot DEF SlotQuiet
<1>18. SettledSlots(slots[p], slots'[p], count[p], i, q)
  <2>1. PICK f : f = slots'[p]
    OBVIOUS
  <2>2. /\ f[i].state = "MATCHED" /\ f[i].peer = slots[p][i].peer /\ f[i].fd = 0
        /\ \A j \in 1 .. count[p] : j # i =>
             f[j] = IF slots[p][j].state = "OUTGOING_PENDING"
                    THEN WithState(Disconnected(slots[p][j]), "NONE")
                    ELSE Disconnected(slots[p][j])
        /\ \A j \in 1 .. MaxSlots : j > count[p] => f[j] = slots[p][j]
    BY <1>2, <1>16, <2>1, GameParts, OthersClosedSlots
  <2>3. ASSUME NEW j \in 1 .. MaxSlots, j # i
        PROVE  /\ f[j].fd = 0
               /\ f[j].state = "INCOMING_PENDING" =>
                    slots[p][j].state = "INCOMING_PENDING" /\ f[j].peer = slots[p][j].peer
               /\ f[j].state = "CONNECT_FAILED" => f[j].hello = "no" /\ ~f[j].offerSent
    <3>1. \/ f[j] = Disconnected(slots[p][j]) /\ j \in 1 .. count[p]
          \/ f[j] = WithState(Disconnected(slots[p][j]), "NONE") /\ j \in 1 .. count[p]
          \/ f[j] = slots[p][j] /\ j > count[p]
      BY <2>2, <2>3, GameParts, ProgramsAssumption
    <3> QED
      BY <1>16, <3>1, ShutSlots
  <2>4. ASSUME NEW j \in 1 .. MaxSlots
        PROVE  /\ f[j].fd = 0
               /\ f[j].state = "INCOMING_PENDING" =>
                    slots[p][j].state = "INCOMING_PENDING" /\ f[j].peer = slots[p][j].peer
               /\ f[j].state = "CONNECT_FAILED" => f[j].hello = "no" /\ ~f[j].offerSent
    <3>1. CASE j = i
      BY <2>2, <3>1
    <3> QED
      BY <2>3, <3>1
  <2>5. i \in 1 .. count[p] /\ f[i].peer = q /\ f[i].state = "MATCHED"
    BY <1>16, <2>2
  <2> QED
    BY <2>1, <2>4, <2>5, ZenonT(40) DEF SettledSlots
<1>19. /\ count'[p] = count[p] /\ backlog' = backlog /\ conns' = AllClosed(cs, Fds(p))
       /\ \A c \in ConnId : c # t => cs[c] = conns[c]
  BY <1>9, <1>10, <1>12
<1>20. AcceptedAs(session[p], q, u) /\ u = session'[p]
  BY <1>0, <1>7
<1>21. t = transport[p] /\ session[p].role # "CLIENT" /\ session[p].helloSent
       /\ ~session[p].startSent /\ ~session[p].startDone
  BY <1>0, <1>1, <1>5
<1> QED
  BY <1>1, <1>3, <1>12, <1>14, <1>15, <1>17, <1>18, <1>19, <1>20, <1>21, AnsweredGame

LEMMA HandleOfferGame ==
  ASSUME GameInv, AskedInv', NEW p \in Program, HandleOffer(p)
  PROVE  GameInv'
<1>0. PICK t, q, i : t = transport[p] /\ q = Packet(p).from /\ i = SlotOf(p, q)
  OBVIOUS
<1>1. Incoming(p, {"OFFER"}) /\ UNCHANGED <<count, transport, backlog, asked>>
  BY DEF HandleOffer
<1>2. CASE conns' = Consumed(p) /\ UNCHANGED <<slots, session>>
  BY <1>1, <1>2, OfferKept DEF lobby
<1>3. CASE /\ q \in Known(p) /\ ~session[p].challengeDone /\ Crossing(p, q)
           /\ conns' = AllClosed(Answered(p, "ACCEPT"), Fds(p))
           /\ slots' = [slots EXCEPT ![p] =
                [OthersWithdrawn(AllDisconnected(p), count[p], i) EXCEPT ![i].state = "MATCHED"]]
           /\ session' = [session EXCEPT ![p] = Accepting([@ EXCEPT !.hello = TRUE], q)]
  BY <1>0, <1>1, <1>3, OfferAnswered
<1>4. CASE /\ q \in Known(p) /\ ~session[p].challengeDone
           /\ ~Crossing(p, q) \/ Hung(t, End(t, p))
           /\ conns' = Consumed(p)
           /\ slots' = [slots EXCEPT ![p][i] = WithState(@, "INCOMING_PENDING")]
           /\ session' = [session EXCEPT ![p] = SetRemote(@, q)]
  BY <1>0, <1>1, <1>4, OfferShown
<1>5. CASE /\ conns' = Consumed(p) /\ session' = [session EXCEPT ![p].offer = q]
           /\ UNCHANGED slots
  BY <1>1, <1>5, OfferKept DEF lobby
<1> QED
  BY <1>0, <1>2, <1>3, <1>4, <1>5 DEF HandleOffer

\* The session of a program whose challenge q has accepted.
LEMMA PromotedFields ==
  ASSUME NEW s \in SessionType, NEW q \in Program, NEW u, u = Promoted(s, q)
  PROVE  /\ u.role = "CLIENT" /\ u.remote = q /\ u.phase = "GAME_STARTING"
         /\ u.startSent = s.startSent /\ u.startDone = s.startDone
<1>1. PICK v : v = [s EXCEPT !.challengeDone = TRUE, !.role = "CLIENT", !.helloSent = TRUE,
                             !.helloReceived = TRUE, !.hello = TRUE]
  OBVIOUS
<1>2. v \in SessionType /\ v.role = "CLIENT" /\ v.startSent = s.startSent
      /\ v.startDone = s.startDone
  BY <1>1 DEF SessionType
<1>3. PICK w : w = SetRemote(v, q)
  OBVIOUS
<1>4. w \in SessionType
  BY <1>2, <1>3, SetRemoteType
<1>5. /\ w.role = "CLIENT" /\ w.remote = q /\ w.startSent = s.startSent
      /\ w.startDone = s.startDone
  <2>1. CASE v.remote = q
    BY <1>2, <1>3, <2>1 DEF SetRemote
  <2>2. CASE v.remote # q
    <3>1. w = [v EXCEPT !.remote = q, !.hello = FALSE, !.challengeDone = FALSE,
                        !.phase = "TCP_CONNECTING"]
      BY <1>3, <2>2 DEF SetRemote
    <3> QED
      BY <1>2, <3>1 DEF SessionType
  <2> QED
    BY <2>1, <2>2
<1>6. u = [w EXCEPT !.phase = "GAME_STARTING"]
  BY <1>1, <1>3 DEF Promoted
<1> QED
  BY <1>4, <1>5, <1>6 DEF SessionType

\* A program that still looks after its challenges has not started a game.
LEMMA NotStarted ==
  ASSUME GameInv, NEW p \in Program, ~session[p].challengeDone, ~Settled(session[p]),
         NEW t, t = transport[p]
  PROVE  /\ ~session[p].startSent /\ ~session[p].startDone
         /\ t # 0 => session[p].role # "CLIENT"
<1>1. SessionInv(p, session[p], t, slots[p], count[p], asked[p], conns)
  BY GameParts DEF ProgInv
<1>2. CASE t = 0 /\ Alone(session[p], slots[p], count[p])
  BY <1>2 DEF Alone, Settled
<1>3. CASE \E q : Client(session[p], slots[p], count[p], asked[p], q)
  BY <1>3 DEF Client, Settled
<1>4. CASE t # 0 /\ \E q : Server(session[p], slots[p], count[p], asked[p], q)
  BY <1>4 DEF Server
<1> QED
  BY <1>1, <1>2, <1>3, <1>4 DEF SessionInv

LEMMA HearAcceptGame ==
  ASSUME GameInv, AskedInv', NEW p \in Program, NEW i \in 1 .. MaxSlots, HearAccept(p, i)
  PROVE  GameInv'
<1>0. PICK c, t, s, u, q, rs, cs :
        /\ c = slots[p][i].fd /\ t = transport[p] /\ s = session[p] /\ u = session'[p]
        /\ q = slots[p][i].peer /\ rs = Read(conns, c, "dialer")
        /\ cs = IF t = 0 THEN rs ELSE Closed(rs, t, End(t, p))
  OBVIOUS
<1>1. /\ i \in 1 .. count[p] /\ slots[p][i].state = "OUTGOING_PENDING" /\ c # 0
      /\ ~s.challengeDone /\ ~Settled(s) /\ slots[p][i].hello = "completed"
      /\ slots[p][i].offerSent /\ conns[c].toRead["dialer"] # <<>> /\ s \in SessionType
  BY <1>0, AdvancingSlot, GameParts, ZenonT(40) DEF HearAccept, Connected
<1>2. /\ conns' = AllClosed(cs, Fds(p) \ {c}) /\ u = Promoted(s, q) /\ transport'[p] = c
      /\ slots'[p] = OthersClosed(p, i) /\ count' = count /\ backlog' = backlog
      /\ asked' = asked
      /\ \A r \in Program : r # p =>
           slots'[r] = slots[r] /\ session'[r] = session[r] /\ transport'[r] = transport[r]
  BY <1>0, GameParts, ZenonT(40) DEF HearAccept, Types
<1>3. /\ c \in ConnId /\ conns[c] \in Connection /\ Dialer(c) = p /\ Acceptor(c) = q
      /\ q \in Program /\ q # p /\ conns[c].state["dialer"] = "open" /\ t # c
      /\ Joined(conns[c], 1, 2, session[q])
      /\ conns[c].state["acceptor"] = "open" => transport[q] = c
  <2>1. SlotRead(slots[p][i]) = 1 /\ SlotWritten(slots[p][i]) = 2
    BY <1>1 DEF SlotRead, SlotWritten
  <2> QED
    BY <1>0, <1>1, <2>1, SlotEnds
<1>4. ~s.startSent /\ ~s.startDone
  BY <1>0, <1>1, NotStarted
<1>5. /\ u.role = "CLIENT" /\ u.remote = q /\ u.phase = "GAME_STARTING" /\ ~u.startSent
      /\ ~u.startDone
  BY <1>1, <1>2, <1>3, <1>4, PromotedFields
<1>6. OwnStep(p)
  BY <1>2 DEF OwnStep
<1>7. /\ rs \in Conns /\ Taken(conns[c], rs[c], "dialer")
      /\ \A d \in ConnId : d # c => rs[d] = conns[d]
  BY <1>0, <1>1, <1>3, GameParts, ReadType, ReadEffect, Sides
<1>8. /\ cs \in Conns /\ cs[c] = rs[c]
      /\ t # 0 => t \in ConnId /\ Shut(conns[t], cs[t], End(t, p))
      /\ \A d \in ConnId : d \notin {t, c} => cs[d] = conns[d]
  <2>1. CASE t = 0
    BY <1>0, <1>7, <2>1
  <2>2. CASE t # 0
    <3>1. t \in 0 .. MaxConns /\ t \in ConnId /\ End(t, p) \in Side
      BY <1>0, <2>2, GameParts, TransportKnown
    <3>2. /\ cs \in Conns /\ Shut(rs[t], cs[t], End(t, p))
          /\ \A d \in ConnId : d # t => cs[d] = rs[d]
      BY <1>0, <1>7, <2>2, <3>1, ClosedType, ClosedEffect
    <3> QED
      BY <1>3, <1>7, <3>1, <3>2
  <2> QED
    BY <2>1, <2>2
<1>9. FdsShut(p, t, c, cs)
  <2>1. ClosesFds(p, t, c, cs)
    BY <1>2, <1>8 DEF ClosesFds
  <2> QED
    BY <1>0, <1>8, <2>1, FdsClosed
<1>10. conns'[c] = cs[c] /\ (t # 0 => conns'[t] = cs[t])
  BY <1>3, <1>8, <1>9 DEF FdsShut
<1>11. PICK f : f = slots'[p]
  OBVIOUS
<1>12. /\ f[i].state = "MATCHED" /\ f[i].peer = q /\ f[i].fd = 0
       /\ \A j \in 1 .. count[p] : j # i =>
            f[j] = IF slots[p][j].state = "OUTGOING_PENDING"
                   THEN WithState(Disconnected(slots[p][j]), "NONE")
                   ELSE Disconnected(slots[p][j])
       /\ \A j \in 1 .. MaxSlots : j > count[p] => f[j] = slots[p][j]
  BY <1>0, <1>1, <1>2, <1>11, GameParts, OthersClosedSlots
<1>13. ASSUME NEW j \in 1 .. MaxSlots, j # i
       PROVE  f[j].fd = 0 /\ (f[j].state = "CONNECT_FAILED" => f[j].hello = "no" /\ ~f[j].offerSent)
  <2>1. \/ f[j] = Disconnected(slots[p][j]) /\ j \in 1 .. count[p]
        \/ f[j] = WithState(Disconnected(slots[p][j]), "NONE") /\ j \in 1 .. count[p]
        \/ f[j] = slots[p][j] /\ j > count[p]
    BY <1>12, <1>13, GameParts, ProgramsAssumption
  <2> QED
    BY <1>1, <2>1, ShutSlots
<1>14. GivesUp(p, c)
  <2>1. \A j \in 1 .. MaxSlots : f[j].fd = 0
    BY <1>12, <1>13
  <2>2. /\ \A j \in 1 .. MaxSlots : slots[p][j].fd \notin {0, c} =>
             Shut(conns[slots[p][j].fd], conns'[slots[p][j].fd], "dialer")
        /\ Untouched(p)
    BY <1>0, <1>9 DEF FdsShut, Untouched
  <2>3. transport[p] \notin {0, c} =>
          Shut(conns[transport[p]], conns'[transport[p]], End(transport[p], p))
    BY <1>0, <1>8, <1>10
  <2> QED
    BY <1>2, <1>6, <1>11, <2>1, <2>2, <2>3 DEF GivesUp
<1>15. /\ conns'[c].ends = conns[c].ends /\ conns'[c].state = conns[c].state
       /\ Joined(conns'[c], 2, 2, session[q])
  <2>1. PICK k, l, v : k = conns[c] /\ l = conns'[c] /\ v = session[q]
    OBVIOUS
  <2>2. /\ k \in Connection /\ Joined(k, 1, 2, v) /\ k.state["dialer"] = "open"
        /\ Taken(k, l, "dialer") /\ k.toRead["dialer"] # <<>>
    BY <1>1, <1>3, <1>7, <1>8, <1>10, <2>1
  <2>3. l.ends = k.ends /\ l.state = k.state /\ Joined(l, OneMore(1), 2, v)
    BY <2>2, DialerReads
  <2>4. OneMore(1) = 2
    BY DEF OneMore
  <2> QED
    BY <2>1, <2>3, <2>4
<1>16. ConnInv(c)'
  <2>1. Held(p, c)' /\ HasReadBy(p, c)' = 2 /\ HasWritten(p, c)' = 2
    BY <1>0, <1>2, <1>5, GameView DEF Held, HasReadBy, HasWritten
  <2> QED
    BY <1>3, <1>6, <1>15, <2>1, DialerChange DEF Dialer, Acceptor
<1>17. Respects(p, conns[c], conns'[c])
  BY <1>7, <1>8, <1>10, RespectsTaken, Sides
<1>18. Matched(slots'[p], count'[p], asked'[p], q)
  <2>1. q \in asked[p]
    BY <1>0, <1>1, GameParts, ListedSlot DEF SlotQuiet
  <2> QED
    BY <1>1, <1>2, <1>11, <1>12, <2>1 DEF Matched
<1>19. SessionInv(p, session'[p], c, slots'[p], count'[p], asked'[p], conns')
  <2>1. Client(u, slots'[p], count'[p], asked'[p], q)
    BY <1>5, <1>18 DEF Client
  <2> QED
    BY <1>0, <1>1, <1>3, <1>15, <2>1, ZenonT(40) DEF SessionInv, Dialer, Acceptor
<1>20. Settled(session'[p])
  BY <1>0, <1>5 DEF Settled
<1>21. \A j \in 1 .. MaxSlots :
         slots'[p][j].state = "CONNECT_FAILED" =>
           slots'[p][j].hello = "no" /\ ~slots'[p][j].offerSent
  BY <1>11, <1>12, <1>13
<1> QED
  BY <1>14, <1>16, <1>17, <1>19, <1>20, <1>21, GivenUpGame

\* p hangs up its game connection, if any, and withdraws every challenge.
HangsUp(p, cs) ==
  /\ OwnStep(p) /\ backlog' = backlog /\ transport'[p] = 0
  /\ cs = IF transport[p] = 0 THEN conns ELSE Closed(conns, transport[p], End(transport[p], p))
  /\ conns' = AllClosed(cs, Fds(p))
  /\ \A i \in 1 .. MaxSlots : slots'[p][i].fd = 0

LEMMA HungUpGivesUp ==
  ASSUME GameInv, NEW p \in Program, NEW cs, HangsUp(p, cs)
  PROVE  GivesUp(p, 0)
<1>0. PICK t : t = transport[p]
  OBVIOUS
<1>1. /\ cs \in Conns /\ (t # 0 => t \in ConnId /\ Shut(conns[t], cs[t], End(t, p)))
      /\ \A d \in ConnId : d # t => cs[d] = conns[d]
  <2>1. CASE t = 0
    BY <1>0, <2>1, GameParts DEF HangsUp
  <2>2. CASE t # 0
    <3>1. t \in 0 .. MaxConns /\ t \in ConnId /\ End(t, p) \in Side
      BY <1>0, <2>2, GameParts, TransportKnown
    <3>2. cs = Closed(conns, t, End(t, p))
      BY <1>0, <2>2 DEF HangsUp
    <3> QED
      BY <3>1, <3>2, GameParts, ClosedType, ClosedEffect
  <2> QED
    BY <2>1, <2>2
<1>2. FdsShut(p, t, 0, cs)
  <2>1. Fds(p) \ {0} = Fds(p)
    BY DEF Fds
  <2>2. ClosesFds(p, t, 0, cs)
    BY <1>1, <2>1 DEF ClosesFds, HangsUp
  <2> QED
    BY <1>0, <1>1, <2>2, FdsClosed
<1>3. t # 0 => conns'[t] = cs[t]
  BY <1>1, <1>2 DEF FdsShut
<1>4. /\ \A j \in 1 .. MaxSlots : slots[p][j].fd \notin {0, 0} =>
           Shut(conns[slots[p][j].fd], conns'[slots[p][j].fd], "dialer")
      /\ Untouched(p)
  <2>1. \A c \in ConnId : c # 0
    BY ProgramsAssumption DEF ConnId
  <2> QED
    BY <1>0, <1>2, <2>1 DEF FdsShut, Untouched
<1>5. transport[p] \notin {0, 0} =>
        Shut(conns[transport[p]], conns'[transport[p]], End(transport[p], p))
  BY <1>0, <1>1, <1>3
<1> QED
  BY <1>4, <1>5 DEF GivesUp, HangsUp

LEMMA HungUpGame ==
  ASSUME GameInv, AskedInv', NEW p \in Program, NEW cs, HangsUp(p, cs),
         Alone(session'[p], slots'[p], count'[p]),
         \A i \in 1 .. MaxSlots :
           slots'[p][i].state = "OUTGOING_PENDING" => Settled(session'[p]),
         \A i \in 1 .. MaxSlots :
           slots'[p][i].state = "CONNECT_FAILED" =>
             slots'[p][i].hello = "no" /\ ~slots'[p][i].offerSent
  PROVE  GameInv'
<1>1. GivesUp(p, 0)
  BY HungUpGivesUp
<1>2. SessionInv(p, session'[p], 0, slots'[p], count'[p], asked'[p], conns')
  BY DEF SessionInv
<1> QED
  BY <1>1, <1>2, GivenUpGame

\* What hanging up leaves of the session.
LEMMA HungUpFields ==
  ASSUME NEW s \in SessionType, NEW u, u = HungUp(s)
  PROVE  /\ ~u.helloSent /\ ~u.helloReceived /\ ~u.hello /\ ~u.challengeDone /\ ~u.startSent
         /\ u.remote = None /\ u.startDone = s.startDone /\ u \in SessionType
<1>1. u \in SessionType
  BY HungUpType
<1> QED
  BY <1>1 DEF HungUp, SessionType

\* A game that has begun leaves no challenge open.
LEMMA SettledFds ==
  ASSUME GameInv, NEW p \in Program, Settled(session[p])
  PROVE  Fds(p) = {} /\ \A i \in 1 .. MaxSlots : slots[p][i].fd = 0
<1>1. \A i \in 1 .. MaxSlots : slots[p][i].fd = 0
  BY SlotEnds
<1>2. \A i \in 1 .. count[p] : i \in 1 .. MaxSlots
  BY GameParts, ProgramsAssumption
<1> QED
  BY <1>1, <1>2 DEF Fds

LEMMA StartedSettled ==
  ASSUME GameInv, NEW p \in Program, NEW t, t = transport[p], t # 0, session[p].startDone
  PROVE  Settled(session[p])
<1>1. CASE session[p].role = "CLIENT"
  BY <1>1, ClientOf DEF Client, Settled
<1>2. CASE session[p].role # "CLIENT"
  BY <1>2, ServerOf DEF Server, Settled
<1> QED
  BY <1>1, <1>2

LEMMA AllClosedNone ==
  ASSUME NEW cs \in Conns
  PROVE  AllClosed(cs, {}) = cs
BY DEF AllClosed, Conns

LEMMA ReceiveErrorGame ==
  ASSUME GameInv, AskedInv', NEW p \in Program, ReceiveError(p)
  PROVE  GameInv'
<1>0. PICK t, s, u, h, cs :
        /\ t = transport[p] /\ s = session[p] /\ u = session'[p] /\ h = HungUp(s)
        /\ cs = Closed(conns, t, End(t, p))
  OBVIOUS
<1>1. /\ t # 0 /\ t \in ConnId /\ s \in SessionType /\ cs \in Conns
      /\ count' = count /\ backlog' = backlog /\ transport'[p] = 0
      /\ \A r \in Program : r # p => transport'[r] = transport[r]
  <2>1. t # 0 /\ count' = count /\ backlog' = backlog
        /\ transport' = [transport EXCEPT ![p] = 0]
    BY <1>0 DEF ReceiveError
  <2>2. t \in 0 .. MaxConns /\ t \in ConnId /\ End(t, p) \in Side
    BY <1>0, <2>1, GameParts, TransportKnown
  <2> QED
    BY <1>0, <2>1, <2>2, GameParts, ClosedType DEF Types
<1>2. /\ ~h.helloSent /\ ~h.helloReceived /\ ~h.hello /\ ~h.challengeDone /\ ~h.startSent
      /\ h.remote = None /\ h.startDone = s.startDone /\ h \in SessionType
  BY <1>0, <1>1, HungUpFields
<1>3. CASE s.startDone
  <2>1. /\ u = [h EXCEPT !.phase = "DISCONNECTED"] /\ conns' = cs
        /\ slots' = slots /\ asked' = asked
        /\ \A r \in Program : r # p => session'[r] = session[r]
    BY <1>0, <1>3, GameParts DEF ReceiveError, Types
  <2>2. Settled(s) /\ Fds(p) = {} /\ \A i \in 1 .. MaxSlots : slots[p][i].fd = 0
    BY <1>0, <1>1, <1>3, StartedSettled, SettledFds
  <2>3. HangsUp(p, cs)
    <3>1. OwnStep(p)
      BY <1>1, <2>1 DEF OwnStep
    <3>2. conns' = AllClosed(cs, Fds(p))
      BY <1>1, <2>1, <2>2, AllClosedNone
    <3> QED
      BY <1>0, <1>1, <2>1, <2>2, <3>1, <3>2 DEF HangsUp
  <2>4. /\ ~u.helloSent /\ ~u.helloReceived /\ ~u.hello /\ ~u.challengeDone /\ ~u.startSent
        /\ u.remote = None /\ u.phase = "DISCONNECTED"
    BY <1>2, <2>1 DEF SessionType
  <2>5. Alone(u, slots'[p], count'[p])
    BY <2>4 DEF Alone
  <2>6. Settled(u)
    BY <2>4 DEF Settled
  <2>7. ASSUME NEW i \in 1 .. MaxSlots, slots'[p][i].state = "CONNECT_FAILED"
        PROVE  slots'[p][i].hello = "no" /\ ~slots'[p][i].offerSent
    BY <2>1, <2>7, GameParts DEF ProgInv, SlotInv
  <2> QED
    BY <1>0, <2>3, <2>5, <2>6, <2>7, HungUpGame
<1>4. CASE ~s.startDone
  <2>1. /\ u = [h EXCEPT !.role = "UNKNOWN", !.phase = "IDLE"]
        /\ conns' = AllClosed(cs, Fds(p)) /\ slots'[p] = Cleared(p)
        /\ \A r \in Program : r # p =>
             session'[r] = session[r] /\ slots'[r] = slots[r] /\ asked'[r] = asked[r]
    BY <1>0, <1>4, GameParts DEF ReceiveError, Types
  <2>2. PICK f : f = slots'[p]
    OBVIOUS
  <2>3. /\ \A i \in 1 .. count[p] : f[i] = WithState(Disconnected(slots[p][i]), "NONE")
        /\ \A i \in 1 .. MaxSlots : i > count[p] => f[i] = slots[p][i]
    BY <2>1, <2>2, GameParts, AllDisconnectedLobby
  <2>4. ASSUME NEW i \in 1 .. MaxSlots PROVE f[i].fd = 0 /\ f[i].state = "NONE"
    <3>1. slots[p][i] \in Slot /\ (i > count[p] => slots[p][i].state = "NONE")
          /\ SlotQuiet(slots[p][i], asked[p])
      BY GameParts, QuietSlot
    <3>2. CASE i \in 1 .. count[p]
      BY <2>3, <3>1, <3>2, ZenonT(40) DEF WithState, Disconnected, Slot
    <3>3. CASE i > count[p]
      BY <2>3, <3>1, <3>3 DEF SlotQuiet
    <3> QED
      BY <3>2, <3>3, GameParts
  <2>5. HangsUp(p, cs)
    <3>1. OwnStep(p)
      BY <1>1, <2>1 DEF OwnStep
    <3> QED
      BY <1>0, <1>1, <2>1, <2>2, <2>4, <3>1 DEF HangsUp
  <2>6. /\ ~u.helloSent /\ ~u.helloReceived /\ ~u.hello /\ ~u.challengeDone /\ ~u.startSent
        /\ u.remote = None /\ u.phase = "IDLE" /\ u.role = "UNKNOWN" /\ ~u.startDone
    BY <1>2, <1>4, <2>1 DEF SessionType
  <2>7. Alone(u, f, count'[p])
    <3>1. \A i \in 1 .. count[p] : i \in 1 .. MaxSlots
      BY GameParts, ProgramsAssumption
    <3> QED
      BY <1>1, <2>4, <2>6, <3>1 DEF Alone
  <2> QED
    BY <1>0, <2>2, <2>4, <2>5, <2>7, HungUpGame
<1> QED
  BY <1>3, <1>4

LEMMA ReturnToLobbyGame ==
  ASSUME GameInv, AskedInv', NEW p \in Program, ReturnToLobby(p)
  PROVE  GameInv'
<1>1. PICK t, cs : t = transport[p] /\ cs = IF t = 0 THEN conns ELSE Closed(conns, t, End(t, p))
  OBVIOUS
<1>2. /\ conns' = AllClosed(cs, Fds(p)) /\ session'[p] = NewSession /\ count'[p] = 0
      /\ slots'[p] = [i \in 1 .. MaxSlots |-> EmptySlot]
      /\ transport'[p] = 0 /\ backlog' = backlog
      /\ \A r \in Program : r # p =>
           /\ session'[r] = session[r] /\ slots'[r] = slots[r] /\ asked'[r] = asked[r]
           /\ transport'[r] = transport[r] /\ count'[r] = count[r]
  BY <1>1, GameParts DEF ReturnToLobby, Types
<1>3. \A i \in 1 .. MaxSlots : slots'[p][i].fd = 0 /\ slots'[p][i].state = "NONE"
  BY <1>2 DEF EmptySlot
<1>4. HangsUp(p, cs)
  <2>1. OwnStep(p)
    BY <1>2 DEF OwnStep
  <2> QED
    BY <1>1, <1>2, <1>3, <2>1 DEF HangsUp
<1>5. Alone(session'[p], slots'[p], count'[p])
  BY <1>2 DEF Alone, NewSession
<1> QED
  BY <1>3, <1>4, <1>5, HungUpGame

-----------------------------------------------------------------------------
(* Discovery                                                                 *)

\* The challenges of lobby f, with n peers, are in lobby g, with m peers, and no
\* others but one of q's, perhaps.
Relisted(f, n, g, m, q) ==
  /\ \A j \in 1 .. n : f[j].state = "MATCHED" => j \in 1 .. m /\ g[j] = f[j]
  /\ \A j \in 1 .. m : g[j].state = "INCOMING_PENDING" =>
       (j \in 1 .. n /\ g[j] = f[j]) \/ g[j].peer = q

\* Nothing but the offer of the session changes.
SameButOffer(s, u) == u = s \/ u = [s EXCEPT !.offer = None]

LEMMA OfferFields ==
  ASSUME NEW s \in SessionType, NEW u, SameButOffer(s, u)
  PROVE  /\ u.phase = s.phase /\ u.role = s.role /\ u.remote = s.remote
         /\ u.helloSent = s.helloSent /\ u.helloReceived = s.helloReceived /\ u.hello = s.hello
         /\ u.challengeDone = s.challengeDone /\ u.startSent = s.startSent
         /\ u.startDone = s.startDone
BY DEF SameButOffer, SessionType

LEMMA RelistedMatched ==
  ASSUME NEW f, NEW n, NEW g, NEW m, NEW q, NEW d, Relisted(f, n, g, m, q), NEW a,
         Matched(f, n, a, d)
  PROVE  Matched(g, m, a, d)
<1>1. PICK j \in 1 .. n : f[j].peer = d /\ f[j].state = "MATCHED"
  BY DEF Matched
<1>2. j \in 1 .. m /\ g[j] = f[j]
  BY <1>1 DEF Relisted
<1> QED
  BY <1>1, <1>2 DEF Matched

\* q, if it is a program, is the dialer of p's game connection and was greeted.
Greeted(p, q) ==
  q \in Program =>
    /\ transport[p] # 0 /\ session[p].role # "CLIENT" /\ q = Dialer(transport[p])
    /\ session[p].helloSent

LEMMA RelistedServer ==
  ASSUME NEW s \in SessionType, NEW u, SameButOffer(s, u), NEW f, NEW n, NEW g, NEW m, NEW q,
         Relisted(f, n, g, m, q), NEW a, NEW d, Server(s, f, n, a, d),
         \A j \in 1 .. m : g[j].peer = q => q = d /\ s.helloSent
  PROVE  Server(u, g, m, a, d)
<1>1. /\ u.phase = s.phase /\ u.role = s.role /\ u.remote = s.remote
      /\ u.helloSent = s.helloSent /\ u.helloReceived = s.helloReceived /\ u.hello = s.hello
      /\ u.challengeDone = s.challengeDone /\ u.startSent = s.startSent
      /\ u.startDone = s.startDone
  BY OfferFields
<1>2. s.challengeDone => Matched(g, m, a, d)
  BY RelistedMatched DEF Server
<1>3. ASSUME NEW j \in 1 .. m, g[j].state = "INCOMING_PENDING"
      PROVE  g[j].peer = d /\ s.helloSent
  <2>1. (j \in 1 .. n /\ g[j] = f[j]) \/ g[j].peer = q
    BY <1>3 DEF Relisted
  <2>2. CASE j \in 1 .. n /\ g[j] = f[j]
    BY <1>3, <2>2 DEF Server
  <2>3. CASE g[j].peer = q
    BY <2>3
  <2> QED
    BY <2>1, <2>2, <2>3
<1> QED
  BY <1>1, <1>2, <1>3 DEF Server

LEMMA RelistedSession ==
  ASSUME GameInv, NEW p \in Program, NEW q, NEW u, SameButOffer(session[p], u),
         NEW g, NEW m, Relisted(slots[p], count[p], g, m, q),
         \A j \in 1 .. m : g[j].peer \in Program, Greeted(p, q)
  PROVE  SessionInv(p, u, transport[p], g, m, asked[p], conns)
<1>0. PICK s, t, f, n, a : s = session[p] /\ t = transport[p] /\ f = slots[p] /\ n = count[p]
                           /\ a = asked[p]
  OBVIOUS
<1>1. s \in SessionType /\ SessionInv(p, s, t, f, n, a, conns)
  BY <1>0, GameParts DEF ProgInv
<1>2. /\ u.phase = s.phase /\ u.role = s.role /\ u.remote = s.remote
      /\ u.helloSent = s.helloSent /\ u.helloReceived = s.helloReceived /\ u.hello = s.hello
      /\ u.challengeDone = s.challengeDone /\ u.startSent = s.startSent
      /\ u.startDone = s.startDone
  BY <1>0, <1>1, OfferFields
<1>3. CASE t = 0 /\ Alone(s, f, n)
  <2>1. ASSUME NEW j \in 1 .. m, g[j].state = "INCOMING_PENDING"
        PROVE  j \in 1 .. n /\ f[j].state = "INCOMING_PENDING"
    <3>1. g[j].peer # q
      BY <1>0, <1>3 DEF Greeted
    <3> QED
      BY <1>0, <2>1, <3>1 DEF Relisted
  <2>2. Alone(u, g, m)
    BY <1>2, <1>3, <2>1 DEF Alone
  <2> QED
    BY <1>0, <1>3, <2>2 DEF SessionInv
<1>4. CASE /\ t # 0 /\ conns[t].ends["dialer"] = p /\ conns[t].state["dialer"] = "open"
           /\ Client(s, f, n, a, conns[t].ends["acceptor"])
  <2>1. Matched(g, m, a, conns[t].ends["acceptor"])
    BY <1>0, <1>4, RelistedMatched DEF Client
  <2>2. Client(u, g, m, a, conns[t].ends["acceptor"])
    BY <1>2, <1>4, <2>1 DEF Client
  <2> QED
    BY <1>0, <1>4, <2>2 DEF SessionInv
<1>5. CASE /\ t # 0 /\ conns[t].ends["acceptor"] = p /\ conns[t].state["acceptor"] = "open"
           /\ Server(s, f, n, a, conns[t].ends["dialer"])
  <2>1. \A j \in 1 .. m : g[j].peer = q => q = conns[t].ends["dialer"] /\ s.helloSent
    BY <1>0 DEF Greeted, Dialer
  <2>2. Server(u, g, m, a, conns[t].ends["dialer"])
    BY <1>0, <1>1, <1>5, <2>1, RelistedServer
  <2> QED
    BY <1>0, <1>5, <2>2 DEF SessionInv
<1> QED
  BY <1>1, <1>3, <1>4, <1>5 DEF SessionInv

\* A step of discovery at p that leaves the connections alone; q is a program
\* whose OFFER it shows.
Found(p, q) ==
  /\ OwnStep(p) /\ transport' = transport /\ conns' = conns /\ backlog' = backlog
  /\ asked' = asked /\ SameButOffer(session[p], session'[p])
  /\ Relisted(slots[p], count[p], slots'[p], count'[p], q) /\ Greeted(p, q)
  /\ \A i \in 1 .. MaxSlots :
       \/ slots'[p][i] = slots[p][i] /\ (i \in 1 .. count[p] => i \in 1 .. count'[p])
       \/ /\ slots[p][i].fd = 0 /\ slots'[p][i].fd = 0
          /\ slots'[p][i].state \in {"NONE", "INCOMING_PENDING"}

LEMMA FoundGame ==
  ASSUME GameInv, AskedInv', NEW p \in Program, NEW q, Found(p, q)
  PROVE  GameInv'
<1>0. PICK s, u, t : s = session[p] /\ u = session'[p] /\ t = transport[p]
  OBVIOUS
<1>1. /\ u.challengeDone = s.challengeDone /\ u.phase = s.phase /\ SameProgress(s, u)
  BY <1>0, OfferFields, GameParts DEF SameProgress, Found
<1>2. /\ count'[p] \in 0 .. MaxSlots
      /\ \A j \in 1 .. count'[p] : j \in 1 .. MaxSlots /\ slots'[p][j].peer \in Program
      /\ \A j \in 1 .. count[p] : j \in 1 .. MaxSlots
  <2>1. /\ count'[p] \in 0 .. MaxSlots /\ LobbyOf(slots'[p], count'[p], p)
        /\ count[p] \in 0 .. MaxSlots
    BY GameParts DEF AskedInv, LobbyInv, Lobbies, Types
  <2> QED
    BY <2>1, ProgramsAssumption DEF LobbyOf
<1>3. SameChallenges(p)
  <2>1. ASSUME NEW j \in 1 .. count[p], slots[p][j].fd # 0
        PROVE  j \in 1 .. count'[p] /\ slots'[p][j].fd = slots[p][j].fd
    BY <1>2, <2>1 DEF Found
  <2>2. ASSUME NEW j \in 1 .. count'[p], slots'[p][j].fd # 0
        PROVE  /\ j \in 1 .. count[p] /\ slots'[p][j].fd = slots[p][j].fd
               /\ slots'[p][j].hello = slots[p][j].hello
               /\ slots'[p][j].offerSent = slots[p][j].offerSent
    <3>1. slots'[p][j] = slots[p][j]
      BY <1>2, <2>2 DEF Found
    <3> QED
      BY <1>2, <2>2, <3>1, SlotEnds
  <2> QED
    BY <2>1, <2>2 DEF SameChallenges
<1>4. ASSUME NEW c \in ConnId PROVE ConnInv(c)' /\ Respects(p, conns[c], conns'[c])
  BY <1>0, <1>1, <1>3, ConnStays, RespectsSame DEF Found
<1>5. ASSUME NEW i \in 1 .. MaxSlots
      PROVE  SlotInv(p, slots'[p][i], t, u, conns')
  <2>1. CASE slots'[p][i] = slots[p][i]
    <3>1. SlotInv(p, slots[p][i], t, s, conns) /\ conns' = conns
      BY <1>0, GameParts DEF ProgInv, Found
    <3> QED
      BY <1>1, <2>1, <3>1 DEF SlotInv, Settled
  <2>2. CASE slots'[p][i].fd = 0 /\ slots'[p][i].state \in {"NONE", "INCOMING_PENDING"}
    <3>1. slots'[p][i].state = "NONE" => slots'[p][i].hello = "no" /\ ~slots'[p][i].offerSent
      BY QuietSlot DEF AskedInv, Quiet, LobbyQuiet, SlotQuiet
    <3> QED
      BY <2>2, <3>1, IdleSlot
  <2> QED
    BY <2>1, <2>2 DEF Found
<1>6. SessionInv(p, u, t, slots'[p], count'[p], asked'[p], conns')
  BY <1>0, <1>2, RelistedSession DEF Found
<1>7. ProgInv(p)'
  BY <1>0, <1>5, <1>6 DEF ProgInv, Found
<1>8. t # 0 => ConnInv(t)' /\ Respects(p, conns[t], conns'[t])
  BY <1>0, <1>4, GameParts
<1> QED
  BY <1>0, <1>3, <1>7, <1>8, ExchangeGame DEF Found

LEMMA RemovePeerGame ==
  ASSUME strayed' = {}, GameInv, AskedInv', NEW p \in Program, NEW q \in Program,
         RemovePeer(p, q)
  PROVE  GameInv'
<1>0. PICK f, g, n, k : f = slots[p] /\ g = slots'[p] /\ n = count[p] /\ k = SlotOf(p, q)
  OBVIOUS
<1>1. /\ k \in 1 .. n /\ g \in Slots /\ f \in Slots /\ n \in 0 .. MaxSlots /\ MaxSlots \in Nat
      /\ \A j \in 1 .. n - 1 : g[j] = IF j < k THEN f[j] ELSE f[j + 1]
      /\ k # n => g[n] = [f[n] EXCEPT !.fd = 0]
      /\ k = n => g[n] = Disconnected(f[n])
      /\ \A j \in 1 .. MaxSlots : j > n => g[j] = f[j]
  BY <1>0, RemovedSlots, GameParts, ProgramsAssumption
<1>2. /\ count'[p] = n - 1 /\ session' = session /\ transport' = transport
      /\ backlog' = backlog /\ asked' = asked
      /\ \A r \in Program : r # p => slots'[r] = slots[r] /\ count'[r] = count[r]
      /\ \A j \in k .. n : f[j].state = "NONE"
      /\ conns' = AllClosed(conns, {f[k].fd} \ {0})
  BY <1>0, GameParts DEF RemovePeer, Types
<1>3. \A j \in 1 .. MaxSlots : f[j].state = "NONE" => f[j].fd = 0
  BY <1>0, GameParts, QuietSlot DEF SlotQuiet
<1>4. conns' = conns
  <2>1. k \in k .. n /\ k \in 1 .. MaxSlots
    BY <1>1
  <2>2. {f[k].fd} \ {0} = {}
    BY <1>2, <1>3, <2>1
  <2> QED
    BY <1>2, <2>2, GameParts, AllClosedNone
<1>5. \A j \in 1 .. MaxSlots : j < k => g[j] = f[j] /\ j \in 1 .. n - 1
  BY <1>1
<1>6. ASSUME NEW j \in 1 .. MaxSlots, ~(j < k), j \in 1 .. n
      PROVE  f[j].fd = 0 /\ g[j].state = "NONE" /\ g[j].fd = 0 /\ f[j].state = "NONE"
  <2>1. j \in k .. n
    BY <1>1, <1>6
  <2>2. f[j].fd = 0 /\ f[j].state = "NONE" /\ f[j] \in Slot
    BY <1>1, <1>2, <1>3, <2>1 DEF Slots
  <2>3. CASE j = n
    <3>1. g[j] = [f[j] EXCEPT !.fd = 0] \/ g[j] = Disconnected(f[j])
      BY <1>1, <2>3
    <3> QED
      BY <2>2, <3>1 DEF Disconnected, Slot
  <2>4. CASE j # n
    <3>1. j \in 1 .. n - 1 /\ j + 1 \in k .. n /\ j + 1 \in 1 .. MaxSlots
      BY <1>1, <1>6, <2>1, <2>4
    <3> QED
      BY <1>1, <1>2, <1>3, <1>6, <2>2, <3>1
  <2> QED
    BY <2>2, <2>3, <2>4
<1>7. Relisted(f, n, g, n - 1, None)
  <2>1. ASSUME NEW j \in 1 .. n, f[j].state = "MATCHED" PROVE j \in 1 .. n - 1 /\ g[j] = f[j]
    <3>1. j < k
      BY <1>1, <1>6, <2>1
    <3> QED
      BY <1>1, <1>5, <3>1
  <2>2. ASSUME NEW j \in 1 .. n - 1, g[j].state = "INCOMING_PENDING"
        PROVE  j \in 1 .. n /\ g[j] = f[j]
    <3>1. j < k
      BY <1>1, <1>6, <2>2
    <3> QED
      BY <1>1, <1>5, <3>1
  <2> QED
    BY <2>1, <2>2 DEF Relisted
<1>8. ASSUME NEW j \in 1 .. MaxSlots
      PROVE  \/ g[j] = f[j] /\ (j \in 1 .. n => j \in 1 .. n - 1)
             \/ /\ f[j].fd = 0 /\ g[j].fd = 0
                /\ g[j].state \in {"NONE", "INCOMING_PENDING"}
  <2>1. CASE j < k
    BY <1>5, <2>1
  <2>2. CASE ~(j < k) /\ j \in 1 .. n
    BY <1>6, <2>2
  <2>3. CASE j > n
    BY <1>1, <2>3
  <2> QED
    BY <1>1, <2>1, <2>2, <2>3
<1>9. Found(p, None)
  <2>1. OwnStep(p)
    BY <1>2 DEF OwnStep
  <2>2. Greeted(p, None)
    BY ProgramsAssumption DEF Greeted
  <2>3. SameButOffer(session[p], session'[p])
    BY <1>2 DEF SameButOffer
  <2> QED
    BY <1>0, <1>2, <1>4, <1>7, <1>8, <2>1, <2>2, <2>3 DEF Found
<1> QED
  BY <1>9, FoundGame

\* A program that awaits p's answer to its OFFER is the dialer of p's game
\* connection, and p knows its name.
LEMMA AwaitingPeer ==
  ASSUME GameInv, NEW p \in Program, NEW q \in Program, p # q, AwaitsAnswer(q, p),
         NEW t, t = transport[p]
  PROVE  /\ t # 0 /\ Dialer(t) = q /\ session[p].role # "CLIENT"
         /\ session[p].helloSent /\ session[p].remote = q
<1>1. PICK i \in 1 .. count[q] : slots[q][i].fd = t /\ slots[q][i].offerSent
  BY DEF AwaitsAnswer
<1>2. t # 0 /\ i \in 1 .. MaxSlots
  BY GameParts, ProgramsAssumption DEF AwaitsAnswer
<1>3. /\ Dialer(t) = q /\ conns[t].state["dialer"] = "open"
      /\ Joined(conns[t], SlotRead(slots[q][i]), SlotWritten(slots[q][i]), session[Acceptor(t)])
  BY <1>1, <1>2, SlotEnds
<1>4. SlotRead(slots[q][i]) = 1
  <2>1. SlotInv(q, slots[q][i], transport[q], session[q], conns)
    BY <1>2, GameParts DEF ProgInv
  <2> QED
    BY <1>1, <1>2, <2>1 DEF SlotInv, SlotRead
<1>5. session[p].role # "CLIENT"
  BY <1>2, <1>3, ClientOf
<1>6. /\ Acceptor(t) = p /\ conns[t].state["acceptor"] = "open"
      /\ Server(session[p], slots[p], count[p], asked[p], q)
  BY <1>2, <1>3, <1>5, ServerOf
<1>7. Knows(session[p], 1)
  <2>1. PICK k, v : k = conns[t] /\ v = session[p]
    OBVIOUS
  <2>2. Joined(k, 1, SlotWritten(slots[q][i]), v) /\ k.state["dialer"] = "open" /\ 1 >= 1
    BY <1>3, <1>4, <1>6, <2>1
  <2> QED
    BY <1>6, <2>1, <2>2, DialerKnows
<1>8. session[p].helloSent
  <2>1. 1 \in 1 .. 3
    OBVIOUS
  <2> QED
    BY <1>6, <1>7, <2>1, ServerAnswers
<1> QED
  BY <1>2, <1>3, <1>5, <1>6, <1>8 DEF Server

\* A peer found when the lobby is full.
LEMMA OverlookedGame ==
  ASSUME GameInv, AskedInv', NEW p \in Program, NEW q \in Program, DiscoverPeer(p, q),
         ~(count[p] < MaxSlots)
  PROVE  GameInv'
<1>1. /\ slots' = slots /\ count' = count /\ transport' = transport /\ conns' = conns
      /\ backlog' = backlog /\ asked' = asked
      /\ session' = [session EXCEPT ![p].offer = None]
  BY Overlooked
<1>2. /\ session'[p] = [session[p] EXCEPT !.offer = None]
      /\ \A r \in Program : r # p => session'[r] = session[r]
  BY <1>1, GameParts DEF Types
<1>3. OwnStep(p) /\ SameButOffer(session[p], session'[p])
  BY <1>1, <1>2 DEF OwnStep, SameButOffer
<1>4. Relisted(slots[p], count[p], slots'[p], count'[p], None)
  BY <1>1 DEF Relisted
<1>5. Greeted(p, None)
  BY ProgramsAssumption DEF Greeted
<1>6. Found(p, None)
  BY <1>1, <1>3, <1>4, <1>5 DEF Found
<1> QED
  BY <1>6, FoundGame

\* A peer that is listed, and perhaps shown as the sender of a kept OFFER.
LEMMA ListedGame ==
  ASSUME strayed' = {}, GameInv, AskedInv', NEW p \in Program, NEW q \in Program,
         DiscoverPeer(p, q), count[p] < MaxSlots
  PROVE  GameInv'
<1>0. PICK f, g, n, m, s, u, a :
        /\ f = slots[p] /\ g = slots'[p] /\ m = count[p] /\ n = count[p] + 1
        /\ s = session[p] /\ u = session'[p] /\ a = AddedTo(f[n], q)
  OBVIOUS
<1>1. /\ f \in Slots /\ m \in 0 .. MaxSlots /\ n = m + 1 /\ n \in 1 .. MaxSlots /\ n > m
      /\ MaxSlots \in Nat /\ p # q /\ s \in SessionType
  <2>1. p # q
    BY LobbyAssumption DEF DiscoverPeer
  <2>2. f \in Slots /\ m \in 0 .. MaxSlots /\ MaxSlots \in Nat /\ s \in SessionType
    BY <1>0, GameParts, ProgramsAssumption
  <2> QED
    BY <1>0, <2>1, <2>2
<1>2. f[n] \in Slot /\ f[n].state = "NONE" /\ f[n].fd = 0
  BY <1>0, <1>1, GameParts, QuietSlot DEF SlotQuiet
<1>3. a \in Slot /\ a.peer = q /\ a.fd = 0 /\ a.state = "NONE"
  <2>1. 0 \in 0 .. MaxConns
    BY ProgramsAssumption
  <2> QED
    BY <1>0, <1>2, <2>1 DEF AddedTo, Slot
<1>4. /\ count'[p] = n /\ transport' = transport /\ conns' = conns
      /\ backlog' = backlog /\ asked' = asked
      /\ \A r \in Program : r # p =>
           slots'[r] = slots[r] /\ count'[r] = count[r] /\ session'[r] = session[r]
  BY <1>0, GameParts DEF DiscoverPeer, Types, net
<1>5. OwnStep(p)
  BY <1>4 DEF OwnStep
<1>6. CASE s.offer = q
  <2>1. g = [f EXCEPT ![n] = WithState(a, "INCOMING_PENDING")]
    <3>1. g = [[f EXCEPT ![n] = a] EXCEPT ![n] = WithState(@, "INCOMING_PENDING")]
      BY <1>0, <1>6, GameParts DEF DiscoverPeer, Types
    <3> QED
      BY <1>1, <3>1 DEF Slots
  <2>2. g[n] = WithState(a, "INCOMING_PENDING") /\ \A j \in 1 .. MaxSlots : j # n => g[j] = f[j]
    BY <1>1, <2>1 DEF Slots
  <2>3. g[n].peer = q /\ g[n].fd = 0 /\ g[n].state = "INCOMING_PENDING"
    BY <1>3, <2>2 DEF WithState, Slot
  <2>4. AwaitsAnswer(q, p)
    BY <1>0, <1>6 DEF DiscoverPeer, Strays
  <2>5. /\ transport[p] # 0 /\ Dialer(transport[p]) = q /\ s.role # "CLIENT"
        /\ s.helloSent /\ s.remote = q
    BY <1>0, <1>1, <2>4, AwaitingPeer
  <2>6. SameButOffer(s, u)
    <3>1. u = [SetRemote(s, q) EXCEPT !.offer = None]
      BY <1>0, <1>6, GameParts DEF DiscoverPeer, Types
    <3>2. SetRemote(s, q) = s
      BY <2>5 DEF SetRemote
    <3> QED
      BY <3>1, <3>2 DEF SameButOffer
  <2>7. Relisted(f, m, g, n, q)
    BY <1>1, <2>2, <2>3 DEF Relisted
  <2>8. ASSUME NEW j \in 1 .. MaxSlots
        PROVE  \/ g[j] = f[j] /\ (j \in 1 .. m => j \in 1 .. n)
               \/ /\ f[j].fd = 0 /\ g[j].fd = 0
                  /\ g[j].state \in {"NONE", "INCOMING_PENDING"}
    BY <1>1, <1>2, <2>2, <2>3
  <2>9. Greeted(p, q)
    BY <1>0, <2>5 DEF Greeted
  <2>10. Found(p, q)
    BY <1>0, <1>4, <1>5, <2>6, <2>7, <2>8, <2>9 DEF Found
  <2> QED
    BY <2>10, FoundGame
<1>7. CASE s.offer # q
  <2>1. g = [f EXCEPT ![n] = a] /\ session' = session
    BY <1>0, <1>7, GameParts DEF DiscoverPeer, Types
  <2>2. g[n] = a /\ \A j \in 1 .. MaxSlots : j # n => g[j] = f[j]
    BY <1>1, <2>1 DEF Slots
  <2>3. Relisted(f, m, g, n, None)
    BY <1>1, <1>3, <2>2 DEF Relisted
  <2>4. ASSUME NEW j \in 1 .. MaxSlots
        PROVE  \/ g[j] = f[j] /\ (j \in 1 .. m => j \in 1 .. n)
               \/ /\ f[j].fd = 0 /\ g[j].fd = 0
                  /\ g[j].state \in {"NONE", "INCOMING_PENDING"}
    BY <1>1, <1>2, <1>3, <2>2
  <2>5. Greeted(p, None)
    BY ProgramsAssumption DEF Greeted
  <2>6. SameButOffer(s, u)
    BY <1>0, <2>1 DEF SameButOffer
  <2>7. Found(p, None)
    BY <1>0, <1>4, <1>5, <2>3, <2>4, <2>5, <2>6 DEF Found
  <2> QED
    BY <2>7, FoundGame
<1> QED
  BY <1>6, <1>7

LEMMA DiscoverPeerGame ==
  ASSUME strayed' = {}, GameInv, AskedInv', NEW p \in Program, NEW q \in Program,
         DiscoverPeer(p, q)
  PROVE  GameInv'
BY OverlookedGame, ListedGame

-----------------------------------------------------------------------------
(* The invariant                                                             *)

\* Nothing is connected and nobody has been challenged at first.
LEMMA InitGame == Init => GameInv
<1> SUFFICES ASSUME Init PROVE GameInv
  OBVIOUS
<1>1. AskedInv
  BY InitAsked
<1>2. \A c \in ConnId : ConnInv(c)
  BY DEF Init, ConnInv, Free, NoConnection
<1>3. ASSUME NEW p \in Program PROVE ProgInv(p) /\ Waiting(p, backlog[p], conns)
  <2>1. session[p] = NewSession /\ transport[p] = 0 /\ backlog[p] = <<>>
    BY DEF Init
  <2>2. ASSUME NEW i \in 1 .. MaxSlots
        PROVE  /\ slots[p][i].state = "NONE" /\ slots[p][i].fd = 0
               /\ slots[p][i].hello = "no" /\ ~slots[p][i].offerSent
    <3>1. slots[p] \in [1 .. MaxSlots -> {[EmptySlot EXCEPT !.peer = q] :
                                            q \in Program \cup {None}}]
      BY DEF Init
    <3>2. slots[p][i] \in {[EmptySlot EXCEPT !.peer = q] : q \in Program \cup {None}}
      BY <3>1
    <3>3. PICK q \in Program \cup {None} : slots[p][i] = [EmptySlot EXCEPT !.peer = q]
      BY <3>2
    <3> QED
      BY <3>3 DEF EmptySlot
  <2>3. \A i \in 1 .. count[p] : i \in 1 .. MaxSlots
    BY <1>1, ProgramsAssumption DEF AskedInv, LobbyInv, Types
  <2>4. Alone(session[p], slots[p], count[p])
    BY <2>1, <2>2, <2>3 DEF Alone, NewSession
  <2>5. \A i \in 1 .. MaxSlots : SlotInv(p, slots[p][i], transport[p], session[p], conns)
    BY <2>2, IdleSlot
  <2>6. Waiting(p, backlog[p], conns)
    BY <2>1 DEF Waiting
  <2> QED
    BY <2>1, <2>4, <2>5, <2>6 DEF ProgInv, SessionInv
<1> QED
  BY <1>1, <1>2, <1>3 DEF GameInv

LEMMA UnchangedGame ==
  ASSUME GameInv, AskedInv', UNCHANGED vars
  PROVE  GameInv'
<1>1. /\ slots' = slots /\ count' = count /\ session' = session /\ transport' = transport
      /\ conns' = conns /\ backlog' = backlog /\ asked' = asked
  BY DEF vars
<1>2. ASSUME NEW c \in ConnId PROVE ConnInv(c)'
  BY <1>1, GameParts DEF ConnInv, Held, HasReadBy, HasWritten, Dialer, Acceptor
<1>3. ASSUME NEW p \in Program PROVE ProgInv(p)' /\ Waiting(p, backlog'[p], conns')
  BY <1>1, GameParts DEF ProgInv
<1> QED
  BY <1>2, <1>3 DEF GameInv

LEMMA StageGame ==
  ASSUME GameInv, AskedInv', NEW p \in Program, NEW i \in 1 .. MaxSlots, Stage(p, i)
  PROVE  GameInv'
BY ConnectGame, FinishConnectGame, ConnectRefusedGame, SayHelloGame, HearHelloGame,
   SendOfferGame, HearAcceptGame, ChallengeLostGame DEF Stage

LEMMA GamePartGame ==
  ASSUME GameInv, AskedInv', NEW p \in Program, GamePart(p)
  PROVE  GameInv'
BY AcceptGame, AdvanceHelloGame, HandlePacketGame, HandleOfferGame, HandleStartGame,
   SendStartGame, RetryStartGame, ReceiveErrorGame DEF GamePart

LEMMA ClickGame ==
  ASSUME strayed' = {}, GameInv, AskedInv', NEW p \in Program, Click(p)
  PROVE  GameInv'
BY ClickChallengeGame, ClickCancelGame, ClickRetryGame, ClickAcceptGame, ReturnToLobbyGame
   DEF Click

LEMMA NextGame == strayed' = {} /\ GameInv /\ [Next]_vars => GameInv'
<1> SUFFICES ASSUME strayed' = {}, GameInv, [Next]_vars
             PROVE  GameInv'
  OBVIOUS
<1>1. AskedInv'
  BY NextAsked, GameParts
<1>2. CASE UNCHANGED vars
  BY <1>1, <1>2, UnchangedGame
<1>3. CASE Next
  <2>1. PICK p \in Program : \/ GamePart(p) \/ Click(p) \/ Discovery(p)
                             \/ \E i \in 1 .. MaxSlots : Stage(p, i)
    BY <1>3 DEF Next
  <2>2. CASE Discovery(p)
    BY <1>1, <2>2, DiscoverPeerGame, RemovePeerGame DEF Discovery
  <2> QED
    BY <1>1, <2>1, <2>2, GamePartGame, ClickGame, StageGame
<1> QED
  BY <1>2, <1>3

\* The inductive invariant, of every program of any number of them that discover,
\* challenge, accept, promote, start and give up: a dialer's slot, its game
\* connection, the packets on their way and the session of the acceptor fit, as
\* long as nothing has gone astray in any of them.
THEOREM GameInvariance == Spec => [](strayed = {} => GameInv)
<1>1. Init => (strayed = {} => GameInv)
  BY InitGame
<1>2. (strayed = {} => GameInv) /\ [Next]_vars => (strayed = {} => GameInv)'
  <2>1. SUFFICES ASSUME strayed = {} => GameInv, [Next]_vars, strayed' = {}
                 PROVE  GameInv'
    OBVIOUS
  <2>2. strayed = {}
    BY <2>1, StrayedSteps
  <2> QED
    BY <2>1, <2>2, NextGame
<1> QED
  BY <1>1, <1>2, PTL DEF Spec

-----------------------------------------------------------------------------
(* What follows from it                                                      *)

\* The two programs of a game connection.
LEMMA PlayersKnown ==
  ASSUME GameInv, NEW p \in Program, NEW q \in Program, NEW c \in ConnId, GameBetween(c, p, q)
  PROVE  /\ Client(session[p], slots[p], count[p], asked[p], q)
         /\ Server(session[q], slots[q], count[q], asked[q], p)
         /\ session[q].challengeDone
<1>1. /\ transport[p] = c /\ transport[q] = c /\ c # 0 /\ Dialer(c) = p /\ Acceptor(c) = q
      /\ ConnInv(c)
  BY ProgramsAssumption, GameParts DEF GameBetween, Dialer, Acceptor, ConnId
<1>2. /\ p # q /\ Joined(conns[c], HasReadBy(p, c), HasWritten(p, c), session[q])
      /\ Client(session[p], slots[p], count[p], asked[p], q)
      /\ conns[c].state["dialer"] = "open"
  BY <1>1, TransportEnds
<1>3. /\ Server(session[q], slots[q], count[q], asked[q], p)
      /\ conns[c].state["acceptor"] = "open"
  BY <1>1, <1>2, TransportEnds
<1>4. HasReadBy(p, c) \in {2, 3}
  BY <1>1, GameView DEF HasReadBy
<1>5. \E n \in 2 .. 3 : Knows(session[q], n)
  <2>1. PICK k, r, w, v : /\ k = conns[c] /\ r = HasReadBy(p, c) /\ w = HasWritten(p, c)
                          /\ v = session[q]
    OBVIOUS
  <2>2. Joined(k, r, w, v) /\ k.state["dialer"] = "open" /\ r >= 1
    BY <1>2, <1>4, <2>1
  <2>3. Knows(v, r)
    BY <1>3, <2>1, <2>2, DialerKnows
  <2>4. r \in 2 .. 3
    BY <1>4, <2>1
  <2> QED
    BY <2>1, <2>3, <2>4
<1>6. session[q].challengeDone
  <2>1. PICK n \in 2 .. 3 : Knows(session[q], n)
    BY <1>5
  <2>2. n \in 1 .. 3 /\ n >= 2
    OBVIOUS
  <2> QED
    BY <1>3, <2>1, <2>2, ServerAnswers
<1> QED
  BY <1>2, <1>3, <1>6

LEMMA GameOneServer == GameInv => OneServer
<1> SUFFICES ASSUME GameInv, NEW p \in Program, NEW q \in Program, NEW c \in ConnId,
                    GameBetween(c, p, q)
             PROVE  session[p].role = "CLIENT" /\ session[q].role # "CLIENT"
  BY DEF OneServer
<1> QED
  BY PlayersKnown DEF Client, Server

LEMMA GameConsented == GameInv => ConsentedGame
<1> SUFFICES ASSUME GameInv, NEW p \in Program, NEW q \in Program, NEW c \in ConnId,
                    GameBetween(c, p, q)
             PROVE  /\ session[p].remote = q /\ session[q].remote = p
                    /\ q \in asked[p] /\ p \in asked[q]
  BY DEF ConsentedGame
<1>1. /\ Client(session[p], slots[p], count[p], asked[p], q)
      /\ Server(session[q], slots[q], count[q], asked[q], p)
      /\ session[q].challengeDone
  BY PlayersKnown
<1> QED
  BY <1>1 DEF Client, Server, Matched

LEMMA GameNoneOpen == GameInv => NoChallengeLeftOpen
BY SettledFds DEF NoChallengeLeftOpen, Settled

\* A packet of the type is on its way to end e of c; START is due from s.
OnItsWay(c, e, type) ==
  \E k \in DOMAIN conns[c].toRead[e] : conns[c].toRead[e][k].type = type

StartDue(s) == s.hello /\ s.challengeDone /\ ~s.startSent


LEMMA Queues ==
  ASSUME GameInv, NEW c \in ConnId, NEW e \in Side
  PROVE  conns[c].toRead[e] \in Seq(Message)
BY GameParts DEF Connection, Side

LEMMA LastPackets ==
  ASSUME NEW p
  PROVE  /\ ByDialer(p)[3].type = "ACK" /\ ByAcceptor(p)[3].type = "START"
         /\ ByAcceptor(p)[1].type = "HELLO" /\ ByAcceptor(p)[2].type = "ACCEPT"
<1>1. ByDialer(p)[3] = [type |-> "ACK"] /\ ByAcceptor(p)[3] = [type |-> "START"]
  BY Packets
<1>2. /\ ByAcceptor(p)[1] = [type |-> "HELLO", from |-> p]
      /\ ByAcceptor(p)[2] = [type |-> "ACCEPT", from |-> p]
  BY Packets
<1>3. ByDialer(p)[3].type = "ACK" /\ ByAcceptor(p)[3].type = "START"
  BY <1>1
<1>4. ByAcceptor(p)[1].type = "HELLO" /\ ByAcceptor(p)[2].type = "ACCEPT"
  BY <1>2
<1> QED
  BY <1>3, <1>4

\* The client of a game that is starting.
LEMMA ClientStarts ==
  ASSUME GameInv, NEW p \in Program, session[p].phase = "GAME_STARTING",
         session[p].role = "CLIENT", NEW c, c = transport[p], c # 0, NEW q, q = Acceptor(c)
  PROVE  /\ End(c, p) = "dialer" /\ q \in Program
         /\ \/ conns[c].state["acceptor"] = "closed"
            \/ /\ transport[q] = c /\ session[q].role = "SERVER" /\ ~session[q].startDone
               /\ StartDue(session[q]) \/ OnItsWay(c, "dialer", "START")
<1>0. PICK k, v, s : k = conns[c] /\ v = session[q] /\ s = session[p]
  OBVIOUS
<1>1. /\ c \in ConnId /\ k \in Connection /\ Dialer(c) = p /\ End(c, p) = "dialer"
      /\ q \in Program /\ q # p /\ k.state["dialer"] = "open"
      /\ Client(s, slots[p], count[p], asked[p], q)
      /\ Joined(k, IF s.startDone THEN 3 ELSE 2, IF s.startDone THEN 3 ELSE 2, v)
  BY <1>0, ClientOf
<1>2. ~s.startDone /\ Joined(k, 2, 2, v)
  BY <1>0, <1>1 DEF Client
<1>3. CASE k.state["acceptor"] = "open"
  <2>1. /\ transport[q] = c /\ Server(v, slots[q], count[q], asked[q], p)
        /\ v \in SessionType
    BY <1>0, <1>1, <1>3, Taker, GameParts
  <2>2. Knows(v, 2)
    <3>1. 2 >= 1
      OBVIOUS
    <3> QED
      BY <1>1, <1>2, <1>3, <3>1, DialerKnows
  <2>3. v.challengeDone /\ v.role = "SERVER" /\ v.hello
    <3>1. 2 \in 1 .. 3 /\ 2 >= 2
      OBVIOUS
    <3>2. v.challengeDone
      BY <2>1, <2>2, <3>1, ServerAnswers
    <3> QED
      BY <2>1, <3>2 DEF Server
  <2>4. ~v.startDone
    <3>1. PICK r, w \in 0 .. 3 :
            /\ Stream(k.toRead["acceptor"], ByDialer(k.ends["dialer"]), r, w)
            /\ k.state["dialer"] = "open" => w = 2
            /\ k.state["acceptor"] = "open" => HasRead(v, r)
      BY <1>2, <1>3 DEF Joined, ToAcceptor
    <3>2. r <= 2
      BY <1>1, <3>1, StreamBounds
    <3> QED
      BY <1>3, <3>1, <3>2 DEF HasRead
  <2>5. CASE v.startSent
    <3>1. PICK w \in 0 .. 3 :
            /\ Repeats(k.toRead["dialer"], ByAcceptor(k.ends["acceptor"]), 2, w)
            /\ k.state["acceptor"] = "open" => HasAnswered(v, w)
      BY <1>1, <1>2 DEF Joined, ToDialer
    <3>2. w = 3
      BY <1>3, <2>5, <3>1 DEF HasAnswered, AnswersOf
    <3>3. k.toRead["dialer"] \in Seq(Message) /\ 2 < 3 /\ 3 <= w /\ 3 \in 1 .. 3
      BY <1>0, <1>1, <3>2, Queues, Sides
    <3>4. PICK j \in DOMAIN k.toRead["dialer"] :
            k.toRead["dialer"][j] = ByAcceptor(k.ends["acceptor"])[3]
      BY <3>1, <3>3, RepeatsHolds
    <3>5. OnItsWay(c, "dialer", "START")
      BY <1>0, <3>4, LastPackets DEF OnItsWay
    <3> QED
      BY <1>0, <1>1, <2>1, <2>3, <2>4, <3>5
  <2>6. CASE ~v.startSent
    BY <1>0, <1>1, <2>1, <2>3, <2>4, <2>6 DEF StartDue
  <2> QED
    BY <2>5, <2>6
<1>4. CASE k.state["acceptor"] # "open"
  <2>1. k.state["acceptor"] \notin {"free", "queued"}
    <3>1. 2 >= 1
      OBVIOUS
    <3> QED
      BY <1>1, <1>2, <3>1, DialerKnows
  <2>2. k.state["acceptor"] = "closed"
    BY <1>1, <1>4, <2>1 DEF Connection
  <2> QED
    BY <1>0, <1>1, <2>2
<1> QED
  BY <1>3, <1>4

\* q looks after the challenge it has connected with c, or is about to give all
\* its challenges up.
StillAwaited(q, c) ==
  \/ \E i \in Listed(q) : Advancing(q, i) /\ slots[q][i].fd = c
  \/ transport[q] # 0 /\ Hung(transport[q], End(transport[q], q))

LEMMA ChallengeAwaited ==
  ASSUME GameInv, NEW q \in Program, NEW i \in 1 .. count[q], NEW c, slots[q][i].fd = c, c # 0
  PROVE  StillAwaited(q, c)
<1>1. /\ i \in 1 .. MaxSlots /\ SlotInv(q, slots[q][i], transport[q], session[q], conns)
      /\ i \in Listed(q)
  BY OwnSlot DEF Listed
<1>2. CASE slots[q][i].state = "OUTGOING_PENDING"
  <2>1. ~session[q].challengeDone /\ ~Settled(session[q])
    BY <1>1, SlotEnds
  <2>2. Advancing(q, i)
    BY <1>1, <1>2, <2>1 DEF Advancing, Settled
  <2> QED
    BY <1>1, <2>2 DEF StillAwaited
<1>3. CASE slots[q][i].state # "OUTGOING_PENDING"
  <2>1. PICK t : t = transport[q]
    OBVIOUS
  <2>2. t # 0 /\ conns[t].ends["acceptor"] = q /\ conns[t].state["dialer"] = "closed"
    BY <1>1, <1>3, <2>1 DEF SlotInv
  <2>3. conns[t].ends["dialer"] # q
    BY <2>1, <2>2, TransportEnds DEF Dialer, Acceptor
  <2>4. Hung(t, End(t, q))
    BY <2>2, <2>3, Sides DEF Hung, End
  <2> QED
    BY <2>1, <2>2, <2>4 DEF StillAwaited
<1> QED
  BY <1>2, <1>3

\* The server of a game that is starting.
LEMMA ServerStarts ==
  ASSUME GameInv, NEW p \in Program, session[p].phase = "GAME_STARTING",
         session[p].role # "CLIENT", NEW c, c = transport[p], c # 0, NEW q, q = Dialer(c),
         conns[c].state["dialer"] = "open"
  PROVE  /\ session[p].role = "SERVER"
         /\ \/ StartDue(session[p])
            \/ OnItsWay(c, "dialer", "START")
            \/ transport[q] = c /\ session[q].startDone
         /\ OnItsWay(c, "dialer", "ACCEPT") => StillAwaited(q, c)
<1>0. PICK k, s, r, w : /\ k = conns[c] /\ s = session[p]
                        /\ r = HasReadBy(q, c) /\ w = HasWritten(q, c)
  OBVIOUS
<1>1. /\ c \in ConnId /\ k \in Connection /\ q \in Program
      /\ k.state["acceptor"] = "open" /\ Held(q, c)
      /\ Server(s, slots[p], count[p], asked[p], q)
      /\ Joined(k, r, w, s)
  BY <1>0, ServerOf
<1>2. /\ s.challengeDone /\ ~s.startDone /\ s.role = "SERVER" /\ s.hello
  BY <1>0, <1>1 DEF Server
<1>3. PICK v \in 0 .. 3 :
        /\ Repeats(k.toRead["dialer"], ByAcceptor(k.ends["acceptor"]), r, v)
        /\ k.state["acceptor"] = "open" => HasAnswered(s, v)
  BY <1>0, <1>1 DEF Joined, ToDialer
<1>4. r \in 0 .. 3 /\ k.toRead["dialer"] \in Seq(Message)
  BY <1>0, <1>1, <1>3, RepeatsBounds, Queues, Sides
<1>5. ASSUME ~s.startSent PROVE StartDue(s)
  BY <1>0, <1>2, <1>5 DEF StartDue
<1>6. ASSUME s.startSent, r < 3 PROVE OnItsWay(c, "dialer", "START")
  <2>1. v = 3
    BY <1>1, <1>3, <1>6 DEF HasAnswered, AnswersOf
  <2>2. 3 \in 1 .. 3 /\ 3 <= v
    BY <2>1
  <2>3. PICK j \in DOMAIN k.toRead["dialer"] :
          k.toRead["dialer"][j] = ByAcceptor(k.ends["acceptor"])[3]
    BY <1>3, <1>4, <1>6, <2>2, RepeatsHolds
  <2> QED
    BY <1>0, <2>3, LastPackets DEF OnItsWay
<1>7. ASSUME r = 3 PROVE transport[q] = c /\ session[q].startDone
  BY <1>0, <1>7 DEF HasReadBy, ReadBy
<1>8. ASSUME OnItsWay(c, "dialer", "ACCEPT") PROVE StillAwaited(q, c)
  <2>1. PICK j \in DOMAIN k.toRead["dialer"] : k.toRead["dialer"][j].type = "ACCEPT"
    BY <1>0, <1>8 DEF OnItsWay
  <2>2. PICK n \in 1 .. 3 : /\ r < n \/ n = 3
                            /\ k.toRead["dialer"][j] = ByAcceptor(k.ends["acceptor"])[n]
    BY <1>3, <1>4, RepeatsOf
  <2>3. n = 2
    <3>1. n = 1 \/ n = 2 \/ n = 3
      OBVIOUS
    <3> QED
      BY <2>1, <2>2, <3>1, LastPackets
  <2>4. r < 2
    BY <1>4, <2>2, <2>3
  <2>5. transport[q] # c
    BY <1>0, <2>4 DEF HasReadBy, ReadBy
  <2>6. PICK i \in 1 .. count[q] : slots[q][i].fd = c
    BY <1>1, <2>5 DEF Held, HeldBy
  <2> QED
    BY <1>1, <2>6, ChallengeAwaited
<1>9. \/ StartDue(s) \/ OnItsWay(c, "dialer", "START")
      \/ transport[q] = c /\ session[q].startDone
  <2>1. r < 3 \/ r = 3
    BY <1>4
  <2> QED
    BY <2>1, <1>5, <1>6, <1>7, <1>0
<1> QED
  BY <1>0, <1>2, <1>8, <1>9

\* What StartUnderWay says of p, its game connection c and the program q it plays.
StartComes(p, c, q) ==
  /\ c # 0
  /\ \/ Hung(c, End(c, p))
     \/ /\ session[p].role = "CLIENT" /\ transport[q] = c
        /\ session[q].role = "SERVER" /\ ~session[q].startDone
        /\ StartDue(session[q]) \/ OnItsWay(c, End(c, p), "START")
     \/ /\ session[p].role = "SERVER"
        /\ \/ OnItsWay(c, End(c, q), "ACCEPT") \/ StartDue(session[p])
           \/ OnItsWay(c, End(c, q), "START")
           \/ transport[q] = c /\ session[q].startDone
        /\ OnItsWay(c, End(c, q), "ACCEPT") => StillAwaited(q, c)

LEMMA GameStarts == GameInv => StartUnderWay
<1> SUFFICES ASSUME GameInv PROVE StartUnderWay
  OBVIOUS
<1>1. ASSUME NEW p \in Program, session[p].phase = "GAME_STARTING", NEW c, c = transport[p],
             NEW q, q = Partner(c, p)
      PROVE  StartComes(p, c, q)
  <2>1. c # 0
    <3>1. SUFFICES ASSUME c = 0 PROVE FALSE
      OBVIOUS
    <3>2. Alone(session[p], slots[p], count[p])
      BY <1>1, <3>1, GameParts DEF ProgInv, SessionInv
    <3> QED
      BY <1>1, <3>2 DEF Alone
  <2>2. CASE session[p].role = "CLIENT"
    <3>1. End(c, p) = "dialer" /\ q = Acceptor(c)
      BY <1>1, <2>1, <2>2, ClientOf, Sides DEF Partner, Acceptor
    <3>2. \/ conns[c].state["acceptor"] = "closed"
          \/ /\ transport[q] = c /\ session[q].role = "SERVER" /\ ~session[q].startDone
             /\ StartDue(session[q]) \/ OnItsWay(c, "dialer", "START")
      BY <1>1, <2>1, <2>2, <3>1, ClientStarts
    <3> QED
      BY <2>1, <2>2, <3>1, <3>2, Sides DEF Hung, StartComes
  <2>3. CASE session[p].role # "CLIENT"
    <3>1. /\ End(c, p) = "acceptor" /\ q = Dialer(c) /\ End(c, q) = "dialer"
          /\ c \in ConnId
      BY <1>1, <2>1, <2>3, ServerOf, Sides DEF Partner, Dialer, End
    <3>2. CASE conns[c].state["dialer"] # "open"
      <4>1. Joined(conns[c], HasReadBy(Dialer(c), c), HasWritten(Dialer(c), c), session[p])
        BY <1>1, <2>1, <2>3, ServerOf
      <4>2. conns[c].state["dialer"] = "closed"
        BY <3>2, <4>1 DEF Joined
      <4> QED
        BY <2>1, <3>1, <4>2, Sides DEF Hung, StartComes
    <3>3. CASE conns[c].state["dialer"] = "open"
      <4>1. /\ session[p].role = "SERVER"
            /\ \/ StartDue(session[p]) \/ OnItsWay(c, "dialer", "START")
               \/ transport[q] = c /\ session[q].startDone
            /\ OnItsWay(c, "dialer", "ACCEPT") => StillAwaited(q, c)
        BY <1>1, <2>1, <2>3, <3>1, <3>3, ServerStarts
      <4> QED
        BY <2>1, <3>1, <4>1 DEF StartComes
    <3> QED
      BY <3>2, <3>3
  <2> QED
    BY <2>2, <2>3
<1>2. ASSUME NEW p \in Program, session[p].phase = "GAME_STARTING"
      PROVE  StartComes(p, transport[p], Partner(transport[p], p))
  BY <1>1, <1>2
<1> QED
  BY <1>2, ZenonT(40) DEF StartUnderWay, StartComes, OnItsWay, StartDue, StillAwaited

\* Two programs whose challenge is settled on one connection agree which of them
\* is the server (role in set_remote, promote and handle_accept).
THEOREM GamesHaveOneServer == Spec => [](strayed = {} => OneServer)
BY GameInvariance, GameOneServer, PTL

\* Nobody plays a game its player did not ask for, nor shows another opponent.
THEOREM GamesAreConsented == Spec => [](strayed = {} => ConsentedGame)
BY GameInvariance, GameConsented, PTL

\* A program that goes into a game leaves no challenge connection open behind it
\* (net_promote_challenge_to_game, chess_lobby_close_all_challenge_connections).
THEOREM ChallengesAreClosed == Spec => [](strayed = {} => NoChallengeLeftOpen)
BY GameInvariance, GameNoneOpen, PTL

\* A program whose game is starting does not wait for a packet that never comes,
\* but for a server whose client is in the game already.
THEOREM StartsAreUnderWay == Spec => [](strayed = {} => StartUnderWay)
BY GameInvariance, GameStarts, PTL
====
