---- MODULE FramingProofs ----
(***************************************************************************)
(* Proofs about module Framing, for headers, payloads and socket buffers   *)
(* of any size: however writes and reads cut the stream of bytes, what is  *)
(* received is what was written whole, packet by packet, up to the first   *)
(* that was torn.                                                          *)
(***************************************************************************)
EXTENDS Framing, SequenceTheorems, TLAPS

-----------------------------------------------------------------------------
(* The inductive invariant *)

\* The bytes of packet k, if payloads have the sizes z; the bytes begun.
Size(z, k) == HeaderSize + z[k]
Begun(z) == (1 .. Len(z)) \X (1 .. HeaderSize + MaxPayload)

\* Everything is of its type, and a byte belongs to a packet that was begun.
Types ==
  /\ sizes \in Seq(0 .. MaxPayload) /\ Len(sizes) <= MaxPackets
  /\ sending \in Seq(Begun(sizes)) /\ wire \in Seq(Begun(sizes)) /\ buf \in Seq(Begun(sizes))
  /\ Len(wire) <= SocketBuffer
  /\ whole \in Seq(1 .. Len(sizes)) /\ received \in Seq(Number \cup {Garbled})
  /\ torn \in BOOLEAN /\ up \in BOOLEAN
  /\ sender \in {"open", "closed"} /\ receiver \in {"open", "failed"}
  /\ rstate \in {"WAITING_HEADER", "WAITING_PAYLOAD"} /\ announced \in Nat
  /\ connections \in 1 .. MaxConnections

\* The bytes s begin with the header of one packet.
Genuine(s) == \A i \in 1 .. HeaderSize : s[i] = <<s[1][1], i>>

\* A header announces a payload of size n; one that is whole, the payload's own.
Announces(z, s, n) == n \in 0 .. MaxPayload /\ (Genuine(s) => n = z[s[1][1]])

\* The receive buffer holds less than it waits for.
Buffered ==
  /\ rstate = "WAITING_HEADER" => Len(buf) < HeaderSize
  /\ rstate = "WAITING_PAYLOAD" => /\ HeaderSize <= Len(buf) /\ Len(buf) < HeaderSize + announced
                                   /\ Announces(sizes, buf, announced)

\* The len bytes s are packet k, of size bytes, from byte j on, and unless it is
\* the last one begun, all of the last one, of next bytes.
Part(s, len, k, j, size, next, last) ==
  /\ j <= size
  /\ \/ k = last /\ len = size - j + 1
     \/ k + 1 = last /\ len = size - j + 1 + next
  /\ \A i \in 1 .. len : s[i] = IF i <= size - j + 1 THEN <<k, j + i - 1>>
                                                     ELSE <<k + 1, i - (size - j + 1)>>

\* What is left to write is the rest of one packet, or of a pair.
Sends(z, s) == Part(s, Len(s), s[1][1], s[1][2], Size(z, s[1][1]), Size(z, s[1][1] + 1), Len(z))

InProgress == sending # <<>> => sender = "open" /\ Sends(sizes, sending)

\* What is received is what was sent whole.
InOrder == /\ \A i \in 1 .. Len(received) : i <= Len(whole) => received[i] = whole[i]
           /\ ~torn => Len(received) <= Len(whole)

\* The packets w, of which r are received, end at off[1], off[2] and so on of the
\* stream, counted from its beginning; those not received are in the bytes u.
Laid(z, w, r, u, off) ==
  /\ \A i \in 0 .. Len(w) : off[i] \in Nat
  /\ \A i \in 1 .. Len(w) : off[i] = off[i - 1] + Size(z, w[i])
  /\ \A i, j \in 0 .. Len(w) : i <= j => off[i] <= off[j]
  /\ \A i \in r + 1 .. Len(w) : \A j \in 1 .. Size(z, w[i]) :
       /\ off[i - 1] - off[r] + j <= Len(u)
       /\ u[off[i - 1] - off[r] + j] = <<w[i], j>>

\* After them come the first n bytes of packet k, and nothing else.
Ends(w, r, u, off, k, n) ==
  /\ Len(u) = off[Len(w)] - off[r] + n
  /\ \A j \in 1 .. n : u[off[Len(w)] - off[r] + j] = <<k, j>>

\* The bytes of the packet in progress that are written.
Cut(s) == IF s = <<>> THEN 0 ELSE s[1][2] - 1

\* The bytes written and not yet handed to the handlers.
Unread == buf \o wire

\* The packets lie somewhere in them, and until something is torn nothing else does
\* but the first n bytes of packet k.
Holds(z, w, r, u) == \E off : Laid(z, w, r, u, off)
Fits(z, w, r, u, k, n) == \E off : Laid(z, w, r, u, off) /\ Ends(w, r, u, off, k, n)

Stream ==
  up /\ receiver = "open" =>
    /\ Holds(sizes, whole, Len(received), Unread)
    /\ ~torn => Fits(sizes, whole, Len(received), Unread, FirstIn(sending), Cut(sending))

IInv == Types /\ Buffered /\ InProgress /\ InOrder /\ Stream /\ LastWordsHeard

-----------------------------------------------------------------------------
(* The stream of bytes *)

\* Byte j after an offset b, counted from an earlier offset a.
LEMMA CountedFrom ==
  ASSUME NEW a \in Nat, NEW b \in Nat, NEW j \in Nat, NEW l \in Nat,
         a <= b, j >= 1, b - a + j <= l
  PROVE  b - a + j \in 1 .. l
OBVIOUS

\* The offset b is n bytes after a, and c is not before b.
LEMMA CountedAfter ==
  ASSUME NEW a \in Nat, NEW b \in Nat, NEW c \in Nat, NEW n \in Nat, b = a + n, b <= c
  PROVE  c - b \in Nat /\ c - a = n + (c - b)
OBVIOUS

\* A header has a byte at least.
LEMMA Headers == HeaderSize \in Nat /\ HeaderSize >= 1 /\ MaxPayload \in Nat
<1>1. HeaderSize \in Nat \ {0} /\ MaxPayload \in Nat
  BY FramingAssumption
<1> QED
  BY <1>1

\* A packet has a header at least.
LEMMA Sizes ==
  ASSUME NEW z \in Seq(0 .. MaxPayload), NEW k \in 1 .. Len(z)
  PROVE  z[k] \in 0 .. MaxPayload /\ Size(z, k) \in Nat /\ Size(z, k) >= HeaderSize
<1>1. z[k] \in 0 .. MaxPayload
  BY ElementOfSeq
<1> DEFINE payload == z[k]
<1>2. payload \in Nat
  <2>1. payload \in 0 .. MaxPayload
    BY <1>1
  <2> HIDE DEF payload
  <2> QED
    BY <2>1, Headers
<1>3. Size(z, k) = HeaderSize + payload
  BY DEF Size
<1> HIDE DEF payload
<1>4. HeaderSize + payload \in Nat /\ HeaderSize + payload >= HeaderSize
  BY <1>2, Headers
<1> QED
  BY <1>1, <1>3, <1>4

\* More of the packet in progress is written.
LEMMA Written ==
  ASSUME NEW z, NEW K, NEW w \in Seq(K), NEW r \in Nat, NEW B, NEW u \in Seq(B),
         NEW t \in Seq(B), NEW off, r <= Len(w),
         \A i \in 1 .. Len(w) : Size(z, w[i]) \in Nat, Laid(z, w, r, u, off)
  PROVE  /\ Laid(z, w, r, u \o t, off)
         /\ \A k : \A n \in Nat :
              Ends(w, r, u, off, k, n) /\ (\A i \in 1 .. Len(t) : t[i] = <<k, n + i>>) =>
                Ends(w, r, u \o t, off, k, n + Len(t))
<1> DEFINE v == u \o t
<1>1. /\ Len(u) \in Nat /\ Len(t) \in Nat /\ Len(v) = Len(u) + Len(t)
      /\ \A i \in 1 .. Len(u) : v[i] = u[i]
      /\ \A i \in 1 .. Len(t) : v[Len(u) + i] = t[i]
  <2>1. /\ Len(v) = Len(u) + Len(t) /\ Len(u) \in Nat /\ Len(t) \in Nat
        /\ \A i \in 1 .. Len(u) + Len(t) : v[i] = IF i <= Len(u) THEN u[i] ELSE t[i - Len(u)]
    BY ConcatProperties, LenProperties
  <2> HIDE DEF v
  <2>2. ASSUME NEW i \in 1 .. Len(t) PROVE v[Len(u) + i] = t[i]
    <3>1. Len(u) + i \in 1 .. Len(u) + Len(t) /\ ~(Len(u) + i <= Len(u)) /\ (Len(u) + i) - Len(u) = i
      BY <2>1
    <3> QED
      BY <2>1, <3>1
  <2> QED
    BY <2>1, <2>2
<1> HIDE DEF v
<1>2. Laid(z, w, r, v, off)
  <2>1. ASSUME NEW i \in r + 1 .. Len(w), NEW j \in 1 .. Size(z, w[i])
        PROVE  /\ off[i - 1] - off[r] + j <= Len(v)
               /\ v[off[i - 1] - off[r] + j] = <<w[i], j>>
    <3>1. /\ i - 1 \in 0 .. Len(w) /\ r \in 0 .. Len(w) /\ r <= i - 1 /\ i \in 1 .. Len(w)
      BY <2>1
    <3>2. off[r] <= off[i - 1] /\ off[r] \in Nat /\ off[i - 1] \in Nat
      BY <3>1 DEF Laid
    <3>3. /\ off[i - 1] - off[r] + j <= Len(u) /\ u[off[i - 1] - off[r] + j] = <<w[i], j>>
      BY <2>1 DEF Laid
    <3>4. Len(u) \in Nat /\ Size(z, w[i]) \in Nat
      BY <1>1, <3>1
    <3>5. off[i - 1] - off[r] + j \in 1 .. Len(u)
      <4>1. j \in Nat /\ j >= 1
        BY <2>1, <3>4
      <4> QED
        BY <3>2, <3>3, <3>4, <4>1, CountedFrom
    <3> QED
      BY <1>1, <3>3, <3>5
  <2> QED
    BY <2>1 DEF Laid
<1>3. ASSUME NEW k, NEW n \in Nat, Ends(w, r, u, off, k, n),
             \A i \in 1 .. Len(t) : t[i] = <<k, n + i>>
      PROVE  Ends(w, r, v, off, k, n + Len(t))
  <2> DEFINE at == off[Len(w)] - off[r]
  <2>1. at \in Nat
    BY DEF Laid
  <2>2. Len(u) = at + n /\ \A j \in 1 .. n : u[at + j] = <<k, j>>
    BY <1>3 DEF Ends
  <2> HIDE DEF at
  <2>3. ASSUME NEW j \in 1 .. n + Len(t) PROVE v[at + j] = <<k, j>>
    <3>1. CASE j <= n
      <4>1. at + j \in 1 .. Len(u) /\ j \in 1 .. n
        BY <2>1, <2>2, <3>1
      <4> QED
        BY <1>1, <2>2, <4>1
    <3>2. CASE j > n
      <4>1. j - n \in 1 .. Len(t) /\ at + j = Len(u) + (j - n) /\ n + (j - n) = j
        BY <1>1, <2>1, <2>2, <3>2
      <4> QED
        BY <1>1, <1>3, <4>1
    <3> QED
      BY <3>1, <3>2
  <2>4. Len(v) = at + (n + Len(t))
    BY <1>1, <2>1, <2>2
  <2> QED
    BY <2>3, <2>4 DEF Ends, at
<1> QED
  BY <1>2, <1>3 DEF v

\* Its last byte is written.
LEMMA Completed ==
  ASSUME NEW z, NEW r \in Nat, NEW B, NEW u \in Seq(B), NEW K, NEW w \in Seq(K), NEW k \in K,
         NEW off, r <= Len(w), Size(z, k) \in Nat,
         Laid(z, w, r, u, off), Ends(w, r, u, off, k, Size(z, k))
  PROVE  \E end : /\ Laid(z, Append(w, k), r, u, end)
                  /\ \A l : Ends(Append(w, k), r, u, end, l, 0)
<1> DEFINE v   == Append(w, k)
           len == Len(w)
           end == [i \in 0 .. len + 1 |-> IF i = len + 1 THEN off[len] + Size(z, k) ELSE off[i]]
<1>1. /\ len \in Nat /\ Len(v) = len + 1 /\ v[len + 1] = k
      /\ \A i \in 1 .. len : v[i] = w[i]
  BY AppendProperties, LenProperties
<1>2. /\ end[len + 1] = off[len] + Size(z, k) /\ end[len + 1] \in Nat
      /\ \A i \in 0 .. len : end[i] = off[i] /\ off[i] \in Nat
  <2>1. \A i \in 0 .. len : off[i] \in Nat
    BY DEF Laid
  <2>2. len \in 0 .. len /\ len + 1 \in 0 .. len + 1 /\ \A i \in 0 .. len : i \in 0 .. len + 1 /\ i # len + 1
    BY <1>1
  <2>3. end[len + 1] = off[len] + Size(z, k) /\ \A i \in 0 .. len : end[i] = off[i]
    BY <2>2
  <2> QED
    BY <2>1, <2>2, <2>3
<1> HIDE DEF v, len, end
<1>3. r \in 0 .. len /\ len \in 0 .. len /\ off[r] <= off[len]
  BY <1>1 DEF Laid, len
<1>4. Len(u) = off[len] - off[r] + Size(z, k)
      /\ \A j \in 1 .. Size(z, k) : u[off[len] - off[r] + j] = <<k, j>>
  BY DEF Ends, len
<1>5. ASSUME NEW i \in 1 .. len + 1 PROVE end[i] = end[i - 1] + Size(z, v[i])
  <2>1. CASE i = len + 1
    BY <1>1, <1>2, <2>1
  <2>2. CASE i # len + 1
    <3>1. i \in 1 .. len /\ i \in 0 .. len /\ i - 1 \in 0 .. len
      BY <1>1, <2>2
    <3>2. off[i] = off[i - 1] + Size(z, w[i])
      BY <3>1 DEF Laid, len
    <3> QED
      BY <1>1, <1>2, <3>1, <3>2
  <2> QED
    BY <2>1, <2>2
<1>6. ASSUME NEW i \in 0 .. len + 1, NEW j \in 0 .. len + 1, i <= j PROVE end[i] <= end[j]
  <2>1. CASE j = len + 1 /\ i = len + 1
    BY <1>1, <1>2, <2>1
  <2>2. CASE j = len + 1 /\ i # len + 1
    <3>1. i \in 0 .. len /\ i <= len
      BY <1>1, <2>2
    <3>2. off[i] <= off[len]
      BY <1>3, <3>1 DEF Laid, len
    <3> QED
      BY <1>2, <1>3, <2>2, <3>1, <3>2
  <2>3. CASE j # len + 1
    <3>1. i \in 0 .. len /\ j \in 0 .. len
      BY <1>1, <1>6, <2>3
    <3>2. off[i] <= off[j]
      BY <1>6, <3>1 DEF Laid, len
    <3> QED
      BY <1>2, <3>1, <3>2
  <2> QED
    BY <2>1, <2>2, <2>3
<1>7. ASSUME NEW i \in r + 1 .. len + 1, NEW j \in 1 .. Size(z, v[i])
      PROVE  end[i - 1] - end[r] + j <= Len(u) /\ u[end[i - 1] - end[r] + j] = <<v[i], j>>
  <2>1. CASE i = len + 1
    <3>1. j \in 1 .. Size(z, k) /\ end[i - 1] = off[len] /\ end[r] = off[r] /\ v[i] = k
      BY <1>1, <1>2, <1>3, <2>1
    <3>2. off[len] \in Nat /\ off[r] \in Nat
      BY <1>2, <1>3
    <3>3. u[off[len] - off[r] + j] = <<k, j>>
      BY <1>4, <3>1
    <3>4. j \in Nat /\ j <= Size(z, k) /\ Size(z, k) \in Nat
      BY <3>1
    <3>5. off[len] - off[r] + j <= off[len] - off[r] + Size(z, k)
      BY <3>2, <3>4
    <3>6. off[len] - off[r] + j <= Len(u)
      BY <1>4, <3>5
    <3> QED
      BY <3>1, <3>3, <3>6
  <2>2. CASE i # len + 1
    <3>1. i \in r + 1 .. len /\ i \in 1 .. len /\ i - 1 \in 0 .. len
      BY <1>1, <2>2
    <3>2. end[i - 1] = off[i - 1] /\ end[r] = off[r] /\ v[i] = w[i]
      BY <1>1, <1>2, <1>3, <3>1
    <3>3. off[i - 1] - off[r] + j <= Len(u) /\ u[off[i - 1] - off[r] + j] = <<w[i], j>>
      BY <3>1, <3>2 DEF Laid, len
    <3> QED
      BY <3>2, <3>3
  <2> QED
    BY <2>1, <2>2
<1>8. Laid(z, v, r, u, end)
  <2>1. \A i \in 0 .. len + 1 : end[i] \in Nat
    BY <1>1, <1>2
  <2> QED
    BY <1>1, <1>5, <1>6, <1>7, <2>1 DEF Laid
<1>9. ASSUME NEW l PROVE Ends(v, r, u, end, l, 0)
  <2>1. /\ Len(v) = len + 1 /\ end[len + 1] = off[len] + Size(z, k) /\ end[r] = off[r]
        /\ off[len] \in Nat /\ off[r] \in Nat
    BY <1>1, <1>2, <1>3
  <2>2. Len(u) = off[len] - off[r] + Size(z, k)
    BY <1>4
  <2>3. end[Len(v)] - end[r] + 0 = Len(u)
    BY <2>1, <2>2
  <2> QED
    BY <2>3 DEF Ends
<1> QED
  BY <1>8, <1>9 DEF v

\* The first packet of the bytes u is taken away; left is what is after it.
LEMMA Taken ==
  ASSUME NEW z, NEW r \in Nat, NEW B, NEW s \in Seq(B), NEW left \in Seq(B),
         NEW K, NEW w \in Seq(K), NEW off, r < Len(w),
         \A i \in 1 .. Len(w) : Size(z, w[i]) \in Nat,
         Laid(z, w, r, s \o left, off), Len(s) = Size(z, w[r + 1])
  PROVE  /\ Laid(z, w, r + 1, left, off)
         /\ \A k : \A n \in Nat : Ends(w, r, s \o left, off, k, n) =>
                                    Ends(w, r + 1, left, off, k, n)
<1> DEFINE u == s \o left
<1>1. /\ Len(s) \in Nat /\ Len(left) \in Nat /\ Len(u) = Len(s) + Len(left)
      /\ \A i \in 1 .. Len(left) : u[Len(s) + i] = left[i]
  <2>1. /\ Len(u) = Len(s) + Len(left) /\ Len(s) \in Nat /\ Len(left) \in Nat
        /\ \A i \in 1 .. Len(s) + Len(left) : u[i] = IF i <= Len(s) THEN s[i] ELSE left[i - Len(s)]
    BY ConcatProperties, LenProperties
  <2> HIDE DEF u
  <2>2. ASSUME NEW i \in 1 .. Len(left) PROVE u[Len(s) + i] = left[i]
    <3>1. Len(s) + i \in 1 .. Len(s) + Len(left) /\ ~(Len(s) + i <= Len(s)) /\ (Len(s) + i) - Len(s) = i
      BY <2>1
    <3> QED
      BY <2>1, <3>1
  <2> QED
    BY <2>1, <2>2
<1>2. r + 1 \in 1 .. Len(w) /\ r + 1 \in 0 .. Len(w) /\ (r + 1) - 1 = r
  OBVIOUS
<1>3. off[r + 1] = off[r] + Len(s) /\ off[r] \in Nat /\ off[r + 1] \in Nat
  BY <1>2 DEF Laid
<1> HIDE DEF u
<1>4. ASSUME NEW i \in r + 2 .. Len(w), NEW j \in 1 .. Size(z, w[i])
      PROVE  /\ off[i - 1] - off[r + 1] + j <= Len(left)
             /\ left[off[i - 1] - off[r + 1] + j] = <<w[i], j>>
  <2>1. i \in r + 1 .. Len(w) /\ i - 1 \in 0 .. Len(w) /\ r + 1 <= i - 1
    BY <1>4
  <2>2. off[r + 1] <= off[i - 1] /\ off[i - 1] \in Nat
    BY <1>2, <2>1 DEF Laid
  <2>3. off[i - 1] - off[r] + j <= Len(u) /\ u[off[i - 1] - off[r] + j] = <<w[i], j>>
    BY <2>1 DEF Laid, u
  <2>4. i \in 1 .. Len(w)
    BY <1>4
  <2>5. Size(z, w[i]) \in Nat /\ Len(s) \in Nat /\ Len(left) \in Nat /\ Len(u) = Len(s) + Len(left)
    BY <1>1, <2>4
  <2> DEFINE at == off[i - 1] - off[r + 1] + j
  <2>6. at \in Nat /\ at >= 1 /\ Len(s) + at = off[i - 1] - off[r] + j
    <3> DEFINE a == off[r]
               b == off[r + 1]
               c == off[i - 1]
               n == Len(s)
    <3>1. /\ j \in Nat /\ j >= 1 /\ n \in Nat /\ a \in Nat /\ b \in Nat /\ c \in Nat
          /\ b = a + n /\ b <= c
      BY <1>3, <2>2, <2>5
    <3> HIDE DEF a, b, c, n
    <3>2. c - b + j \in Nat /\ c - b + j >= 1 /\ n + (c - b + j) = c - a + j
      BY <3>1
    <3> QED
      BY <3>2 DEF a, b, c, n
  <2> HIDE DEF at
  <2>7. at \in 1 .. Len(left)
    <3>1. Len(s) + at <= Len(s) + Len(left)
      BY <2>3, <2>5, <2>6
    <3>2. at \in Nat /\ at >= 1 /\ Len(s) \in Nat /\ Len(left) \in Nat
      BY <2>5, <2>6
    <3> DEFINE n == Len(s)
               m == Len(left)
    <3>3. n + at <= n + m /\ n \in Nat /\ m \in Nat
      BY <3>1, <3>2
    <3> HIDE DEF n, m
    <3>4. at <= m
      BY <3>2, <3>3
    <3> QED
      BY <3>2, <3>3, <3>4 DEF m
  <2>8. left[at] = u[Len(s) + at]
    BY <1>1, <2>7
  <2>9. at <= Len(left) /\ left[at] = <<w[i], j>>
    <3>1. at <= Len(left)
      BY <2>5, <2>7
    <3> QED
      BY <2>3, <2>6, <2>8, <3>1
  <2> QED
    BY <2>9 DEF at
<1>5. ASSUME NEW k, NEW n \in Nat, Ends(w, r, u, off, k, n)
      PROVE  Ends(w, r + 1, left, off, k, n)
  <2> DEFINE at == off[Len(w)] - off[r + 1]
  <2>1. off[Len(w)] \in Nat /\ off[r + 1] <= off[Len(w)]
    BY <1>2 DEF Laid
  <2>2. at \in Nat /\ off[Len(w)] - off[r] = Len(s) + at
    <3>1. Len(s) \in Nat /\ off[r] \in Nat /\ off[r + 1] \in Nat /\ off[r + 1] = off[r] + Len(s)
      BY <1>1, <1>3
    <3> QED
      BY <2>1, <3>1, CountedAfter
  <2>3. Len(u) = Len(s) + at + n /\ \A j \in 1 .. n : u[Len(s) + at + j] = <<k, j>>
    BY <1>5, <2>2 DEF Ends
  <2> HIDE DEF at
  <2>4. Len(left) = at + n
    BY <1>1, <2>2, <2>3
  <2>5. ASSUME NEW j \in 1 .. n PROVE left[at + j] = <<k, j>>
    <3>1. at \in Nat /\ Len(s) \in Nat /\ j \in Nat /\ j >= 1 /\ j <= n
      BY <1>1, <2>2
    <3>2. at + j \in 1 .. at + n /\ Len(s) + (at + j) = Len(s) + at + j
      BY <3>1
    <3>3. left[at + j] = u[Len(s) + (at + j)]
      BY <1>1, <2>4, <3>2
    <3>4. u[Len(s) + at + j] = <<k, j>>
      BY <2>3
    <3> QED
      BY <3>2, <3>3, <3>4
  <2> QED
    BY <2>4, <2>5 DEF Ends, at
<1>6. Laid(z, w, r + 1, left, off)
  <2>1. (r + 1) + 1 = r + 2
    OBVIOUS
  <2> QED
    BY <1>4, <2>1 DEF Laid
<1> QED
  BY <1>5, <1>6 DEF u

LEMMA SizesOf ==
  ASSUME NEW z \in Seq(0 .. MaxPayload), NEW w \in Seq(1 .. Len(z))
  PROVE  \A i \in 1 .. Len(w) :
           w[i] \in 1 .. Len(z) /\ Size(z, w[i]) \in Nat /\ Size(z, w[i]) >= HeaderSize
<1>1. ASSUME NEW i \in 1 .. Len(w) PROVE w[i] \in 1 .. Len(z)
  BY ElementOfSeq
<1>2. ASSUME NEW i \in 1 .. Len(w) PROVE Size(z, w[i]) \in Nat /\ Size(z, w[i]) >= HeaderSize
  BY <1>1, Sizes
<1> QED
  BY <1>1, <1>2

\* Of packets received already nothing need be left.
LEMMA Exhausted ==
  ASSUME NEW z, NEW w, NEW r \in Nat, NEW u, NEW off, NEW r2 \in Nat, NEW v,
         Len(w) \in Nat, r2 >= Len(w), Laid(z, w, r, u, off)
  PROVE  Holds(z, w, r2, v)
<1>1. ~(\E i : i \in r2 + 1 .. Len(w))
  OBVIOUS
<1>2. Laid(z, w, r2, v, off)
  BY <1>1 DEF Laid
<1> QED
  BY <1>2 DEF Holds

\* More bytes after the stream leave its packets where they are.
LEMMA MoreHeld ==
  ASSUME NEW z \in Seq(0 .. MaxPayload), NEW w \in Seq(1 .. Len(z)), NEW r \in Nat, NEW B,
         NEW u \in Seq(B), NEW t \in Seq(B), Holds(z, w, r, u)
  PROVE  Holds(z, w, r, u \o t)
<1>1. PICK off : Laid(z, w, r, u, off)
  BY DEF Holds
<1>2. \A i \in 1 .. Len(w) : Size(z, w[i]) \in Nat
  BY SizesOf
<1>3. CASE r <= Len(w)
  <2>1. Laid(z, w, r, u \o t, off)
    BY <1>1, <1>2, <1>3, Written
  <2> QED
    BY <2>1 DEF Holds
<1>4. CASE ~(r <= Len(w))
  <2>1. Len(w) \in Nat
    BY LenProperties
  <2>2. r >= Len(w)
    BY <1>4, <2>1
  <2> QED
    BY <1>1, <2>1, <2>2, Exhausted
<1> QED
  BY <1>3, <1>4

LEMMA MoreWritten ==
  ASSUME NEW z \in Seq(0 .. MaxPayload), NEW w \in Seq(1 .. Len(z)), NEW r \in Nat, r <= Len(w),
         NEW B, NEW u \in Seq(B), NEW t \in Seq(B), NEW k, NEW n \in Nat,
         Fits(z, w, r, u, k, n), \A i \in 1 .. Len(t) : t[i] = <<k, n + i>>
  PROVE  Fits(z, w, r, u \o t, k, n + Len(t))
<1>1. PICK off : Laid(z, w, r, u, off) /\ Ends(w, r, u, off, k, n)
  BY DEF Fits
<1>2. \A i \in 1 .. Len(w) : Size(z, w[i]) \in Nat
  BY SizesOf
<1>3. /\ Laid(z, w, r, u \o t, off)
      /\ Ends(w, r, u \o t, off, k, n + Len(t))
  BY <1>1, <1>2, Written
<1> QED
  BY <1>3 DEF Fits

\* Of the packet in progress, all is written.
LEMMA LastWritten ==
  ASSUME NEW z \in Seq(0 .. MaxPayload), NEW w \in Seq(1 .. Len(z)), NEW r \in Nat, r <= Len(w),
         NEW B, NEW u \in Seq(B), NEW k \in 1 .. Len(z), Fits(z, w, r, u, k, Size(z, k)), NEW l
  PROVE  Fits(z, Append(w, k), r, u, l, 0)
<1>1. PICK off : Laid(z, w, r, u, off) /\ Ends(w, r, u, off, k, Size(z, k))
  BY DEF Fits
<1>2. Size(z, k) \in Nat
  BY Sizes
<1>3. PICK end : /\ Laid(z, Append(w, k), r, u, end)
                 /\ \A m : Ends(Append(w, k), r, u, end, m, 0)
  BY <1>1, <1>2, Completed
<1> QED
  BY <1>3 DEF Fits

\* Nothing begun is as good as nothing written of another packet.
LEMMA NoneBegun ==
  ASSUME NEW z, NEW w, NEW r, NEW u, NEW k, NEW l, Fits(z, w, r, u, k, 0)
  PROVE  Fits(z, w, r, u, l, 0)
  BY DEF Fits, Ends

\* The weaker of the two follows from the stronger.
LEMMA FitsHolds ==
  ASSUME NEW z, NEW w, NEW r, NEW u, NEW k, NEW n, Fits(z, w, r, u, k, n)
  PROVE  Holds(z, w, r, u)
  BY DEF Fits, Holds

\* The first packet is handed over.
LEMMA FirstTaken ==
  ASSUME NEW z \in Seq(0 .. MaxPayload), NEW w \in Seq(1 .. Len(z)), NEW r \in Nat, NEW B,
         NEW s \in Seq(B), NEW left \in Seq(B), r < Len(w), Len(s) = Size(z, w[r + 1])
  PROVE  /\ Holds(z, w, r, s \o left) => Holds(z, w, r + 1, left)
         /\ \A k : \A n \in Nat : Fits(z, w, r, s \o left, k, n) => Fits(z, w, r + 1, left, k, n)
<1>1. \A i \in 1 .. Len(w) : Size(z, w[i]) \in Nat
  BY SizesOf
<1>2. ASSUME NEW off, Laid(z, w, r, s \o left, off)
      PROVE  /\ Laid(z, w, r + 1, left, off)
             /\ \A k : \A n \in Nat : Ends(w, r, s \o left, off, k, n) =>
                                        Ends(w, r + 1, left, off, k, n)
  BY <1>1, <1>2, Taken
<1>3. Holds(z, w, r, s \o left) => Holds(z, w, r + 1, left)
  BY <1>2 DEF Holds
<1>4. ASSUME NEW k, NEW n \in Nat, Fits(z, w, r, s \o left, k, n)
      PROVE  Fits(z, w, r + 1, left, k, n)
  BY <1>2, <1>4 DEF Fits
<1> QED
  BY <1>3, <1>4

\* Another packet is begun.
LEMMA Extended ==
  ASSUME NEW z \in Seq(0 .. MaxPayload), NEW y, NEW w \in Seq(1 .. Len(z)), NEW r \in Nat, NEW u,
         \A k \in 1 .. Len(z) : y[k] = z[k]
  PROVE  /\ Holds(z, w, r, u) => Holds(y, w, r, u)
         /\ \A k, n : Fits(z, w, r, u, k, n) => Fits(y, w, r, u, k, n)
<1>1. \A i \in 1 .. Len(w) : Size(y, w[i]) = Size(z, w[i])
  BY SizesOf DEF Size
<1>2. ASSUME NEW off, Laid(z, w, r, u, off) PROVE Laid(y, w, r, u, off)
  <2>1. \A i \in 1 .. Len(w) : off[i] = off[i - 1] + Size(y, w[i])
    BY <1>1, <1>2 DEF Laid
  <2>2. ASSUME NEW i \in r + 1 .. Len(w), NEW j \in 1 .. Size(y, w[i])
        PROVE  off[i - 1] - off[r] + j <= Len(u) /\ u[off[i - 1] - off[r] + j] = <<w[i], j>>
    <3>1. i \in 1 .. Len(w)
      BY <2>2
    <3>2. j \in 1 .. Size(z, w[i])
      BY <1>1, <2>2, <3>1
    <3> QED
      BY <1>2, <2>2, <3>2 DEF Laid
  <2> QED
    BY <1>2, <2>1, <2>2 DEF Laid
<1> QED
  BY <1>2 DEF Holds, Fits

-----------------------------------------------------------------------------
(* Sending *)

\* The bytes of one packet.
LEMMA PacketBytes ==
  ASSUME NEW k \in Nat, NEW n \in 0 .. MaxPayload
  PROVE  /\ BytesOf(k, n) \in Seq({k} \X (1 .. HeaderSize + MaxPayload))
         /\ Len(BytesOf(k, n)) = HeaderSize + n /\ HeaderSize + n \in Nat
         /\ \A i \in 1 .. HeaderSize + n : BytesOf(k, n)[i] = <<k, i>>
<1>1. HeaderSize \in Nat /\ MaxPayload \in Nat /\ n \in Nat /\ n <= MaxPayload
  BY FramingAssumption
<1>2. \A i \in 1 .. HeaderSize + n : <<k, i>> \in {k} \X (1 .. HeaderSize + MaxPayload)
  BY <1>1
<1> QED
  BY <1>1, <1>2 DEF BytesOf

\* The bytes of a packet of size bytes from its byte j on.
Left(size, j) == size - j + 1

\* The bytes s are those of packet k from its byte j on, and all of the next one's
\* if that was begun.
Parts(z, s, k, j) ==
  /\ s[1] = <<k, j>> /\ k \in 1 .. Len(z) /\ k \in Nat /\ j \in 1 .. Size(z, k) /\ j \in Nat
  /\ Size(z, k) \in Nat /\ Left(Size(z, k), j) \in 1 .. Size(z, k)
  /\ Len(s) \in Nat /\ Len(z) \in Nat
  /\ \/ k = Len(z) /\ Len(s) = Left(Size(z, k), j)
     \/ /\ k + 1 = Len(z) /\ Len(s) = Left(Size(z, k), j) + Size(z, k + 1)
        /\ k + 1 \in 1 .. Len(z) /\ Size(z, k + 1) \in Nat
  /\ \A i \in 1 .. Len(s) : s[i] = IF i <= Left(Size(z, k), j)
                                   THEN <<k, j + i - 1>> ELSE <<k + 1, i - Left(Size(z, k), j)>>

LEMMA SendsParts ==
  ASSUME NEW z \in Seq(0 .. MaxPayload), NEW s \in Seq(Begun(z)), s # <<>>, Sends(z, s)
  PROVE  Parts(z, s, s[1][1], s[1][2])
<1> DEFINE k == s[1][1]
           j == s[1][2]
           m == Size(z, k) - j + 1
<1>1. s[1] \in Begun(z) /\ Len(s) \in Nat /\ Len(z) \in Nat
  <2>1. Len(s) \in Nat \ {0} /\ Len(z) \in Nat
    BY EmptySeq, LenProperties
  <2>2. 1 \in 1 .. Len(s)
    BY <2>1
  <2> QED
    BY <2>1, <2>2, ElementOfSeq
<1>2. HeaderSize \in Nat /\ MaxPayload \in Nat
  BY FramingAssumption
<1>3. s[1] = <<k, j>> /\ k \in 1 .. Len(z) /\ j \in 1 .. HeaderSize + MaxPayload
  BY <1>1 DEF Begun
<1>4. Size(z, k) \in Nat /\ k \in Nat /\ j \in Nat /\ j >= 1
  BY <1>1, <1>2, <1>3, Sizes
<1>5. j <= Size(z, k)
  BY DEF Sends, Part
<1>6. j \in 1 .. Size(z, k) /\ m \in 1 .. Size(z, k)
  BY <1>4, <1>5
<1>7. \/ k = Len(z) /\ Len(s) = m
      \/ k + 1 = Len(z) /\ Len(s) = m + Size(z, k + 1)
  BY DEF Sends, Part
<1>8. \A i \in 1 .. Len(s) : s[i] = IF i <= m THEN <<k, j + i - 1>> ELSE <<k + 1, i - m>>
  BY DEF Sends, Part
<1>9. k + 1 = Len(z) => k + 1 \in 1 .. Len(z) /\ Size(z, k + 1) \in Nat
  <2>1. k + 1 = Len(z) => k + 1 \in 1 .. Len(z)
    BY <1>1, <1>4
  <2> QED
    BY <2>1, Sizes
<1>10. Left(Size(z, k), j) = m
  BY DEF Left
<1> HIDE DEF k, j, m
<1> QED
  BY <1>1, <1>3, <1>4, <1>6, <1>7, <1>8, <1>9, <1>10 DEF Parts, k, j

\* The rest of s from its byte n + 1 on.
LEMMA RestParts ==
  ASSUME NEW B, NEW s \in Seq(B), NEW n \in 1 .. Len(s)
  PROVE  /\ SubSeq(s, n + 1, Len(s)) \in Seq(B) /\ SubSeq(s, 1, n) \in Seq(B)
         /\ Len(SubSeq(s, n + 1, Len(s))) = Len(s) - n /\ Len(SubSeq(s, 1, n)) = n
         /\ \A i \in 1 .. Len(s) - n : SubSeq(s, n + 1, Len(s))[i] = s[n + i]
         /\ \A i \in 1 .. n : SubSeq(s, 1, n)[i] = s[i]
         /\ SubSeq(s, 1, n) \o SubSeq(s, n + 1, Len(s)) = s
<1> DEFINE rest == SubSeq(s, n + 1, Len(s))
           head == SubSeq(s, 1, n)
           len == Len(s)
<1>1. len \in Nat /\ n \in 1 .. len
  BY LenProperties
<1>2. \A i \in 1 .. len : s[i] \in B
  BY ElementOfSeq
<1> HIDE DEF len
<1>3. n \in Nat /\ n \in Int /\ len \in Int /\ n + 1 \in Int /\ 1 \in Int
  BY <1>1
<1>4. /\ \A i \in n + 1 .. len : i \in 1 .. len
      /\ \A i \in 1 .. n : i \in 1 .. len
  BY <1>1
<1>5. /\ SubSeq(s, n + 1, len) \in Seq(B)
      /\ Len(SubSeq(s, n + 1, len)) = IF n + 1 <= len THEN len - (n + 1) + 1 ELSE 0
      /\ \A i \in 1 .. len - (n + 1) + 1 : SubSeq(s, n + 1, len)[i] = s[(n + 1) + i - 1]
  BY <1>2, <1>3, <1>4, SubSeqProperties
<1>6. /\ head \in Seq(B)
      /\ Len(head) = IF 1 <= n THEN n - 1 + 1 ELSE 0
      /\ \A i \in 1 .. n - 1 + 1 : head[i] = s[1 + i - 1]
  BY <1>2, <1>3, <1>4, SubSeqProperties
<1>7. head \o SubSeq(s, n + 1, len) = s
  <2>1. 1 \in 1 .. Len(s) + 1 /\ n \in 1 - 1 .. Len(s) /\ Len(s) \in n .. Len(s)
    BY <1>1 DEF len
  <2>2. SubSeq(s, 1, n) \o SubSeq(s, n + 1, Len(s)) = SubSeq(s, 1, Len(s))
    BY <2>1, ConcatAdjacentSubSeq
  <2> QED
    BY <2>2, SubSeqFull DEF len
<1> HIDE DEF head
<1>8. /\ (IF n + 1 <= len THEN len - (n + 1) + 1 ELSE 0) = len - n /\ len - (n + 1) + 1 = len - n
      /\ (IF 1 <= n THEN n - 1 + 1 ELSE 0) = n /\ n - 1 + 1 = n
      /\ \A i \in 1 .. len - n : (n + 1) + i - 1 = n + i
      /\ \A i \in 1 .. n : 1 + i - 1 = i
  BY <1>1
<1> QED
  BY <1>5, <1>6, <1>7, <1>8 DEF len, head

\* rest is what is after the first n of the len bytes s.
Dropped(rest, s, n, len) == \A i \in 1 .. len - n : rest[i] = s[n + i]

\* rest is what n bytes leave of the part: a part of the same packet, or of the
\* other one of a pair.
Remains(rest, k, j, size, next, last, n, len) ==
  /\ n < Left(size, j) =>
       /\ len - n > 0 /\ rest[1] = <<k, j + n>>
       /\ Part(rest, len - n, k, j + n, size, next, last)
  /\ Left(size, j) <= n /\ n < len =>
       /\ len - n > 0 /\ rest[1] = <<k + 1, n - Left(size, j) + 1>> /\ k + 1 = last
       /\ \A after : Part(rest, len - n, k + 1, n - Left(size, j) + 1, next, after, last)

LEMMA RestPart ==
  ASSUME NEW s, NEW rest, NEW k \in Nat, NEW size \in Nat, NEW j \in 1 .. size,
         NEW len \in Nat, NEW n \in 1 .. len, NEW last \in Nat, NEW next,
         k + 1 = last => next \in Nat,
         Part(s, len, k, j, size, next, last), Dropped(rest, s, n, len)
  PROVE  Remains(rest, k, j, size, next, last, n, len)
<1> DEFINE m == Left(size, j)
<1>0. m = size - j + 1
  BY DEF Left
<1> HIDE DEF m
<1>1. m \in Nat /\ j \in Nat /\ n \in Nat /\ m >= 1 /\ n >= 1
  BY <1>0
<1>2. (k = last /\ len = m) \/ (k + 1 = last /\ len = m + next /\ next \in Nat)
  BY <1>0 DEF Part
<1>3. \A i \in 1 .. len : s[i] = IF i <= m THEN <<k, j + i - 1>> ELSE <<k + 1, i - m>>
  BY <1>0 DEF Part
<1>4. ASSUME NEW i \in 1 .. len - n
      PROVE  rest[i] = IF n + i <= m THEN <<k, j + (n + i) - 1>> ELSE <<k + 1, (n + i) - m>>
  <2>1. n + i \in 1 .. len
    BY <1>1
  <2>2. rest[i] = s[n + i]
    BY DEF Dropped
  <2> QED
    BY <1>3, <2>1, <2>2
<1>5. ASSUME n < m
      PROVE  /\ len - n > 0 /\ rest[1] = <<k, j + n>>
             /\ Part(rest, len - n, k, j + n, size, next, last)
  <2>1. len - n > 0 /\ 1 \in 1 .. len - n /\ n + 1 <= m /\ j + (n + 1) - 1 = j + n
    BY <1>1, <1>2, <1>5
  <2>2. rest[1] = <<k, j + n>>
    BY <1>4, <2>1
  <2>3. j + n <= size /\ size - (j + n) + 1 = m - n
    BY <1>0, <1>1, <1>5
  <2>4. \/ k = last /\ len - n = m - n
        \/ k + 1 = last /\ len - n = m - n + next
    <3>1. CASE k = last /\ len = m
      BY <3>1
    <3>2. CASE k + 1 = last /\ len = m + next /\ next \in Nat
      BY <1>1, <3>2
    <3> QED
      BY <1>2, <3>1, <3>2
  <2>5. ASSUME NEW i \in 1 .. len - n
        PROVE  rest[i] = IF i <= m - n THEN <<k, (j + n) + i - 1>> ELSE <<k + 1, i - (m - n)>>
    <3>1. /\ (n + i <= m) = (i <= m - n) /\ j + (n + i) - 1 = (j + n) + i - 1
          /\ (n + i) - m = i - (m - n)
      BY <1>1
    <3> QED
      BY <1>4, <3>1
  <2> QED
    BY <2>1, <2>2, <2>3, <2>4, <2>5 DEF Part
<1>6. ASSUME m <= n, n < len
      PROVE  /\ len - n > 0 /\ rest[1] = <<k + 1, n - m + 1>> /\ k + 1 = last
             /\ \A after : Part(rest, len - n, k + 1, n - m + 1, next, after, last)
  <2>1. k + 1 = last /\ len = m + next /\ next \in Nat
    BY <1>1, <1>2, <1>6
  <2>2. /\ len - n > 0 /\ 1 \in 1 .. len - n /\ n - m + 1 <= next
        /\ next - (n - m + 1) + 1 = len - n /\ ~(n + 1 <= m) /\ (n + 1) - m = n - m + 1
    BY <1>1, <1>6, <2>1
  <2>3. rest[1] = <<k + 1, n - m + 1>>
    BY <1>4, <2>2
  <2>4. ASSUME NEW i \in 1 .. len - n
        PROVE  rest[i] = IF i <= len - n THEN <<k + 1, (n - m + 1) + i - 1>>
                                         ELSE <<(k + 1) + 1, i - (len - n)>>
    <3>1. ~(n + i <= m) /\ (n + i) - m = (n - m + 1) + i - 1 /\ i <= len - n
      BY <1>1, <1>6
    <3> QED
      BY <1>4, <3>1
  <2> QED
    BY <2>1, <2>2, <2>3, <2>4 DEF Part
<1> QED
  BY <1>5, <1>6 DEF Remains, m

\* What is left to write begins with the byte it begins with.
LEMMA SendsFrom ==
  ASSUME NEW z, NEW s, NEW k, NEW j, s[1] = <<k, j>>,
         Part(s, Len(s), k, j, Size(z, k), Size(z, k + 1), Len(z))
  PROVE  Sends(z, s)
<1>1. s[1][1] = k /\ s[1][2] = j
  OBVIOUS
<1> QED
  BY <1>1 DEF Sends

\* What is left after n bytes are taken: the rest of the same packet, nothing, or
\* the rest of the other packet of a pair.
Shape(z, rest, k, j, size, n, len, last) ==
  \/ n < Left(size, j) /\ rest # <<>> /\ rest[1] = <<k, j + n>> /\ Sends(z, rest)
  \/ n = len /\ rest = <<>> /\ Left(size, j) <= n
  \/ /\ Left(size, j) <= n /\ n < len /\ k + 1 = last
     /\ rest # <<>> /\ rest[1] = <<k + 1, n - Left(size, j) + 1>> /\ Sends(z, rest)

LEMMA RestShape ==
  ASSUME NEW z, NEW s, NEW rest, NEW len \in Nat, NEW n \in 1 .. len, NEW last \in Nat,
         NEW k \in Nat, NEW size \in Nat, NEW j \in 1 .. size,
         NEW next, k + 1 = last => next \in Nat,
         Part(s, len, k, j, size, next, last), Dropped(rest, s, n, len),
         size = Size(z, k), next = Size(z, k + 1), last = Len(z),
         Len(rest) = len - n, rest = <<>> <=> len - n = 0
  PROVE  Shape(z, rest, k, j, size, n, len, last)
<1>0. Remains(rest, k, j, size, next, last, n, len)
  BY RestPart
<1>1. /\ n < Left(size, j) => /\ len - n > 0 /\ rest[1] = <<k, j + n>>
                  /\ Part(rest, len - n, k, j + n, size, next, last)
      /\ Left(size, j) <= n /\ n < len =>
           /\ len - n > 0 /\ rest[1] = <<k + 1, n - Left(size, j) + 1>> /\ k + 1 = last
           /\ \A after : Part(rest, len - n, k + 1, n - Left(size, j) + 1, next, after, last)
  BY <1>0 DEF Remains
<1>2. Left(size, j) \in Nat /\ n \in Nat /\ n <= len
  BY DEF Left
<1>3. \/ Left(size, j) <= n /\ n < len
      \/ n = len /\ Left(size, j) <= n
      \/ n < Left(size, j)
  BY <1>2
<1>4. len - n > 0 => rest # <<>>
  <2>1. len - n > 0 => len - n # 0
    BY <1>2
  <2> QED
    BY <2>1
<1>5. CASE n < Left(size, j)
  <2>1. Sends(z, rest)
    BY <1>1, <1>5, SendsFrom
  <2> QED
    BY <1>1, <1>4, <1>5, <2>1 DEF Shape
<1>6. CASE n = len /\ Left(size, j) <= n
  <2>1. len - n = 0
    BY <1>6
  <2> QED
    BY <1>6, <2>1 DEF Shape
<1>7. CASE Left(size, j) <= n /\ n < len
  <2>1. Part(rest, len - n, k + 1, n - Left(size, j) + 1, next, Size(z, (k + 1) + 1), last)
    BY <1>1, <1>7
  <2>2. Sends(z, rest)
    BY <1>1, <1>7, <2>1, SendsFrom
  <2> QED
    BY <1>1, <1>4, <1>7, <2>2 DEF Shape
<1> QED
  BY <1>3, <1>5, <1>6, <1>7

Regroup(u, s, t) == (u \o s) \o t = u \o (s \o t)

\* Concatenation is associative.
LEMMA Regroups ==
  ASSUME NEW B, NEW u \in Seq(B), NEW s \in Seq(B), NEW t \in Seq(B)
  PROVE  Regroup(u, s, t)
  BY ConcatAssociative DEF Regroup

\* The stream after len more bytes from byte j of packet k on.
Advances(z, w, r, v, k, j, len) ==
  /\ len < Left(Size(z, k), j) => Fits(z, w, r, v, k, j - 1 + len)
  /\ len = Left(Size(z, k), j) => Fits(z, Append(w, k), r, v, k + 1, 0)
  /\ len > Left(Size(z, k), j) => Fits(z, Append(w, k), r, v, k + 1, len - Left(Size(z, k), j))
  /\ len = Left(Size(z, k), j) + Size(z, k + 1) /\ k + 1 \in 1 .. Len(z) =>
       Fits(z, Append(Append(w, k), k + 1), r, v, k + 2, 0)

LEMMA Advanced ==
  ASSUME NEW z \in Seq(0 .. MaxPayload), NEW w \in Seq(1 .. Len(z)), NEW r \in Nat, r <= Len(w),
         NEW B, NEW u \in Seq(B), NEW t \in Seq(B), Len(t) >= 1,
         NEW k \in 1 .. Len(z), NEW j \in 1 .. Size(z, k), Fits(z, w, r, u, k, j - 1),
         \A i \in 1 .. Len(t) : t[i] = IF i <= Left(Size(z, k), j)
                                       THEN <<k, j + i - 1>> ELSE <<k + 1, i - Left(Size(z, k), j)>>
  PROVE  Advances(z, w, r, u \o t, k, j, Len(t))
<1> DEFINE m   == Left(Size(z, k), j)
           len == Len(t)
<1>1. Size(z, k) \in Nat /\ k \in Nat /\ len \in Nat /\ len >= 1
  BY Sizes, LenProperties
<1>2. m \in Nat /\ m >= 1 /\ j \in Nat /\ j - 1 \in Nat /\ j - 1 + m = Size(z, k) /\ m <= Size(z, k)
  <2> DEFINE size == Size(z, k)
  <2>1. size \in Nat /\ j \in 1 .. size /\ m = size - j + 1
    BY <1>1 DEF Left
  <2> HIDE DEF size, m
  <2>2. m \in Nat /\ m >= 1 /\ j \in Nat /\ j - 1 \in Nat /\ j - 1 + m = size /\ m <= size
    BY <2>1
  <2> QED
    BY <2>2 DEF size
<1>3. \A i \in 1 .. len : t[i] = IF i <= m THEN <<k, j + i - 1>> ELSE <<k + 1, i - m>>
  OBVIOUS
<1> HIDE DEF m, len
<1>4. ASSUME len <= m PROVE Fits(z, w, r, u \o t, k, j - 1 + len)
  <2>1. \A i \in 1 .. len : i <= m /\ j + i - 1 = j - 1 + i
    BY <1>1, <1>2, <1>4
  <2>2. \A i \in 1 .. Len(t) : t[i] = <<k, (j - 1) + i>>
    BY <1>3, <2>1 DEF len
  <2>3. Fits(z, w, r, u \o t, k, (j - 1) + Len(t))
    BY <1>2, <2>2, MoreWritten
  <2> QED
    BY <2>3 DEF len
<1>5. ASSUME len = m PROVE Fits(z, Append(w, k), r, u \o t, k + 1, 0)
  <2>1. Fits(z, w, r, u \o t, k, Size(z, k))
    BY <1>1, <1>2, <1>4, <1>5
  <2>2. u \o t \in Seq(B)
    BY ConcatProperties
  <2> QED
    BY <2>1, <2>2, LastWritten
<1>6. ASSUME len > m PROVE Fits(z, Append(w, k), r, u \o t, k + 1, len - m)
  <2> DEFINE head == SubSeq(t, 1, m)
             tail == SubSeq(t, m + 1, Len(t))
  <2>1. m \in 1 .. Len(t)
    BY <1>1, <1>2, <1>6 DEF len
  <2>2. /\ head \in Seq(B) /\ tail \in Seq(B) /\ Len(tail) = len - m /\ Len(head) = m
        /\ \A i \in 1 .. len - m : tail[i] = t[m + i]
        /\ \A i \in 1 .. m : head[i] = t[i]
        /\ head \o tail = t
    <3>1. /\ head \in Seq(B) /\ tail \in Seq(B) /\ Len(tail) = Len(t) - m /\ Len(head) = m
          /\ \A i \in 1 .. Len(t) - m : tail[i] = t[m + i]
          /\ \A i \in 1 .. m : head[i] = t[i]
          /\ head \o tail = t
      <4> HIDE DEF m
      <4> QED
        BY <2>1, RestParts
    <3> QED
      BY <3>1 DEF len
  <2> HIDE DEF head, tail
  <2>3. /\ u \o head \in Seq(B) /\ (u \o head) \o tail = u \o t
    <3>1. Regroup(u, head, tail)
      BY <2>2, Regroups
    <3>2. u \o head \in Seq(B)
      BY <2>2, ConcatProperties
    <3> QED
      BY <2>2, <3>1, <3>2 DEF Regroup
  <2>4. Fits(z, w, r, u \o head, k, Size(z, k))
    <3>1. ASSUME NEW i \in 1 .. Len(head) PROVE head[i] = <<k, (j - 1) + i>>
      <4>1. i \in 1 .. m /\ i \in 1 .. len /\ i <= m /\ j + i - 1 = (j - 1) + i
        BY <1>1, <1>2, <1>6, <2>2
      <4> QED
        BY <1>3, <2>2, <4>1
    <3>2. Fits(z, w, r, u \o head, k, (j - 1) + Len(head))
      BY <1>2, <2>2, <3>1, MoreWritten
    <3> QED
      BY <1>2, <2>2, <3>2
  <2>5. Fits(z, Append(w, k), r, u \o head, k + 1, 0)
    BY <2>3, <2>4, LastWritten
  <2>6. /\ Append(w, k) \in Seq(1 .. Len(z)) /\ Len(Append(w, k)) = Len(w) + 1
        /\ r <= Len(Append(w, k))
    <3>1. Append(w, k) \in Seq(1 .. Len(z)) /\ Len(Append(w, k)) = Len(w) + 1 /\ Len(w) \in Nat
      BY AppendProperties, LenProperties
    <3> QED
      BY <3>1
  <2>7. ASSUME NEW i \in 1 .. Len(tail) PROVE tail[i] = <<k + 1, 0 + i>>
    <3>1. i \in 1 .. len - m /\ m + i \in 1 .. len /\ ~(m + i <= m) /\ (m + i) - m = 0 + i
      BY <1>1, <1>2, <1>6, <2>2
    <3> QED
      BY <1>3, <2>2, <3>1
  <2>8. Fits(z, Append(w, k), r, (u \o head) \o tail, k + 1, 0 + Len(tail))
    BY <2>2, <2>3, <2>5, <2>6, <2>7, MoreWritten
  <2>9. 0 + Len(tail) = len - m
    BY <1>1, <1>2, <1>6, <2>2
  <2> QED
    BY <2>3, <2>8, <2>9
<1>7. ASSUME len = m + Size(z, k + 1), k + 1 \in 1 .. Len(z)
      PROVE  Fits(z, Append(Append(w, k), k + 1), r, u \o t, k + 2, 0)
  <2>1. Size(z, k + 1) \in Nat /\ Size(z, k + 1) >= HeaderSize /\ HeaderSize \in Nat \ {0}
    BY <1>7, Sizes, FramingAssumption
  <2>2. len > m /\ len - m = Size(z, k + 1)
    BY <1>2, <1>7, <2>1
  <2>3. Fits(z, Append(w, k), r, u \o t, k + 1, Size(z, k + 1))
    BY <1>6, <2>2
  <2>4. /\ Append(w, k) \in Seq(1 .. Len(z)) /\ r <= Len(Append(w, k)) /\ u \o t \in Seq(B)
    <3>1. Append(w, k) \in Seq(1 .. Len(z)) /\ Len(Append(w, k)) = Len(w) + 1 /\ Len(w) \in Nat
      BY AppendProperties, LenProperties
    <3> QED
      BY <3>1, ConcatProperties
  <2> QED
    BY <1>7, <2>3, <2>4, LastWritten
<1>8. len < m => len <= m
  BY <1>1, <1>2
<1> QED
  BY <1>4, <1>5, <1>6, <1>7, <1>8 DEF Advances, m, len

\* The packets that are finished, and what is in progress, after the n bytes of
\* packet k from its byte j on.
Takes(n, k, j) ==
  LET m == Left(Size(sizes, k), j)
  IN  \/ /\ n < m /\ Finished(n) = <<>>
         /\ FirstIn(Rest(n)) = k /\ Cut(Rest(n)) = j - 1 + n
      \/ /\ n = m /\ Finished(n) = <<k>>
         /\ FirstIn(Rest(n)) = k + 1 /\ Cut(Rest(n)) = 0
      \/ /\ n > m /\ Finished(n) = <<k>>
         /\ FirstIn(Rest(n)) = k + 1 /\ Cut(Rest(n)) = n - m
      \/ /\ n = m + Size(sizes, k + 1) /\ Finished(n) = <<k, k + 1>> /\ k + 1 \in 1 .. Len(sizes)
         /\ FirstIn(Rest(n)) = k + 2 /\ Cut(Rest(n)) = 0

\* d packets are finished: none, one or two.
LEMMA Finishing ==
  ASSUME NEW n, NEW k \in Nat, NEW d \in 0 .. 2,
         FirstIn(sending) = k, FirstIn(Rest(n)) = k + d
  PROVE  /\ d = 0 => Finished(n) = <<>>
         /\ d = 1 => Finished(n) = <<k>>
         /\ d = 2 => Finished(n) = <<k, k + 1>>
<1>1. Finished(n) = [i \in 1 .. d |-> k + i - 1]
  <2>1. FirstIn(Rest(n)) - FirstIn(sending) = d
    OBVIOUS
  <2> QED
    BY <2>1 DEF Finished
<1>2. ASSUME d = 0 PROVE Finished(n) = <<>>
  BY <1>1, <1>2
<1>3. ASSUME d = 1 PROVE Finished(n) = <<k>>
  BY <1>1, <1>3
<1>4. ASSUME d = 2 PROVE Finished(n) = <<k, k + 1>>
  BY <1>1, <1>4
<1> QED
  BY <1>2, <1>3, <1>4

LEMMA RestOfSending ==
  ASSUME sizes \in Seq(0 .. MaxPayload), sending \in Seq(Begun(sizes)), sending # <<>>,
         Sends(sizes, sending), NEW n \in 1 .. Len(sending), NEW k, k = sending[1][1],
         NEW j, j = sending[1][2]
  PROVE  Takes(n, k, j) /\ (Rest(n) # <<>> => Sends(sizes, Rest(n)))
<1> DEFINE size == Size(sizes, k)
           m    == Left(size, j)
           len  == Len(sending)
           last == Len(sizes)
           next == Size(sizes, k + 1)
           rest == Rest(n)
<1>1. /\ k \in 1 .. last /\ k \in Nat /\ j \in 1 .. size /\ j \in Nat /\ size \in Nat
      /\ m \in 1 .. size /\ len \in Nat /\ last \in Nat
      /\ (k = last /\ len = m) \/ (k + 1 = last /\ len = m + next /\ k + 1 \in 1 .. last /\ next \in Nat)
  <2>1. Parts(sizes, sending, k, j)
    BY SendsParts
  <2> QED
    BY <2>1 DEF Parts
<1>2. /\ Len(rest) = len - n /\ Dropped(rest, sending, n, len) /\ rest \in Seq(Begun(sizes))
  BY RestParts DEF Dropped, Rest
<1>3. rest = <<>> <=> len - n = 0
  BY <1>2, EmptySeq
<1>4. Part(sending, len, k, j, size, next, last)
  BY DEF Sends
<1>5. k + 1 = last => next \in Nat
  BY <1>1
<1>6. m = size - j + 1
  BY DEF Left
<1>7. sending # <<>> /\ FirstIn(sending) = k
  BY DEF FirstIn
<1>8. \/ /\ n < m /\ Finished(n) = <<>>
          /\ FirstIn(rest) = k /\ Cut(rest) = j - 1 + n
       \/ /\ n = m /\ Finished(n) = <<k>>
          /\ FirstIn(rest) = k + 1 /\ Cut(rest) = 0
       \/ /\ n > m /\ Finished(n) = <<k>>
          /\ FirstIn(rest) = k + 1 /\ Cut(rest) = n - m
       \/ /\ n = m + next /\ Finished(n) = <<k, k + 1>> /\ k + 1 \in 1 .. last
          /\ FirstIn(rest) = k + 2 /\ Cut(rest) = 0
       => Takes(n, k, j)
  BY DEF Takes
<1> HIDE DEF size, m, len, last, next, rest
<1>9. \/ n < m /\ rest # <<>> /\ rest[1] = <<k, j + n>> /\ Sends(sizes, rest)
      \/ n = len /\ rest = <<>> /\ m <= n
      \/ /\ m <= n /\ n < len /\ k + 1 = last
         /\ rest # <<>> /\ rest[1] = <<k + 1, n - m + 1>> /\ Sends(sizes, rest)
  <2>1. size = Size(sizes, k) /\ next = Size(sizes, k + 1) /\ last = Len(sizes)
    BY DEF size, next, last
  <2>2. n \in 1 .. len
    BY DEF len
  <2>3. Shape(sizes, rest, k, j, size, n, len, last)
    BY <1>1, <1>2, <1>3, <1>4, <1>5, <2>1, <2>2, RestShape
  <2> QED
    BY <2>3 DEF Shape, m
<1>10. ASSUME n < m, rest # <<>>, rest[1] = <<k, j + n>> PROVE Takes(n, k, j)
  <2>1. FirstIn(rest) = k + 0 /\ Cut(rest) = j - 1 + n
    BY <1>1, <1>10 DEF FirstIn, Cut
  <2>2. Finished(n) = <<>>
    BY <1>1, <1>7, <2>1, Finishing DEF rest
  <2>3. FirstIn(rest) = k
    BY <1>1, <2>1
  <2> QED
    BY <1>10, <1>8, <2>1, <2>2, <2>3
<1>11. ASSUME n = len, rest = <<>>, m <= n PROVE Takes(n, k, j)
  <2>1. FirstIn(rest) = last + 1 /\ Cut(rest) = 0
    BY <1>11 DEF FirstIn, Cut, last
  <2>2. CASE k = last /\ len = m
    <3>1. FirstIn(rest) = k + 1 /\ n = m
      BY <1>11, <2>1, <2>2
    <3>2. k \in Nat /\ FirstIn(sending) = k
      BY <1>1, <1>7
    <3>3. Finished(n) = <<k>>
      BY <3>1, <3>2, Finishing DEF rest
    <3> QED
      BY <1>8, <2>1, <3>1, <3>3
  <2>3. CASE k + 1 = last /\ len = m + next
    <3>0. n = m + next /\ last + 1 = k + 2
      <4>1. k \in Nat
        BY <1>1
      <4> QED
        BY <1>11, <2>3, <4>1
    <3>1. FirstIn(rest) = k + 2 /\ n = m + next /\ k + 1 \in 1 .. last
      <4>1. k + 1 \in 1 .. k + 1
        <5>1. k \in Nat
          BY <1>1
        <5> QED
          BY <5>1
      <4> QED
        BY <2>1, <2>3, <3>0, <4>1
    <3>2. Finished(n) = <<k, k + 1>>
      BY <1>1, <1>7, <3>1, Finishing DEF rest
    <3> QED
      BY <1>8, <2>1, <3>1, <3>2
  <2> QED
    BY <1>1, <2>2, <2>3
<1>12. ASSUME m <= n, rest # <<>>, rest[1] = <<k + 1, n - m + 1>> PROVE Takes(n, k, j)
  <2>1. FirstIn(rest) = k + 1 /\ Cut(rest) = n - m
    <3>1. n - m + 1 - 1 = n - m
      BY <1>1
    <3>2. rest[1][1] = k + 1 /\ rest[1][2] = n - m + 1 /\ rest # <<>>
      BY <1>12
    <3>3. FirstIn(rest) = rest[1][1]
      BY <3>2 DEF FirstIn
    <3>4. Cut(rest) = rest[1][2] - 1
      BY <3>2 DEF Cut
    <3> QED
      BY <1>1, <3>1, <3>2, <3>3, <3>4
  <2>2. Finished(n) = <<k>>
    BY <1>1, <1>7, <2>1, Finishing DEF rest
  <2>3. (n = m /\ n - m = 0) \/ n > m
    BY <1>1, <1>12
  <2> QED
    BY <1>8, <2>1, <2>2, <2>3
<1> QED
  BY <1>9, <1>10, <1>11, <1>12 DEF rest

\* The packets a writev may finish, appended to those before.
LEMMA Joined ==
  ASSUME NEW K, NEW w \in Seq(K), NEW k \in K
  PROVE  /\ w \o <<>> = w
         /\ w \o <<k>> = Append(w, k)
         /\ \A l \in K : w \o <<k, l>> = Append(Append(w, k), l)
         /\ <<>> \in Seq(K) /\ <<k>> \in Seq(K) /\ \A l \in K : <<k, l>> \in Seq(K)
  BY ConcatEmptySeq, AppendIsConcat

\* What a writev finishes is written whole.
LEMMA WriteStep ==
  ASSUME IInv, Write
  PROVE  IInv'
<1> DEFINE k  == sending[1][1]
           j  == sending[1][2]
           r  == Len(received)
           K  == 1 .. Len(sizes)
           B  == Begun(sizes)
<1>1. PICK n \in 1 .. Len(sending) :
        /\ Len(wire) + n <= SocketBuffer
        /\ wire' = wire \o SubSeq(sending, 1, n)
        /\ sending' = Rest(n)
        /\ whole' = IF torn THEN whole ELSE whole \o Finished(n)
  BY DEF Write
<1>2. /\ up /\ UNCHANGED <<sizes, torn, sender, up, rstate, buf, announced, receiver, received,
                           connections>>
  BY DEF Write, recvBuf
<1>3. /\ sizes \in Seq(0 .. MaxPayload) /\ sending \in Seq(B) /\ wire \in Seq(B) /\ buf \in Seq(B)
      /\ whole \in Seq(K) /\ received \in Seq(Number \cup {Garbled})
  BY DEF IInv, Types
<1>4. Len(sending) \in Nat /\ Len(wire) \in Nat /\ r \in Nat /\ Len(whole) \in Nat
  BY <1>3, LenProperties
<1>5. sending # <<>>
  BY <1>1, <1>3, EmptySeq
<1>6. sender = "open" /\ Sends(sizes, sending)
  BY <1>5 DEF IInv, InProgress
<1> DEFINE t == SubSeq(sending, 1, n)
           size == Size(sizes, k)
<1>7. /\ Rest(n) \in Seq(B) /\ t \in Seq(B) /\ Len(t) = n
      /\ \A i \in 1 .. n : t[i] = sending[i]
  BY <1>3, RestParts DEF Rest
<1>8. /\ k \in K /\ k \in Nat /\ j \in 1 .. size /\ size \in Nat
      /\ \A i \in 1 .. Len(sending) : sending[i] = IF i <= Left(size, j)
                            THEN <<k, j + i - 1>> ELSE <<k + 1, i - Left(size, j)>>
  <2>1. Parts(sizes, sending, k, j)
    BY <1>3, <1>5, <1>6, SendsParts
  <2> QED
    BY <2>1 DEF Parts
<1>9. Takes(n, k, j) /\ (Rest(n) # <<>> => Sends(sizes, Rest(n)))
  BY <1>3, <1>5, <1>6, RestOfSending
<1>10. (FirstIn(sending))' = FirstIn(Rest(n)) /\ (Cut(sending))' = Cut(Rest(n))
  BY <1>1, <1>2 DEF FirstIn, Cut
<1>11. FirstIn(sending) = k /\ Cut(sending) = j - 1
  BY <1>5 DEF FirstIn, Cut
<1>12. Unread' = Unread \o t /\ Unread \in Seq(B)
  <2>1. Regroup(buf, wire, t)
    BY <1>3, <1>7, Regroups
  <2>2. Unread \in Seq(B)
    BY <1>3, ConcatProperties DEF Unread
  <2> QED
    BY <1>1, <1>2, <2>1, <2>2 DEF Unread, Regroup
<1> HIDE DEF t, size, k, j, r, K, B
<1>13. Finished(n) \in Seq(K)
  <2>1. Finished(n) = <<>> \/ Finished(n) = <<k>> \/ (Finished(n) = <<k, k + 1>> /\ k + 1 \in K)
    BY <1>9 DEF Takes, K
  <2> QED
    <3>1. <<>> \in Seq(K) /\ <<k>> \in Seq(K) /\ (k + 1 \in K => <<k, k + 1>> \in Seq(K))
      BY <1>3, <1>8, Joined
    <3> QED
      BY <2>1, <3>1
<1>14. /\ whole \o Finished(n) \in Seq(K) /\ Len(whole \o Finished(n)) \in Nat
       /\ Len(whole) <= Len(whole \o Finished(n))
       /\ \A i \in 1 .. Len(whole) : (whole \o Finished(n))[i] = whole[i]
  <2>1. /\ whole \o Finished(n) \in Seq(K)
        /\ Len(whole \o Finished(n)) = Len(whole) + Len(Finished(n))
        /\ \A i \in 1 .. Len(whole) + Len(Finished(n)) : (whole \o Finished(n))[i] =
              IF i <= Len(whole) THEN whole[i] ELSE Finished(n)[i - Len(whole)]
    BY <1>3, <1>13, ConcatProperties
  <2>2. Len(Finished(n)) \in Nat
    BY <1>13, LenProperties
  <2>3. \A i \in 1 .. Len(whole) : i \in 1 .. Len(whole) + Len(Finished(n)) /\ i <= Len(whole)
    BY <1>4, <2>2
  <2> QED
    BY <1>4, <2>1, <2>2, <2>3
<1>15. Types'
  <2>1. wire' \in Seq(B) /\ Len(wire') <= SocketBuffer
    <3>1. wire \o t \in Seq(B) /\ Len(wire \o t) = Len(wire) + Len(t)
      BY <1>3, <1>7, ConcatProperties
    <3> QED
      BY <1>1, <1>7, <3>1 DEF t
  <2>2. sending' \in Seq(B)
    BY <1>1, <1>7
  <2>3. whole' \in Seq(K)
    BY <1>1, <1>3, <1>14
  <2> QED
    BY <1>2, <2>1, <2>2, <2>3 DEF IInv, Types, B, K
<1>16. Buffered'
  BY <1>2 DEF IInv, Buffered, Announces, Genuine
<1>17. InProgress'
  <2>1. (Sends(sizes, sending))' <=> Sends(sizes, Rest(n))
    BY <1>1, <1>2 DEF Sends, Part, Size
  <2> QED
    BY <1>1, <1>2, <1>6, <1>9, <2>1 DEF InProgress
<1>18. InOrder'
  <2>1. /\ \A i \in 1 .. r : i <= Len(whole) => received[i] = whole[i]
        /\ ~torn => r <= Len(whole)
    BY DEF IInv, InOrder, r
  <2>2. CASE torn
    BY <1>1, <1>2, <2>1, <2>2 DEF InOrder, r
  <2>3. CASE ~torn
    <3>1. \A i \in 1 .. r : i \in 1 .. Len(whole) /\ i <= Len(whole)
      BY <1>4, <2>1, <2>3 DEF r
    <3>2. \A i \in 1 .. r : received[i] = (whole \o Finished(n))[i]
      BY <1>14, <2>1, <3>1
    <3>3. r <= Len(whole \o Finished(n))
      BY <1>4, <1>14, <2>1, <2>3
    <3> QED
      BY <1>1, <1>2, <2>3, <3>2, <3>3 DEF InOrder, r
  <2> QED
    BY <2>2, <2>3
<1>19. LastWordsHeard'
  BY <1>2, <1>6 DEF IInv, LastWordsHeard
<1>20. Stream'
  <2>1. SUFFICES ASSUME up, receiver = "open"
                 PROVE  /\ Holds(sizes, whole', r, Unread \o t)
                        /\ ~torn => Fits(sizes, whole', r, Unread \o t, FirstIn(Rest(n)), Cut(Rest(n)))
    <3>1. Len(received') = r /\ sizes' = sizes /\ torn' = torn
      BY <1>2 DEF r
    <3> QED
      BY <1>2, <1>10, <1>12, <3>1 DEF Stream
  <2>2. /\ Holds(sizes, whole, r, Unread)
        /\ ~torn => Fits(sizes, whole, r, Unread, k, j - 1) /\ r <= Len(whole)
    BY <1>11, <2>1 DEF IInv, Stream, InOrder, r
  <2>3. CASE torn
    <3>1. Holds(sizes, whole, r, Unread \o t)
      BY <1>3, <1>4, <1>7, <1>12, <2>2, MoreHeld DEF K
    <3> QED
      BY <1>1, <2>3, <3>1
  <2>4. CASE ~torn
    <3>1. Advances(sizes, whole, r, Unread \o t, k, j, n)
      <4>1. \A i \in 1 .. n : t[i] = IF i <= Left(size, j)
                               THEN <<k, j + i - 1>> ELSE <<k + 1, i - Left(size, j)>>
        BY <1>4, <1>7, <1>8 DEF t
      <4>2. n = Len(t) /\ Len(t) >= 1 /\ t \in Seq(B) /\ Unread \in Seq(B)
        BY <1>4, <1>7, <1>12 DEF t
      <4>3. k \in 1 .. Len(sizes) /\ j \in 1 .. Size(sizes, k) /\ whole \in Seq(1 .. Len(sizes))
        BY <1>3, <1>8 DEF K, size
      <4>4. Fits(sizes, whole, r, Unread, k, j - 1) /\ r <= Len(whole) /\ r \in Nat
        BY <1>4, <2>2, <2>4
      <4>5. Advances(sizes, whole, r, Unread \o t, k, j, Len(t))
        BY <1>3, <4>1, <4>2, <4>3, <4>4, Advanced DEF size
      <4> QED
        BY <4>2, <4>5
    <3>2. Fits(sizes, whole', r, Unread \o t, FirstIn(Rest(n)), Cut(Rest(n)))
      <4> DEFINE m    == Left(size, j)
                 next == Size(sizes, k + 1)
                 v    == Unread \o t
      <4>1. /\ n < m => Fits(sizes, whole, r, v, k, j - 1 + n)
            /\ n = m => Fits(sizes, Append(whole, k), r, v, k + 1, 0)
            /\ n > m => Fits(sizes, Append(whole, k), r, v, k + 1, n - m)
            /\ n = m + next /\ k + 1 \in K =>
                 Fits(sizes, Append(Append(whole, k), k + 1), r, v, k + 2, 0)
        BY <3>1 DEF Advances, size, K
      <4>2. \/ /\ n < m /\ Finished(n) = <<>>
               /\ FirstIn(Rest(n)) = k /\ Cut(Rest(n)) = j - 1 + n
            \/ /\ n = m /\ Finished(n) = <<k>>
               /\ FirstIn(Rest(n)) = k + 1 /\ Cut(Rest(n)) = 0
            \/ /\ n > m /\ Finished(n) = <<k>>
               /\ FirstIn(Rest(n)) = k + 1 /\ Cut(Rest(n)) = n - m
            \/ /\ n = m + next /\ Finished(n) = <<k, k + 1>> /\ k + 1 \in K
               /\ FirstIn(Rest(n)) = k + 2 /\ Cut(Rest(n)) = 0
        BY <1>9 DEF Takes, size, K
      <4>3. /\ whole \o <<>> = whole /\ whole \o <<k>> = Append(whole, k)
            /\ k + 1 \in K => whole \o <<k, k + 1>> = Append(Append(whole, k), k + 1)
        BY <1>3, <1>8, Joined
      <4> HIDE DEF m, next, v
      <4>4. whole' = whole \o Finished(n)
        BY <1>1, <2>4
      <4> QED
        BY <4>1, <4>2, <4>3, <4>4 DEF v
    <3>3. Holds(sizes, whole', r, Unread \o t)
      BY <3>2, FitsHolds
    <3> QED
      BY <3>2, <3>3
  <2> QED
    BY <2>3, <2>4
<1> QED
  BY <1>15, <1>16, <1>17, <1>18, <1>19, <1>20 DEF IInv

\* Sequences over a set are sequences over a larger one.
LEMMA Wider ==
  ASSUME NEW A, NEW C, A \subseteq C, NEW s \in Seq(A)
  PROVE  s \in Seq(C)
<1>1. Len(s) \in Nat /\ s = [i \in 1 .. Len(s) |-> s[i]] /\ \A i \in 1 .. Len(s) : s[i] \in C
  BY LenProperties, ElementOfSeq
<1> QED
  BY <1>1, IsASeq

LEMMA Longer ==
  ASSUME NEW z, NEW y, Len(z) \in Nat, Len(y) \in Nat, Len(z) <= Len(y)
  PROVE  /\ \A s \in Seq(Begun(z)) : s \in Seq(Begun(y))
         /\ \A s \in Seq(1 .. Len(z)) : s \in Seq(1 .. Len(y))
<1>1. 1 .. Len(z) \subseteq 1 .. Len(y)
  OBVIOUS
<1>2. Begun(z) \subseteq Begun(y)
  BY <1>1 DEF Begun
<1> QED
  BY <1>1, <1>2, Wider

\* A send begins a packet, or two.
LEMMA BeginStep ==
  ASSUME IInv, sender = "open", sending = <<>>,
         sizes' \in Seq(0 .. MaxPayload), Len(sizes) <= Len(sizes'), Len(sizes') <= MaxPackets,
         \A i \in 1 .. Len(sizes) : sizes'[i] = sizes[i],
         sending' \in Seq(Begun(sizes')), sending' # <<>>, sending'[1] = <<Len(sizes) + 1, 1>>,
         Sends(sizes', sending'),
         UNCHANGED <<wire, whole, torn, sender, up, recvBuf, receiver, received, connections>>
  PROVE  IInv'
<1>1. /\ sizes \in Seq(0 .. MaxPayload) /\ wire \in Seq(Begun(sizes)) /\ buf \in Seq(Begun(sizes))
      /\ whole \in Seq(1 .. Len(sizes)) /\ Len(sizes) \in Nat /\ Len(sizes') \in Nat
      /\ Len(received) \in Nat /\ Len(buf) \in Nat
  BY LenProperties DEF IInv, Types
<1>2. /\ wire \in Seq(Begun(sizes')) /\ buf \in Seq(Begun(sizes')) /\ whole \in Seq(1 .. Len(sizes'))
  BY <1>1, Longer
<1>3. UNCHANGED <<wire, whole, torn, sender, up, rstate, buf, announced, receiver, received,
                  connections>>
  BY DEF recvBuf
<1>4. Types'
  BY <1>2, <1>3 DEF IInv, Types, Begun
<1>5. Buffered'
  <2>1. ASSUME HeaderSize <= Len(buf) PROVE sizes'[buf[1][1]] = sizes[buf[1][1]]
    <3>1. 1 \in 1 .. Len(buf)
      BY <1>1, <2>1, FramingAssumption
    <3>2. buf[1] \in Begun(sizes)
      BY <1>1, <3>1, ElementOfSeq
    <3> QED
      BY <3>2 DEF Begun
  <2>2. ASSUME rstate = "WAITING_PAYLOAD", HeaderSize <= Len(buf), Announces(sizes, buf, announced)
        PROVE  Announces(sizes', buf, announced)
    BY <2>1, <2>2 DEF Announces
  <2> QED
    BY <1>3, <2>2 DEF IInv, Buffered, Announces, Genuine
<1>6. InProgress'
  BY <1>3 DEF InProgress, Sends, Part, Size
<1>7. InOrder'
  BY <1>3 DEF IInv, InOrder
<1>8. LastWordsHeard'
  BY <1>3 DEF IInv, LastWordsHeard
<1>9. Stream'
  <2> DEFINE r == Len(received)
             u == Unread
  <2>1. (FirstIn(sending))' = Len(sizes) + 1 /\ (Cut(sending))' = 0
    BY DEF FirstIn, Cut
  <2>2. FirstIn(sending) = Len(sizes) + 1 /\ Cut(sending) = 0
    BY DEF FirstIn, Cut
  <2>3. Unread' = u /\ Len(received') = r
    BY <1>3 DEF Unread
  <2>4. ASSUME up, receiver = "open"
        PROVE  /\ Holds(sizes', whole, r, u)
               /\ ~torn => Fits(sizes', whole, r, u, Len(sizes) + 1, 0)
    <3>1. /\ Holds(sizes, whole, r, u)
          /\ ~torn => Fits(sizes, whole, r, u, Len(sizes) + 1, 0)
      BY <2>2, <2>4 DEF IInv, Stream
    <3> HIDE DEF u
    <3> QED
      BY <1>1, <3>1, Extended
  <2> HIDE DEF u, r
  <2> QED
    BY <1>3, <2>1, <2>3, <2>4 DEF Stream
<1> QED
  BY <1>4, <1>5, <1>6, <1>7, <1>8, <1>9 DEF IInv

\* One packet is begun.
LEMMA SendStep ==
  ASSUME IInv, Send
  PROVE  IInv'
<1> DEFINE k == Len(sizes) + 1
<1>1. PICK size \in 0 .. MaxPayload : sizes' = Append(sizes, size) /\ sending' = BytesOf(k, size)
  BY DEF Send
<1>2. /\ sender = "open" /\ sending = <<>> /\ k <= MaxPackets /\ sizes \in Seq(0 .. MaxPayload)
      /\ Len(sizes) \in Nat
      /\ UNCHANGED <<wire, whole, torn, sender, up, recvBuf, receiver, received, connections>>
  BY LenProperties DEF IInv, Types, Send
<1>3. HeaderSize \in Nat \ {0} /\ MaxPayload \in Nat
  BY FramingAssumption
<1>4. /\ sizes' \in Seq(0 .. MaxPayload) /\ Len(sizes') = k /\ sizes'[k] = size
      /\ \A i \in 1 .. Len(sizes) : sizes'[i] = sizes[i]
  BY <1>1, <1>2, AppendProperties
<1> HIDE DEF k
<1>5. /\ sending' \in Seq({k} \X (1 .. HeaderSize + MaxPayload))
      /\ Len(sending') = HeaderSize + size
      /\ \A i \in 1 .. HeaderSize + size : sending'[i] = <<k, i>>
  <2>1. k \in Nat
    BY <1>2 DEF k
  <2>2. /\ BytesOf(k, size) \in Seq({k} \X (1 .. HeaderSize + MaxPayload))
        /\ Len(BytesOf(k, size)) = HeaderSize + size
        /\ \A i \in 1 .. HeaderSize + size : BytesOf(k, size)[i] = <<k, i>>
    BY <2>1, PacketBytes
  <2> QED
    BY <1>1, <2>2
<1>6. sending' \in Seq(Begun(sizes'))
  <2>1. k \in 1 .. Len(sizes')
    BY <1>2, <1>4 DEF k
  <2>2. {k} \X (1 .. HeaderSize + MaxPayload) \subseteq Begun(sizes')
    BY <2>1 DEF Begun
  <2> QED
    BY <1>5, <2>2, Wider
<1>7. sending' # <<>> /\ sending'[1] = <<k, 1>>
  BY <1>3, <1>5
<1>8. Sends(sizes', sending')
  <2> DEFINE n == HeaderSize + size
  <2>1. n \in Nat /\ n >= 1 /\ Size(sizes', k) = n
    BY <1>3, <1>4 DEF Size
  <2>2. Part(sending', n, k, 1, n, Size(sizes', k + 1), k)
    <3>1. \A i \in 1 .. n : sending'[i] = <<k, i>>
      BY <1>5
    <3> HIDE DEF n
    <3>2. n - 1 + 1 = n /\ \A i \in 1 .. n : i <= n - 1 + 1 /\ 1 + i - 1 = i
      BY <2>1
    <3> QED
      BY <2>1, <3>1, <3>2 DEF Part
  <2>3. Part(sending', Len(sending'), k, 1, Size(sizes', k), Size(sizes', k + 1), Len(sizes'))
    BY <1>4, <1>5, <2>1, <2>2
  <2> QED
    BY <1>7, <2>3, SendsFrom
<1> QED
  BY <1>2, <1>4, <1>6, <1>7, <1>8, BeginStep DEF k

\* Two packets are begun.
LEMMA SendPairStep ==
  ASSUME IInv, SendPair
  PROVE  IInv'
<1> DEFINE k == Len(sizes) + 1
<1>1. PICK size1 \in 0 .. MaxPayload, size2 \in 0 .. MaxPayload :
        /\ sizes' = Append(Append(sizes, size1), size2)
        /\ sending' = BytesOf(Len(sizes) + 1, size1) \o BytesOf(Len(sizes) + 2, size2)
  BY DEF SendPair
<1>2. /\ sender = "open" /\ sending = <<>> /\ Len(sizes) + 2 <= MaxPackets
      /\ sizes \in Seq(0 .. MaxPayload) /\ Len(sizes) \in Nat
      /\ UNCHANGED <<wire, whole, torn, sender, up, recvBuf, receiver, received, connections>>
  BY LenProperties DEF IInv, Types, SendPair
<1>3. HeaderSize \in Nat \ {0} /\ MaxPayload \in Nat
  BY FramingAssumption
<1>4. /\ sizes' \in Seq(0 .. MaxPayload) /\ Len(sizes') = k + 1
      /\ sizes'[k] = size1 /\ sizes'[k + 1] = size2
      /\ \A i \in 1 .. Len(sizes) : sizes'[i] = sizes[i]
  <2> DEFINE one == Append(sizes, size1)
  <2>1. /\ one \in Seq(0 .. MaxPayload) /\ Len(one) = k /\ one[k] = size1
        /\ \A i \in 1 .. Len(sizes) : one[i] = sizes[i]
    BY <1>2, AppendProperties
  <2> HIDE DEF one
  <2>2. /\ Append(one, size2) \in Seq(0 .. MaxPayload) /\ Len(Append(one, size2)) = k + 1
        /\ Append(one, size2)[k + 1] = size2
        /\ \A i \in 1 .. k : Append(one, size2)[i] = one[i]
    BY <2>1, AppendProperties
  <2>3. \A i \in 1 .. Len(sizes) : i \in 1 .. k
    BY <1>2
  <2>4. k \in 1 .. k
    BY <1>2
  <2> QED
    BY <1>1, <2>1, <2>2, <2>3, <2>4 DEF one
<1> DEFINE n1 == HeaderSize + size1
           n2 == HeaderSize + size2
           Room == 1 .. HeaderSize + MaxPayload
           first == BytesOf(k, size1)
           second == BytesOf(k + 1, size2)
<1>5. /\ n1 \in Nat /\ n1 >= 1 /\ n2 \in Nat /\ n2 >= 1 /\ k \in Nat /\ k + 1 \in Nat
      /\ Len(sizes) + 2 = k + 1
  BY <1>2, <1>3
<1>6. /\ first \in Seq({k} \X Room) /\ Len(first) = n1 /\ \A i \in 1 .. n1 : first[i] = <<k, i>>
      /\ second \in Seq({k + 1} \X Room) /\ Len(second) = n2
      /\ \A i \in 1 .. n2 : second[i] = <<k + 1, i>>
  BY <1>5, PacketBytes
<1>7. sending' = first \o second
  BY <1>1, <1>5
<1>8. first \in Seq(Begun(sizes')) /\ second \in Seq(Begun(sizes'))
  <2>1. k \in 1 .. Len(sizes') /\ k + 1 \in 1 .. Len(sizes')
    BY <1>2, <1>4
  <2>2. {k} \X Room \subseteq Begun(sizes') /\ {k + 1} \X Room \subseteq Begun(sizes')
    BY <2>1 DEF Begun
  <2> HIDE DEF k, first, second, Room
  <2> QED
    BY <1>6, <2>2, Wider
<1> HIDE DEF k, n1, n2, Room, first, second
<1>9. /\ sending' \in Seq(Begun(sizes')) /\ Len(sending') = n1 + n2
      /\ \A i \in 1 .. n1 + n2 : sending'[i] = IF i <= n1 THEN <<k, i>> ELSE <<k + 1, i - n1>>
  <2>1. /\ first \o second \in Seq(Begun(sizes')) /\ Len(first \o second) = Len(first) + Len(second)
        /\ \A i \in 1 .. Len(first) + Len(second) : (first \o second)[i] =
              IF i <= Len(first) THEN first[i] ELSE second[i - Len(first)]
    BY <1>8, ConcatProperties
  <2>2. ASSUME NEW i \in 1 .. n1 + n2
        PROVE  sending'[i] = IF i <= n1 THEN <<k, i>> ELSE <<k + 1, i - n1>>
    <3>1. (i <= n1 => i \in 1 .. n1) /\ (~(i <= n1) => i - n1 \in 1 .. n2)
      BY <1>5
    <3>2. sending'[i] = IF i <= n1 THEN first[i] ELSE second[i - n1]
      BY <1>6, <1>7, <2>1
    <3> QED
      BY <1>6, <3>1, <3>2
  <2> QED
    BY <1>6, <1>7, <2>1, <2>2
<1>10. sending' # <<>> /\ sending'[1] = <<k, 1>>
  <2>1. n1 + n2 # 0 /\ 1 \in 1 .. n1 + n2 /\ 1 <= n1
    BY <1>5
  <2>2. sending' # <<>>
    BY <1>9, <2>1
  <2> QED
    BY <1>9, <2>1, <2>2
<1>11. Sends(sizes', sending')
  <2>1. Size(sizes', k) = n1 /\ Size(sizes', k + 1) = n2
    BY <1>4 DEF Size, n1, n2
  <2>2. Part(sending', n1 + n2, k, 1, n1, n2, k + 1)
    <3>1. /\ n1 - 1 + 1 = n1 /\ 1 <= n1
          /\ \A i \in 1 .. n1 + n2 : 1 + i - 1 = i
      BY <1>5
    <3> QED
      BY <1>9, <3>1 DEF Part
  <2>3. Part(sending', Len(sending'), k, 1, Size(sizes', k), Size(sizes', k + 1), Len(sizes'))
    BY <1>4, <1>9, <2>1, <2>2 DEF k
  <2> QED
    BY <1>10, <2>3, SendsFrom
<1>12. Len(sizes) <= Len(sizes') /\ Len(sizes') <= MaxPackets
  BY <1>2, <1>4 DEF k
<1>13. /\ sizes' \in Seq(0 .. MaxPayload) /\ \A i \in 1 .. Len(sizes) : sizes'[i] = sizes[i]
  BY <1>4
<1>14. sending'[1] = <<Len(sizes) + 1, 1>>
  BY <1>10 DEF k
<1> QED
  BY <1>2, <1>9, <1>10, <1>11, <1>12, <1>13, <1>14, BeginStep

\* The rest of a send that fails is nobody's, and leaves a mark if it was in the
\* middle of a packet.
LEMMA WriteFailsStep ==
  ASSUME IInv, WriteFails
  PROVE  IInv'
<1>1. /\ sending # <<>> /\ sending' = <<>> /\ torn' = (torn \/ MidPacket(sending))
      /\ UNCHANGED <<sizes, wire, whole, sender, up, rstate, buf, announced, receiver, received,
                     connections>>
  BY DEF WriteFails, recvBuf
<1>2. sender = "open" /\ torn \in BOOLEAN
  BY <1>1 DEF IInv, InProgress, Types
<1>3. Types'
  BY <1>1, <1>2 DEF IInv, Types, Begun
<1>4. Buffered'
  BY <1>1 DEF IInv, Buffered, Announces, Genuine
<1>5. InProgress'
  BY <1>1 DEF InProgress
<1>6. InOrder'
  BY <1>1 DEF IInv, InOrder
<1>7. LastWordsHeard'
  BY <1>1, <1>2 DEF IInv, LastWordsHeard
<1>8. Stream'
  <2>1. ASSUME up, receiver = "open", ~torn'
        PROVE  Fits(sizes, whole, Len(received), Unread, Len(sizes) + 1, 0)
    <3>1. ~torn /\ Cut(sending) = 0
      <4>1. ~torn /\ sending[1][2] = 1
        BY <1>1, <2>1 DEF MidPacket
      <4> QED
        BY <1>1, <4>1 DEF Cut
    <3>2. Fits(sizes, whole, Len(received), Unread, FirstIn(sending), 0)
      BY <2>1, <3>1 DEF IInv, Stream
    <3> QED
      BY <3>2, NoneBegun
  <2>2. (FirstIn(sending))' = Len(sizes) + 1 /\ (Cut(sending))' = 0 /\ Unread' = Unread
    BY <1>1 DEF FirstIn, Cut, Unread
  <2> QED
    BY <1>1, <2>1, <2>2 DEF IInv, Stream
<1> QED
  BY <1>3, <1>4, <1>5, <1>6, <1>7, <1>8 DEF IInv

\* A sender that hangs up has nothing left to write.
LEMMA CloseStep ==
  ASSUME IInv, Close
  PROVE  IInv'
<1>1. /\ sender = "open" /\ sending = <<>> /\ sender' = "closed"
      /\ UNCHANGED <<sizes, sending, wire, whole, torn, up, rstate, buf, announced, receiver,
                     received, connections>>
  BY DEF Close, recvBuf
<1>2. Types' /\ Buffered'
  BY <1>1 DEF IInv, Types, Begun, Buffered, Announces, Genuine
<1>3. InProgress' /\ InOrder' /\ LastWordsHeard'
  BY <1>1 DEF IInv, InProgress, InOrder, LastWordsHeard
<1>4. Stream'
  BY <1>1 DEF IInv, Stream, FirstIn, Cut, Unread
<1> QED
  BY <1>2, <1>3, <1>4 DEF IInv

\* A broken connection carries nothing.
LEMMA BreakStep ==
  ASSUME IInv, Break
  PROVE  IInv'
<1>1. /\ up' = FALSE /\ wire' = <<>>
      /\ UNCHANGED <<sizes, sending, whole, torn, sender, rstate, buf, announced, receiver,
                     received, connections>>
  BY DEF Break, recvBuf, out
<1>2. Len(<<>>) = 0 /\ SocketBuffer \in Nat /\ 0 <= SocketBuffer
  BY FramingAssumption
<1>3. Types'
  <2>1. <<>> \in Seq(Begun(sizes))
    OBVIOUS
  <2> QED
    BY <1>1, <1>2, <2>1 DEF IInv, Types, Begun
<1>4. Buffered'
  BY <1>1 DEF IInv, Buffered, Announces, Genuine
<1>5. InProgress' /\ InOrder' /\ LastWordsHeard' /\ Stream'
  BY <1>1 DEF IInv, InProgress, Sends, Part, Size, InOrder, LastWordsHeard, Stream
<1> QED
  BY <1>3, <1>4, <1>5 DEF IInv

\* A connection starts with nothing sent and nothing received.
Fresh ==
  /\ sizes = <<>> /\ sending = <<>> /\ wire = <<>> /\ whole = <<>> /\ torn = FALSE
  /\ sender = "open" /\ up = TRUE
  /\ rstate = "WAITING_HEADER" /\ buf = <<>> /\ announced = 0
  /\ receiver = "open" /\ received = <<>> /\ connections \in 1 .. MaxConnections

\* Nothing is in the stream of a new connection.
LEMMA FreshHolds ==
  ASSUME Fresh
  PROVE  IInv
<1>1. Len(<<>>) = 0
  OBVIOUS
<1>2. HeaderSize \in Nat \ {0} /\ SocketBuffer \in Nat /\ MaxPackets \in Nat
  BY FramingAssumption
<1>3. Types
  <2>1. \A S : <<>> \in Seq(S)
    OBVIOUS
  <2>2. Len(<<>>) <= MaxPackets /\ Len(<<>>) <= SocketBuffer
    BY <1>1, <1>2
  <2>3. 0 \in Nat
    OBVIOUS
  <2> HIDE DEF Begun
  <2> QED
    BY <2>1, <2>2, <2>3 DEF Fresh, Types
<1>4. Buffered /\ InProgress /\ InOrder /\ LastWordsHeard
  BY <1>1, <1>2 DEF Fresh, Buffered, InProgress, InOrder, LastWordsHeard
<1>5. Stream
  <2> DEFINE off == [i \in {0} |-> 0]
  <2>1. off[0] = 0 /\ 0 .. 0 = {0} /\ 1 .. 0 = {} /\ 0 + 1 .. 0 = {}
    OBVIOUS
  <2> HIDE DEF off
  <2>2. Laid(<<>>, <<>>, 0, <<>>, off)
    BY <1>1, <2>1 DEF Laid
  <2>3. Ends(<<>>, 0, <<>>, off, 1, 0)
    BY <1>1, <2>1 DEF Ends
  <2>4. Holds(<<>>, <<>>, 0, <<>>) /\ Fits(<<>>, <<>>, 0, <<>>, 1, 0)
    BY <2>2, <2>3 DEF Holds, Fits
  <2>5. Unread = <<>> /\ FirstIn(sending) = 1 /\ Cut(sending) = 0 /\ Len(received) = 0
    BY <1>1 DEF Fresh, Unread, FirstIn, Cut
  <2>6. sizes = <<>> /\ whole = <<>>
    BY DEF Fresh
  <2> QED
    BY <2>4, <2>5, <2>6 DEF Stream
<1> QED
  BY <1>3, <1>4, <1>5 DEF IInv

LEMMA ReconnectStep ==
  ASSUME IInv, Reconnect
  PROVE  IInv'
<1>1. Fresh'
  <2>1. connections \in Nat /\ connections >= 1 /\ MaxConnections \in Nat
    BY FramingAssumption DEF IInv, Types
  <2>2. connections' \in 1 .. MaxConnections
    BY <2>1 DEF Reconnect
  <2> QED
    BY <2>2 DEF Fresh, Reconnect, RecvReset
<1>2. Fresh' => IInv'
  BY FreshHolds, PTL
<1> QED
  BY <1>1, <1>2

-----------------------------------------------------------------------------
(* Receiving *)

\* The stream begins with the packet that is received next, or with what is
\* written of the packet in progress.
LEMMA FirstBytes ==
  ASSUME NEW z \in Seq(0 .. MaxPayload), NEW w \in Seq(1 .. Len(z)), NEW r \in Nat, r < Len(w),
         NEW u, Len(u) \in Nat, Holds(z, w, r, u)
  PROVE  /\ w[r + 1] \in 1 .. Len(z) /\ Size(z, w[r + 1]) <= Len(u)
         /\ \A j \in 1 .. Size(z, w[r + 1]) : u[j] = <<w[r + 1], j>>
<1>1. PICK off : Laid(z, w, r, u, off)
  BY DEF Holds
<1>2. r + 1 \in 1 .. Len(w) /\ r + 1 \in r + 1 .. Len(w) /\ (r + 1) - 1 = r /\ r \in 0 .. Len(w)
  <2>1. Len(w) \in Nat
    BY LenProperties
  <2> QED
    BY <2>1
<1> DEFINE k == w[r + 1]
<1>3. k \in 1 .. Len(z) /\ Size(z, k) \in Nat /\ Size(z, k) >= HeaderSize
  BY <1>2, SizesOf
<1>4. off[r] \in Nat
  BY <1>1, <1>2 DEF Laid
<1>5. ASSUME NEW j \in 1 .. Size(z, k) PROVE j <= Len(u) /\ u[j] = <<k, j>>
  <2>1. off[r] - off[r] + j <= Len(u) /\ u[off[r] - off[r] + j] = <<k, j>>
    BY <1>1, <1>2 DEF Laid
  <2>2. off[r] - off[r] + j = j
    BY <1>3, <1>4
  <2> QED
    BY <2>1, <2>2
<1> HIDE DEF k
<1>6. Size(z, k) \in 1 .. Size(z, k)
  BY <1>3, Headers
<1>7. Size(z, k) <= Len(u)
  BY <1>5, <1>6
<1> QED
  BY <1>3, <1>5, <1>7 DEF k

\* u is the first n bytes of packet k.
Begins(u, k, n) == Len(u) = n /\ \A j \in 1 .. n : u[j] = <<k, j>>

\* Of what is not received, nothing is whole.
LEMMA LastBytes ==
  ASSUME NEW z, NEW w, Len(w) \in Nat, NEW u, NEW k, NEW n \in Nat, Fits(z, w, Len(w), u, k, n)
  PROVE  Begins(u, k, n)
<1>1. PICK off : Laid(z, w, Len(w), u, off) /\ Ends(w, Len(w), u, off, k, n)
  BY DEF Fits
<1>2. off[Len(w)] \in Nat
  BY <1>1 DEF Laid
<1>3. off[Len(w)] - off[Len(w)] + n = n /\ \A j \in 1 .. n : off[Len(w)] - off[Len(w)] + j = j
  BY <1>2
<1> QED
  BY <1>1, <1>3 DEF Ends, Begins

\* The bytes s, of which there is a header at least, are the first of the stream.
\* Unless everything written whole is received and something is torn, they begin
\* with a header.
First(s, left) ==
  LET w == whole
      r == Len(received)
      k == IF r < Len(w) THEN w[r + 1] ELSE FirstIn(sending)
  IN  r < Len(w) \/ ~torn =>
        /\ k \in 1 .. Len(sizes) /\ Genuine(s) /\ s[1][1] = k
        /\ r < Len(w) => Size(sizes, k) <= Len(s) + Len(left)
        /\ ~(r < Len(w)) => sending # <<>> /\ Len(s) + Len(left) < Size(sizes, k)
        /\ \A i \in 1 .. Size(sizes, k) : i <= Len(s) => s[i] = <<k, i>>

LEMMA FirstOfStream ==
  ASSUME IInv, up, receiver = "open", NEW s \in Seq(Begun(sizes)), NEW left \in Seq(Begun(sizes)),
         s \o left = Unread, Len(s) >= HeaderSize
  PROVE  First(s, left)
<1> DEFINE w == whole
           r == Len(received)
           u == Unread
           k == IF r < Len(w) THEN w[r + 1] ELSE FirstIn(sending)
           len == Len(s) + Len(left)
<1>1. /\ sizes \in Seq(0 .. MaxPayload) /\ w \in Seq(1 .. Len(sizes))
      /\ sending \in Seq(Begun(sizes)) /\ received \in Seq(Number \cup {Garbled})
  BY DEF IInv, Types
<1>2. /\ r \in Nat /\ Len(w) \in Nat /\ Len(s) \in Nat /\ Len(left) \in Nat
      /\ HeaderSize \in Nat /\ HeaderSize >= 1
  BY <1>1, LenProperties, FramingAssumption
<1>3. /\ Len(u) = len /\ Len(u) \in Nat
      /\ \A i \in 1 .. Len(s) : u[i] = s[i]
  <2>1. /\ Len(s \o left) = Len(s) + Len(left)
        /\ \A i \in 1 .. Len(s) + Len(left) : (s \o left)[i] =
              IF i <= Len(s) THEN s[i] ELSE left[i - Len(s)]
    BY ConcatProperties
  <2>2. \A i \in 1 .. Len(s) : i \in 1 .. Len(s) + Len(left) /\ i <= Len(s)
    BY <1>2
  <2> QED
    BY <1>2, <2>1, <2>2
<1> HIDE DEF r, w, u, len
<1>4. SUFFICES ASSUME r < Len(w) \/ ~torn
               PROVE  /\ k \in 1 .. Len(sizes) /\ Genuine(s) /\ s[1][1] = k
                      /\ r < Len(w) => Size(sizes, k) <= len
                      /\ ~(r < Len(w)) => sending # <<>> /\ len < Size(sizes, k)
                      /\ \A i \in 1 .. Size(sizes, k) : i <= Len(s) => s[i] = <<k, i>>
  BY DEF First, r, w, len
<1>5. Holds(sizes, w, r, u) /\ (~torn => Fits(sizes, w, r, u, FirstIn(sending), Cut(sending)))
  BY DEF IInv, Stream, r, w, u
<1>6. ~torn => r <= Len(w)
  BY DEF IInv, InOrder, r, w
<1>7. ASSUME NEW size \in Nat, HeaderSize <= size, \A i \in 1 .. size : i <= Len(s) => s[i] = <<k, i>>
      PROVE  Genuine(s) /\ s[1][1] = k
  <2>0. 1 \in 1 .. HeaderSize
    BY Headers
  <2>1. ASSUME NEW i \in 1 .. HeaderSize PROVE i \in 1 .. size /\ i <= Len(s)
    BY <1>2, <1>7, Headers
  <2>2. \A i \in 1 .. HeaderSize : s[i] = <<k, i>>
    BY <1>7, <2>1
  <2>3. s[1] = <<k, 1>>
    BY <2>0, <2>2
  <2> QED
    BY <2>2, <2>3 DEF Genuine
<1>8. CASE r < Len(w)
  <2>1. /\ k \in 1 .. Len(sizes) /\ Size(sizes, k) <= len
        /\ \A i \in 1 .. Size(sizes, k) : u[i] = <<k, i>>
    <3>1. k = w[r + 1] /\ Len(u) = len /\ Len(u) \in Nat /\ Holds(sizes, w, r, u)
      BY <1>3, <1>5, <1>8
    <3>2. /\ w[r + 1] \in 1 .. Len(sizes) /\ Size(sizes, w[r + 1]) <= Len(u)
          /\ \A i \in 1 .. Size(sizes, w[r + 1]) : u[i] = <<w[r + 1], i>>
      <4>1. /\ sizes \in Seq(0 .. MaxPayload) /\ w \in Seq(1 .. Len(sizes)) /\ r \in Nat
            /\ r < Len(w) /\ Len(u) \in Nat /\ Holds(sizes, w, r, u)
        BY <1>1, <1>2, <1>8, <3>1
      <4> HIDE DEF k
      <4> QED
        BY ONLY <4>1, FirstBytes
    <3> HIDE DEF k
    <3> QED
      BY <3>1, <3>2
  <2>2. Size(sizes, k) \in Nat /\ Size(sizes, k) >= HeaderSize
    BY <1>1, <2>1, Sizes
  <2>3. \A i \in 1 .. Size(sizes, k) : i <= Len(s) => s[i] = <<k, i>>
    BY <1>2, <1>3, <2>1, <2>2
  <2> QED
    BY <1>7, <1>8, <2>1, <2>2, <2>3
<1>9. CASE ~(r < Len(w))
  <2> DEFINE n == Cut(sending)
  <2>1. r = Len(w) /\ k = FirstIn(sending) /\ Fits(sizes, w, Len(w), u, k, n)
    BY <1>2, <1>4, <1>5, <1>6, <1>9
  <2>2. sending = <<>> => n = 0
    BY DEF Cut
  <2>3. /\ sending # <<>> =>
             /\ k \in 1 .. Len(sizes) /\ Size(sizes, k) \in Nat
             /\ n \in Nat /\ n < Size(sizes, k)
    <3>1. ASSUME sending # <<>>
          PROVE  /\ k = sending[1][1] /\ n = sending[1][2] - 1
                 /\ Parts(sizes, sending, sending[1][1], sending[1][2])
      <4>1. Sends(sizes, sending)
        BY <3>1 DEF IInv, InProgress
      <4>2. Parts(sizes, sending, sending[1][1], sending[1][2])
        BY <1>1, <3>1, <4>1, SendsParts
      <4> QED
        BY <2>1, <3>1, <4>2 DEF FirstIn, Cut
    <3> QED
      BY <3>1 DEF Parts
  <2> HIDE DEF n, k
  <2>4. n \in Nat
    BY <2>2, <2>3
  <2>5. Len(u) = n /\ \A i \in 1 .. n : u[i] = <<k, i>>
    <3>1. Begins(u, k, n)
      BY <1>2, <2>1, <2>4, LastBytes
    <3> QED
      BY <3>1 DEF Begins
  <2>6. sending # <<>>
    BY <1>2, <1>3, <2>2, <2>5 DEF len
  <2>7. /\ k \in 1 .. Len(sizes) /\ Size(sizes, k) \in Nat /\ n < Size(sizes, k) /\ len = n
    BY <1>3, <2>3, <2>5, <2>6
  <2>8. HeaderSize <= Size(sizes, k)
    BY <1>2, <2>7 DEF len
  <2>9. \A i \in 1 .. Size(sizes, k) : i <= Len(s) => s[i] = <<k, i>>
    <3>1. \A i \in 1 .. Size(sizes, k) : i <= Len(s) => i \in 1 .. n /\ i \in 1 .. Len(s)
      BY <1>2, <2>7 DEF len
    <3> QED
      BY <1>3, <2>5, <3>1
  <2> QED
    BY <1>7, <1>9, <2>6, <2>7, <2>8, <2>9 DEF k
<1> QED
  BY <1>8, <1>9

\* What the receiver leaves alone.
Kept == UNCHANGED <<out, up, connections>>

\* A packet comes out: the next one that was sent whole, or anything once those
\* are exhausted and something is torn.
Delivery ==
  \/ /\ Len(received) < Len(whole)
     /\ received' = Append(received, whole[Len(received) + 1])
  \/ /\ torn /\ Len(received) >= Len(whole)
     /\ \E p \in Number \cup {Garbled} : received' = Append(received, p)

\* Bytes that are read and not handed over are in the stream still.
LEMMA IncompleteStep ==
  ASSUME IInv, up, receiver = "open", NEW s \in Seq(Begun(sizes)), NEW left \in Seq(Begun(sizes)),
         s \o left = Unread, Len(left) <= Len(wire),
         NEW state \in {"WAITING_HEADER", "WAITING_PAYLOAD"}, NEW size \in Nat,
         state = "WAITING_HEADER" => Len(s) < HeaderSize,
         state = "WAITING_PAYLOAD" => /\ HeaderSize <= Len(s) /\ Len(s) < HeaderSize + size
                                      /\ Announces(sizes, s, size),
         Incomplete(state, s, size), wire' = left, Kept
  PROVE  IInv' /\ received' = received
<1>1. /\ UNCHANGED <<sizes, sending, whole, torn, sender, up, connections, receiver, received>>
      /\ rstate' = state /\ buf' = s /\ announced' = size /\ wire' = left
  BY DEF Kept, out, Incomplete
<1>2. Len(left) <= SocketBuffer
  <2>1. Len(left) \in Nat /\ Len(wire) \in Nat /\ Len(wire) <= SocketBuffer /\ SocketBuffer \in Nat
    BY LenProperties, FramingAssumption DEF IInv, Types
  <2> QED
    BY <2>1
<1>3. Types'
  BY <1>1, <1>2 DEF IInv, Types, Begun
<1>4. Buffered'
  BY <1>1 DEF Buffered, Announces, Genuine
<1>5. InProgress' /\ InOrder' /\ LastWordsHeard'
  BY <1>1 DEF IInv, InProgress, Sends, Part, Size, InOrder, LastWordsHeard
<1>6. Stream'
  <2>1. Unread' = Unread /\ (FirstIn(sending))' = FirstIn(sending) /\ (Cut(sending))' = Cut(sending)
    BY <1>1 DEF Unread, FirstIn, Cut
  <2> QED
    BY <1>1, <2>1 DEF IInv, Stream
<1> QED
  BY <1>1, <1>3, <1>4, <1>5, <1>6 DEF IInv

\* A receive that fails reports nothing more.
LEMMA FailedStep ==
  ASSUME IInv, Failed, Kept, wire' \in Seq(Begun(sizes)), Len(wire') <= SocketBuffer,
         up /\ ~torn => sender = "closed" /\ received = whole
  PROVE  IInv' /\ received' = received
<1>1. /\ UNCHANGED <<sizes, sending, whole, torn, sender, up, connections, rstate, buf, announced,
                     received>>
      /\ receiver' = "failed"
  BY DEF Kept, out, Failed, recvBuf
<1>2. Types'
  BY <1>1 DEF IInv, Types, Begun
<1>3. Buffered'
  BY <1>1 DEF IInv, Buffered, Announces, Genuine
<1>4. InProgress' /\ InOrder' /\ LastWordsHeard' /\ Stream'
  BY <1>1 DEF IInv, InProgress, Sends, Part, Size, InOrder, LastWordsHeard, Stream
<1> QED
  BY <1>1, <1>2, <1>3, <1>4 DEF IInv

\* The packet in progress is written up to a byte of it.
LEMMA CutInNat ==
  ASSUME Types
  PROVE  Cut(sending) \in Nat
<1>1. CASE sending = <<>>
  BY <1>1 DEF Cut
<1>2. CASE sending # <<>>
  <2>1. sending \in Seq(Begun(sizes)) /\ 1 \in 1 .. Len(sending)
    BY <1>2, LenProperties, EmptySeq DEF Types
  <2>2. sending[1] \in Begun(sizes)
    BY <2>1, ElementOfSeq
  <2>3. sending[1][2] \in Nat /\ sending[1][2] >= 1
    BY <2>2, FramingAssumption DEF Begun
  <2> QED
    BY <1>2, <2>3 DEF Cut
<1> QED
  BY <1>1, <1>2

\* A packet that is complete is the next one that was sent.
LEMMA ReturnedStep ==
  ASSUME IInv, up, receiver = "open", NEW s \in Seq(Begun(sizes)), NEW left \in Seq(Begun(sizes)),
         s \o left = Unread, Len(left) <= Len(wire), NEW size \in Nat,
         Len(s) = HeaderSize + size, Announces(sizes, s, size),
         Returned(s), wire' = left, Kept
  PROVE  IInv' /\ Delivery
<1> DEFINE r == Len(received)
           w == whole
           k == w[r + 1]
           p == PacketIn(s)
<1>1. /\ UNCHANGED <<sizes, sending, whole, torn, sender, up, connections, receiver>>
      /\ rstate' = "WAITING_HEADER" /\ buf' = <<>> /\ announced' = 0 /\ wire' = left
      /\ received' = Append(received, p)
  BY DEF Kept, out, Returned, RecvReset
<1>2. /\ sizes \in Seq(0 .. MaxPayload) /\ w \in Seq(1 .. Len(sizes))
      /\ received \in Seq(Number \cup {Garbled}) /\ torn \in BOOLEAN
      /\ r \in Nat /\ Len(w) \in Nat /\ Len(s) \in Nat /\ Len(left) \in Nat /\ Len(wire) \in Nat
      /\ Len(wire) <= SocketBuffer /\ Len(sizes) \in Nat /\ Len(sizes) <= MaxPackets
  BY LenProperties DEF IInv, Types
<1>3. HeaderSize \in Nat /\ HeaderSize >= 1 /\ MaxPackets \in Nat /\ SocketBuffer \in Nat
  BY FramingAssumption
<1>4. First(s, left)
  <2>1. Len(s) >= HeaderSize
    BY <1>3
  <2> QED
    BY <2>1, FirstOfStream
<1>5. torn \/ r < Len(w)
  <2>1. ASSUME ~torn, ~(r < Len(w)) PROVE FALSE
    <3> DEFINE f == FirstIn(sending)
    <3>1. f \in 1 .. Len(sizes) /\ Genuine(s) /\ s[1][1] = f /\ Len(s) + Len(left) < Size(sizes, f)
      BY <1>4, <2>1 DEF First
    <3>2. size = sizes[f]
      BY <3>1 DEF Announces
    <3>3. Size(sizes, f) = Len(s)
      BY <3>2 DEF Size
    <3> QED
      BY <1>2, <3>1, <3>3
  <2> QED
    BY <1>2, <2>1
<1>6. ASSUME r < Len(w) PROVE p = k /\ Len(s) = Size(sizes, k) /\ k \in 1 .. Len(sizes)
  <2>1. /\ k \in 1 .. Len(sizes) /\ Genuine(s) /\ s[1][1] = k
        /\ \A i \in 1 .. Size(sizes, k) : i <= Len(s) => s[i] = <<k, i>>
    BY <1>4, <1>6 DEF First
  <2>2. size = sizes[k]
    BY <2>1 DEF Announces
  <2>3. Len(s) = Size(sizes, k)
    BY <2>2 DEF Size
  <2>4. s = BytesOf(k, sizes[k])
    <3>1. s = [i \in 1 .. Len(s) |-> s[i]]
      BY LenProperties
    <3>2. \A i \in 1 .. Len(s) : s[i] = <<k, i>>
      BY <1>2, <2>1, <2>3
    <3>3. Len(s) = HeaderSize + sizes[k]
      BY <2>2
    <3> HIDE DEF k
    <3> QED
      BY <3>1, <3>2, <3>3 DEF BytesOf
  <2>5. p = k
    BY <2>1, <2>4 DEF PacketIn
  <2> QED
    BY <2>1, <2>3, <2>5
<1>7. p \in Number \cup {Garbled}
  <2>1. 1 \in 1 .. Len(s)
    BY <1>3
  <2>2. s[1] \in Begun(sizes)
    BY <2>1, ElementOfSeq
  <2>3. s[1][1] \in 1 .. Len(sizes)
    BY <2>2 DEF Begun
  <2>4. s[1][1] \in Number
    BY <1>2, <1>3, <2>3 DEF Number
  <2> QED
    BY <2>4 DEF PacketIn
<1> HIDE DEF p, k, w, r
<1>8. /\ received' \in Seq(Number \cup {Garbled}) /\ Len(received') = r + 1 /\ received'[r + 1] = p
      /\ \A i \in 1 .. r : received'[i] = received[i]
  BY <1>1, <1>2, <1>7, AppendProperties DEF r
<1>9. Types'
  <2>1. <<>> \in Seq(Begun(sizes)) /\ Len(left) <= SocketBuffer /\ 0 \in Nat
    BY <1>2, <1>3
  <2> QED
    BY <1>1, <1>8, <2>1 DEF IInv, Types, Begun
<1>10. Buffered'
  <2>1. Len(<<>>) < HeaderSize
    BY <1>3
  <2> QED
    BY <1>1, <2>1 DEF Buffered
<1>11. InProgress' /\ LastWordsHeard'
  BY <1>1 DEF IInv, InProgress, Sends, Part, Size, LastWordsHeard
<1>12. InOrder'
  <2>1. \A i \in 1 .. r : i <= Len(w) => received[i] = w[i]
    BY DEF IInv, InOrder, r, w
  <2>2. ASSUME NEW i \in 1 .. r + 1, i <= Len(w) PROVE received'[i] = w[i]
    <3>1. CASE i \in 1 .. r
      BY <1>8, <2>1, <2>2, <3>1
    <3>2. CASE i = r + 1
      <4>1. r < Len(w)
        BY <1>2, <2>2, <3>2
      <4>2. received'[i] = p /\ p = k /\ k = w[i]
        BY <1>6, <1>8, <3>2, <4>1 DEF k
      <4> QED
        BY <4>2
    <3> QED
      BY <1>2, <2>2, <3>1, <3>2
  <2>3. ~torn => r + 1 <= Len(w)
    BY <1>2, <1>5
  <2> QED
    BY <1>1, <1>8, <2>2, <2>3 DEF InOrder, w
<1>13. Stream'
  <2>1. Unread' = left /\ (FirstIn(sending))' = FirstIn(sending) /\ (Cut(sending))' = Cut(sending)
    <3>1. <<>> \o left = left
      BY ConcatEmptySeq
    <3> QED
      BY <1>1, <3>1 DEF Unread, FirstIn, Cut
  <2>2. /\ Holds(sizes, w, r, s \o left)
        /\ ~torn => Fits(sizes, w, r, s \o left, FirstIn(sending), Cut(sending))
    BY DEF IInv, Stream, r, w
  <2>3. CASE r < Len(w)
    <3>1. Len(s) = Size(sizes, w[r + 1])
      BY <1>6, <2>3 DEF k
    <3>2. Cut(sending) \in Nat
      BY CutInNat DEF IInv
    <3>3. /\ Holds(sizes, w, r + 1, left)
          /\ ~torn => Fits(sizes, w, r + 1, left, FirstIn(sending), Cut(sending))
      BY <1>2, <2>2, <2>3, <3>1, <3>2, FirstTaken
    <3> QED
      BY <1>1, <1>8, <2>1, <3>3 DEF Stream, w
  <2>4. CASE ~(r < Len(w))
    <3>1. torn /\ r + 1 >= Len(w) /\ r + 1 \in Nat
      BY <1>2, <1>5, <2>4
    <3>2. Holds(sizes, w, r + 1, left)
      <4>1. PICK off : Laid(sizes, w, r, s \o left, off)
        BY <2>2 DEF Holds
      <4> QED
        BY <1>2, <3>1, <4>1, Exhausted
    <3> QED
      BY <1>1, <1>8, <2>1, <3>1, <3>2 DEF Stream, w
  <2> QED
    BY <2>3, <2>4
<1>14. Delivery
  <2>1. CASE r < Len(w)
    BY <1>1, <1>6, <2>1 DEF Delivery, r, w, k
  <2>2. CASE ~(r < Len(w))
    <3>1. torn /\ r >= Len(w)
      BY <1>2, <1>5, <2>2
    <3> QED
      BY <1>1, <1>7, <3>1 DEF Delivery, r, w
  <2> QED
    BY <2>1, <2>2
<1> QED
  BY <1>9, <1>10, <1>11, <1>12, <1>13, <1>14 DEF IInv

\* What a header is read as.
LEMMA HeaderRead ==
  ASSUME NEW s \in Seq(Begun(sizes)), Len(s) = HeaderSize, sizes \in Seq(0 .. MaxPayload),
         NEW header \in PayloadSizes(SubSeq(s, 1, HeaderSize))
  PROVE  /\ Genuine(s) => header # {} /\ \A size \in header : ~TooLarge(size)
         /\ \A size \in header : size \in Nat
         /\ \A size \in header : ~TooLarge(size) => Announces(sizes, s, size)
<1> DEFINE k == s[1][1]
<1>1. HeaderSize \in Nat /\ HeaderSize >= 1 /\ MaxPayload \in Nat
  BY FramingAssumption
<1>2. SubSeq(s, 1, HeaderSize) = s
  BY SubSeqFull
<1>3. k \in 1 .. Len(sizes) /\ k \in Nat
  <2>1. 1 \in 1 .. Len(s)
    BY <1>1
  <2>2. s[1] \in Begun(sizes) /\ Len(sizes) \in Nat
    BY <2>1, ElementOfSeq, LenProperties
  <2> QED
    BY <2>2 DEF Begun
<1>4. sizes[k] \in 0 .. MaxPayload
  BY <1>3, ElementOfSeq
<1>5. ASSUME Genuine(s) PROVE s = SubSeq(BytesOf(k, sizes[k]), 1, HeaderSize)
  <2> DEFINE b == BytesOf(k, sizes[k])
             h == SubSeq(b, 1, HeaderSize)
  <2>1. /\ b \in Seq({k} \X (1 .. HeaderSize + MaxPayload)) /\ Len(b) = HeaderSize + sizes[k]
        /\ \A i \in 1 .. HeaderSize + sizes[k] : b[i] = <<k, i>>
    BY <1>3, <1>4, PacketBytes
  <2>2. HeaderSize \in 1 .. Len(b)
    BY <1>1, <1>4, <2>1
  <2> HIDE DEF b
  <2>3. Len(h) = HeaderSize /\ \A i \in 1 .. HeaderSize : h[i] = b[i]
    BY <2>1, <2>2, RestParts
  <2>4. h \in Seq({k} \X (1 .. HeaderSize + MaxPayload))
    BY <2>1, <2>2, RestParts
  <2>5. \A i \in 1 .. HeaderSize : i \in 1 .. HeaderSize + sizes[k]
    BY <1>1, <1>4
  <2>6. \A i \in 1 .. HeaderSize : h[i] = s[i]
    BY <1>5, <2>1, <2>3, <2>5 DEF Genuine
  <2> HIDE DEF h
  <2>7. s = [i \in 1 .. HeaderSize |-> s[i]] /\ h = [i \in 1 .. HeaderSize |-> h[i]]
    BY <2>3, <2>4, LenProperties
  <2> QED
    BY <2>6, <2>7 DEF b, h
<1>6. \/ s = SubSeq(BytesOf(k, sizes[k]), 1, HeaderSize) /\ header = {sizes[k]}
      \/ /\ s # SubSeq(BytesOf(k, sizes[k]), 1, HeaderSize)
         /\ header = {} \/ \E m \in Misread : header = {m}
  BY <1>2 DEF PayloadSizes
<1>7. CASE s = SubSeq(BytesOf(k, sizes[k]), 1, HeaderSize) /\ header = {sizes[k]}
  <2> HIDE DEF k
  <2>1. sizes[k] \in Nat /\ ~(sizes[k] > MaxPayload)
    BY <1>1, <1>4
  <2> QED
    BY <1>4, <1>7, <2>1 DEF TooLarge, Announces, k
<1>8. CASE /\ s # SubSeq(BytesOf(k, sizes[k]), 1, HeaderSize)
           /\ header = {} \/ \E m \in Misread : header = {m}
  <2>1. ~Genuine(s)
    BY <1>5, <1>8
  <2>2. \A m \in Misread : m \in Nat /\ (~(m > MaxPayload) => m \in 0 .. MaxPayload)
    BY <1>1 DEF Misread
  <2> QED
    BY <1>8, <2>1, <2>2 DEF TooLarge, Announces
<1> QED
  BY <1>6, <1>7, <1>8

\* Bytes of the stream are taken from left to right.
Reads(B, s, left, n, got, rest) ==
  /\ got \in Seq(B) /\ rest \in Seq(B) /\ got \o rest = s \o left
  /\ Len(got) = Len(s) + n /\ Len(rest) <= Len(left)
  /\ \A i \in 1 .. Len(s) : got[i] = s[i]

LEMMA MoreRead ==
  ASSUME NEW B, NEW s \in Seq(B), NEW left \in Seq(B), NEW n \in 1 .. Len(left)
  PROVE  Reads(B, s, left, n, s \o SubSeq(left, 1, n), SubSeq(left, n + 1, Len(left)))
<1> DEFINE head == SubSeq(left, 1, n)
           rest == SubSeq(left, n + 1, Len(left))
           got  == s \o head
<1>1. /\ head \in Seq(B) /\ rest \in Seq(B) /\ Len(head) = n /\ Len(rest) = Len(left) - n
      /\ head \o rest = left
  BY RestParts
<1>2. Len(s) \in Nat /\ Len(left) \in Nat
  BY LenProperties
<1> HIDE DEF head, rest, got
<1>3. /\ s \o head \in Seq(B) /\ Len(s \o head) = Len(s) + Len(head)
      /\ \A i \in 1 .. Len(s) + Len(head) : (s \o head)[i] =
            IF i <= Len(s) THEN s[i] ELSE head[i - Len(s)]
  BY <1>1, ConcatProperties
<1>4. \A i \in 1 .. Len(s) : i \in 1 .. Len(s) + Len(head) /\ i <= Len(s)
  BY <1>1, <1>2
<1>5. Regroup(s, head, rest)
  BY <1>1, Regroups
<1>6. got = s \o head
  BY DEF got
<1>7. Len(rest) <= Len(left)
  BY <1>1, <1>2
<1>8. got \o rest = s \o left
  BY <1>1, <1>5, <1>6 DEF Regroup
<1>9. \A i \in 1 .. Len(s) : got[i] = s[i]
  BY <1>3, <1>4, <1>6
<1>10. Reads(B, s, left, n, got, rest)
  BY <1>1, <1>3, <1>6, <1>7, <1>8, <1>9 DEF Reads
<1> QED
  BY <1>10 DEF head, got, rest

\* The payload phase asks for no byte of the packet after.
LEMMA PayloadStep ==
  ASSUME IInv, up, receiver = "open", NEW s \in Seq(Begun(sizes)), NEW left \in Seq(Begun(sizes)),
         s \o left = Unread, Len(left) <= Len(wire), NEW size \in Nat,
         HeaderSize <= Len(s), Len(s) < HeaderSize + size, Announces(sizes, s, size),
         ReadPayload(s, size, left), Kept
  PROVE  IInv' /\ (received' = received \/ Delivery)
<1>1. HeaderSize \in Nat /\ HeaderSize >= 1 /\ SocketBuffer \in Nat
  BY FramingAssumption
<1>2. /\ Len(s) \in Nat /\ Len(left) \in Nat /\ Len(wire) \in Nat /\ Len(received) \in Nat
      /\ Len(whole) \in Nat /\ torn \in BOOLEAN /\ Len(wire) <= SocketBuffer
  BY LenProperties DEF IInv, Types
<1>3. CASE Incomplete("WAITING_PAYLOAD", s, size) /\ wire' = left
  BY <1>3, IncompleteStep
<1>4. CASE left = <<>> /\ sender = "closed" /\ Failed /\ wire' = left
  <2>1. First(s, left)
    BY <1>1, <1>2, FirstOfStream
  <2>2. sending = <<>>
    BY <1>4 DEF IInv, InProgress
  <2>3. ASSUME ~torn PROVE FALSE
    <3> DEFINE k == IF Len(received) < Len(whole) THEN whole[Len(received) + 1] ELSE FirstIn(sending)
    <3>1. /\ Genuine(s) /\ s[1][1] = k /\ Len(received) < Len(whole)
          /\ Size(sizes, k) <= Len(s) + Len(left)
      BY <2>1, <2>2, <2>3 DEF First
    <3> HIDE DEF k
    <3>2. Size(sizes, k) = HeaderSize + size
      BY <3>1 DEF Announces, Size
    <3>3. Len(left) = 0
      BY <1>4
    <3> QED
      BY <1>1, <1>2, <3>1, <3>2, <3>3
  <2>4. wire' \in Seq(Begun(sizes)) /\ Len(wire') <= SocketBuffer
    BY <1>1, <1>2, <1>4
  <2> QED
    BY <1>4, <2>3, <2>4, FailedStep
<1>5. ASSUME NEW n \in 1 .. Len(left), NEW got, got = s \o SubSeq(left, 1, n),
             n <= HeaderSize + size - Len(s), wire' = SubSeq(left, n + 1, Len(left)),
             IF Len(got) < HeaderSize + size THEN Incomplete("WAITING_PAYLOAD", got, size)
                                             ELSE Returned(got)
      PROVE  IInv' /\ (received' = received \/ Delivery)
  <2> DEFINE B == Begun(sizes)
             rest == SubSeq(left, n + 1, Len(left))
  <2>1. /\ got \in Seq(B) /\ rest \in Seq(B) /\ got \o rest = Unread
        /\ Len(got) = Len(s) + n /\ Len(rest) <= Len(left)
        /\ \A i \in 1 .. Len(s) : got[i] = s[i]
    <3>1. Reads(B, s, left, n, got, rest)
      BY <1>5, MoreRead
    <3> HIDE DEF rest
    <3> QED
      BY <3>1 DEF Reads
  <2> HIDE DEF rest
  <2>2. Announces(sizes, got, size)
    <3>1. \A i \in 1 .. HeaderSize : got[i] = s[i] /\ 1 \in 1 .. HeaderSize
      BY <1>1, <1>2, <2>1
    <3>2. got[1] = s[1] /\ \A i \in 1 .. HeaderSize : got[i] = s[i]
      BY <1>1, <3>1
    <3> QED
      BY <3>2 DEF Announces, Genuine
  <2>3. Len(rest) \in Nat /\ Len(rest) <= Len(wire) /\ Len(got) \in Nat /\ HeaderSize <= Len(got)
    BY <1>1, <1>2, <2>1, LenProperties
  <2>4. wire' = rest
    BY <1>5 DEF rest
  <2>5. CASE Len(got) < HeaderSize + size
    <3>1. Incomplete("WAITING_PAYLOAD", got, size)
      BY <1>5, <2>5
    <3> QED
      BY <2>1, <2>2, <2>3, <2>4, <2>5, <3>1, IncompleteStep
  <2>6. CASE ~(Len(got) < HeaderSize + size)
    <3>1. Returned(got)
      BY <1>5, <2>6
    <3>2. Len(got) = HeaderSize + size
      <4>1. Len(got) = Len(s) + n /\ n <= HeaderSize + size - Len(s) /\ n \in Nat
        BY <1>2, <1>5, <2>1
      <4> DEFINE a == Len(got)
                 b == Len(s)
                 h == HeaderSize + size
      <4>2. a \in Nat /\ b \in Nat /\ h \in Nat /\ a = b + n /\ n <= h - b /\ ~(a < h) /\ n \in Nat
        BY <1>1, <1>2, <2>3, <2>6, <4>1
      <4> HIDE DEF a, b, h
      <4>3. a = h
        BY <4>2
      <4> QED
        BY <4>3 DEF a, h
    <3> QED
      BY <2>1, <2>2, <2>3, <2>4, <3>1, <3>2, ReturnedStep
  <2> QED
    BY <2>5, <2>6
<1> QED
  BY <1>3, <1>4, <1>5 DEF ReadPayload

\* Nor does the header phase.
LEMMA HeaderStep ==
  ASSUME IInv, up, receiver = "open", rstate = "WAITING_HEADER", ReadHeader, Kept
  PROVE  IInv' /\ (received' = received \/ Delivery)
<1>1. PICK n \in MayRead(HeaderSize - Len(buf)) :
        LET got == buf \o SubSeq(wire, 1, n)
            left == SubSeq(wire, n + 1, Len(wire))
        IN  \/ /\ Len(got) < HeaderSize
               /\ Incomplete("WAITING_HEADER", got, 0) /\ wire' = left
            \/ /\ Len(got) >= HeaderSize
               /\ \E header \in PayloadSizes(SubSeq(got, 1, HeaderSize)) :
                    \/ header = {} /\ Failed /\ wire' = left
                    \/ \E size \in header :
                         \/ TooLarge(size) /\ Failed /\ wire' = left
                         \/ size = 0 /\ Returned(got) /\ wire' = left
                         \/ /\ ~TooLarge(size) /\ size > 0
                            /\ ReadPayload(got, size, left)
  BY DEF ReadHeader
<1> DEFINE B == Begun(sizes)
           got == buf \o SubSeq(wire, 1, n)
           left == SubSeq(wire, n + 1, Len(wire))
<1>2. n \in 1 .. Len(wire) /\ n <= HeaderSize - Len(buf)
  BY DEF MayRead
<1>3. /\ buf \in Seq(B) /\ wire \in Seq(B) /\ Len(buf) \in Nat /\ Len(wire) \in Nat
      /\ Len(wire) <= SocketBuffer /\ Len(buf) < HeaderSize /\ torn \in BOOLEAN
      /\ sizes \in Seq(0 .. MaxPayload)
  BY LenProperties DEF IInv, Types, Buffered
<1>4. HeaderSize \in Nat /\ HeaderSize >= 1 /\ SocketBuffer \in Nat
  BY FramingAssumption
<1>5. Reads(B, buf, wire, n, got, left)
  BY <1>2, <1>3, MoreRead
<1>6. \/ /\ Len(got) < HeaderSize
         /\ Incomplete("WAITING_HEADER", got, 0) /\ wire' = left
      \/ /\ Len(got) >= HeaderSize
         /\ \E header \in PayloadSizes(SubSeq(got, 1, HeaderSize)) :
              \/ header = {} /\ Failed /\ wire' = left
              \/ \E size \in header :
                   \/ TooLarge(size) /\ Failed /\ wire' = left
                   \/ size = 0 /\ Returned(got) /\ wire' = left
                   \/ /\ ~TooLarge(size) /\ size > 0
                      /\ ReadPayload(got, size, left)
  BY <1>1
<1> HIDE DEF got, left
<1>7. /\ got \in Seq(B) /\ left \in Seq(B) /\ got \o left = Unread
      /\ Len(got) = Len(buf) + n /\ Len(left) <= Len(wire)
  BY <1>5 DEF Reads, Unread
<1>8. Len(got) \in Nat /\ Len(left) \in Nat /\ Len(got) <= HeaderSize /\ Len(left) <= SocketBuffer
  <2>1. Len(got) \in Nat /\ Len(left) \in Nat
    BY <1>7, LenProperties
  <2> QED
    BY <1>2, <1>3, <1>4, <1>7, <2>1
<1>9. CASE Len(got) < HeaderSize /\ Incomplete("WAITING_HEADER", got, 0) /\ wire' = left
  BY <1>7, <1>9, IncompleteStep
<1>10. ASSUME Len(got) >= HeaderSize, NEW header \in PayloadSizes(SubSeq(got, 1, HeaderSize)),
              \/ header = {} /\ Failed /\ wire' = left
              \/ \E size \in header :
                   \/ TooLarge(size) /\ Failed /\ wire' = left
                   \/ size = 0 /\ Returned(got) /\ wire' = left
                   \/ /\ ~TooLarge(size) /\ size > 0
                      /\ ReadPayload(got, size, left)
       PROVE  IInv' /\ (received' = received \/ Delivery)
  <2>1. Len(got) = HeaderSize
    BY <1>4, <1>8, <1>10
  <2>2. /\ Genuine(got) => header # {} /\ \A size \in header : ~TooLarge(size)
        /\ \A size \in header : size \in Nat
        /\ \A size \in header : ~TooLarge(size) => Announces(sizes, got, size)
    BY <1>3, <1>7, <1>10, <2>1, HeaderRead
  <2>3. ~torn => Genuine(got)
    <3>1. First(got, left)
      BY <1>7, <1>10, FirstOfStream
    <3> QED
      BY <3>1 DEF First
  <2>4. ASSUME Failed, wire' = left, header = {} \/ \E size \in header : TooLarge(size)
        PROVE  IInv' /\ received' = received
    <3>1. torn
      BY <1>3, <2>2, <2>3, <2>4
    <3> QED
      BY <1>7, <1>8, <2>4, <3>1, FailedStep
  <2>5. ASSUME NEW size \in header, size = 0, Returned(got), wire' = left
        PROVE  IInv' /\ Delivery
    <3>1. size \in Nat /\ Len(got) = HeaderSize + size /\ ~TooLarge(size)
      <4>1. MaxPayload \in Nat
        BY FramingAssumption
      <4> QED
        BY <1>4, <2>1, <2>5, <4>1 DEF TooLarge
    <3>2. Announces(sizes, got, size)
      BY <2>2, <3>1
    <3> QED
      BY <1>7, <2>5, <3>1, <3>2, ReturnedStep
  <2>6. ASSUME NEW size \in header, ~TooLarge(size), size > 0, ReadPayload(got, size, left)
        PROVE  IInv' /\ (received' = received \/ Delivery)
    <3>1. size \in Nat /\ Announces(sizes, got, size)
      BY <2>2, <2>6
    <3>2. HeaderSize <= Len(got) /\ Len(got) < HeaderSize + size
      BY <1>4, <2>1, <2>6, <3>1
    <3> QED
      BY <1>7, <2>6, <3>1, <3>2, PayloadStep
  <2> QED
    BY <1>10, <2>4, <2>5, <2>6
<1> QED
  BY <1>6, <1>9, <1>10

LEMMA ReceiveStep ==
  ASSUME IInv, Receive
  PROVE  IInv' /\ (received' = received \/ (up /\ Delivery))
<1>1. Kept /\ receiver = "open"
  BY DEF Receive, Kept
<1>2. CASE up /\ rstate = "WAITING_HEADER" /\ ReadHeader
  <2>1. IInv' /\ (received' = received \/ Delivery)
    BY <1>1, <1>2, HeaderStep
  <2> QED
    BY <1>2, <2>1
<1>3. CASE up /\ rstate = "WAITING_PAYLOAD" /\ ReadPayload(buf, announced, wire)
  <2>1. /\ buf \in Seq(Begun(sizes)) /\ wire \in Seq(Begun(sizes)) /\ announced \in Nat
        /\ Len(wire) \in Nat /\ buf \o wire = Unread
    BY LenProperties DEF IInv, Types, Unread
  <2>2. /\ HeaderSize <= Len(buf) /\ Len(buf) < HeaderSize + announced
        /\ Announces(sizes, buf, announced)
    BY <1>3 DEF IInv, Buffered
  <2>3. Len(wire) <= Len(wire)
    BY <2>1
  <2>4. IInv' /\ (received' = received \/ Delivery)
    BY <1>1, <1>3, <2>1, <2>2, <2>3, PayloadStep
  <2> QED
    BY <1>3, <2>4
<1>4. CASE /\ wire = <<>> /\ (rstate = "WAITING_HEADER" \/ ~up) /\ (sender = "closed" \/ ~up)
           /\ Failed /\ wire' = wire
  <2>1. /\ wire' \in Seq(Begun(sizes)) /\ Len(wire') <= SocketBuffer
    BY <1>4 DEF IInv, Types
  <2>2. ASSUME up, ~torn PROVE sender = "closed" /\ received = whole
    <3> DEFINE r == Len(received)
               w == whole
    <3>1. /\ r \in Nat /\ Len(w) \in Nat /\ Len(buf) \in Nat /\ r <= Len(w)
          /\ sizes \in Seq(0 .. MaxPayload) /\ w \in Seq(1 .. Len(sizes))
          /\ received \in Seq(Number \cup {Garbled}) /\ buf \in Seq(Begun(sizes))
          /\ Len(sizes) \in Nat
      BY <2>2, LenProperties DEF IInv, Types, InOrder
    <3>2. Unread = buf /\ Len(buf) < HeaderSize /\ HeaderSize \in Nat
      <4>1. buf \o <<>> = buf
        BY <3>1, ConcatEmptySeq
      <4> QED
        BY <1>4, <2>2, <4>1, FramingAssumption DEF Unread, IInv, Buffered
    <3>3. ~(r < Len(w))
      <4>1. ASSUME r < Len(w) PROVE FALSE
        <5>1. Holds(sizes, w, r, buf)
          BY <1>1, <2>2, <3>2 DEF IInv, Stream
        <5>2. w[r + 1] \in 1 .. Len(sizes) /\ Size(sizes, w[r + 1]) <= Len(buf)
          BY <3>1, <4>1, <5>1, FirstBytes
        <5>3. Size(sizes, w[r + 1]) \in Nat /\ Size(sizes, w[r + 1]) >= HeaderSize
          BY <3>1, <5>2, Sizes
        <5> QED
          BY <3>1, <3>2, <5>2, <5>3
      <4> QED
        BY <4>1
    <3>4. r = Len(w)
      BY <3>1, <3>3
    <3>5. \A i \in 1 .. r : received[i] = w[i]
      BY <3>1, <3>4 DEF IInv, InOrder
    <3>6. received = [i \in 1 .. r |-> received[i]] /\ w = [i \in 1 .. Len(w) |-> w[i]]
      BY <3>1, LenProperties
    <3> HIDE DEF r
    <3>7. received = w
      BY <3>4, <3>5, <3>6
    <3> QED
      BY <1>4, <2>2, <3>7
  <2>3. IInv' /\ received' = received
    BY <1>1, <1>4, <2>1, <2>2, FailedStep
  <2> QED
    BY <2>3
<1> QED
  BY <1>2, <1>3, <1>4 DEF Receive

-----------------------------------------------------------------------------
(* Theorems *)

LEMMA StutterStep ==
  ASSUME IInv, UNCHANGED vars
  PROVE  IInv'
<1>1. UNCHANGED <<sizes, sending, wire, whole, torn, sender, up, rstate, buf, announced,
                  receiver, received, connections>>
  BY DEF vars
<1>2. Types' /\ Buffered'
  BY <1>1 DEF IInv, Types, Begun, Buffered, Announces, Genuine
<1>3. InProgress' /\ InOrder' /\ LastWordsHeard'
  BY <1>1 DEF IInv, InProgress, Sends, Part, Size, InOrder, LastWordsHeard
<1>4. Stream'
  <2>1. Unread' = Unread /\ (FirstIn(sending))' = FirstIn(sending) /\ (Cut(sending))' = Cut(sending)
    BY <1>1 DEF Unread, FirstIn, Cut
  <2> QED
    BY <1>1, <2>1 DEF IInv, Stream
<1> QED
  BY <1>2, <1>3, <1>4 DEF IInv

LEMMA InitHolds == Init => IInv
<1> SUFFICES ASSUME Init PROVE IInv
  OBVIOUS
<1>1. MaxConnections \in Nat \ {0}
  BY FramingAssumption
<1>2. Fresh
  BY <1>1 DEF Init, Fresh
<1> QED
  BY <1>2, FreshHolds

LEMMA StepHolds ==
  ASSUME IInv, [Next]_vars
  PROVE  IInv'
<1>1. CASE Send
  BY <1>1, SendStep
<1>2. CASE SendPair
  BY <1>2, SendPairStep
<1>3. CASE Write
  BY <1>3, WriteStep
<1>4. CASE WriteFails
  BY <1>4, WriteFailsStep
<1>5. CASE Close
  BY <1>5, CloseStep
<1>6. CASE Receive
  BY <1>6, ReceiveStep
<1>7. CASE Break
  BY <1>7, BreakStep
<1>8. CASE Reconnect
  BY <1>8, ReconnectStep
<1>9. CASE UNCHANGED vars
  BY <1>9, StutterStep
<1> QED
  BY <1>1, <1>2, <1>3, <1>4, <1>5, <1>6, <1>7, <1>8, <1>9 DEF Next

\* The packets written whole lie one after the other in the bytes on their way.
THEOREM Invariance == Spec => []IInv
  BY InitHolds, StepHolds, PTL DEF Spec

\* The receive buffer never overflows, however the bytes come.
THEOREM TypesHold == Spec => []TypeOK
<1>1. ASSUME IInv PROVE TypeOK
  <2>1. /\ HeaderSize \in Nat /\ MaxPayload \in Nat /\ MaxPackets \in Nat
    BY FramingAssumption
  <2>2. /\ Len(sizes) \in Nat /\ Len(sizes) <= MaxPackets /\ Len(buf) \in Nat
    BY <1>1, LenProperties DEF IInv, Types
  <2>3. Begun(sizes) \subseteq Byte /\ 1 .. Len(sizes) \subseteq Number
    BY <2>1, <2>2 DEF Begun, Byte, Number
  <2>4. sending \in Seq(Byte) /\ wire \in Seq(Byte) /\ buf \in Seq(Byte) /\ whole \in Seq(Number)
    BY <1>1, <2>3, Wider DEF IInv, Types
  <2>5. Len(buf) <= HeaderSize + MaxPayload
    <3>1. CASE rstate = "WAITING_HEADER"
      BY <1>1, <2>1, <2>2, <3>1 DEF IInv, Buffered
    <3>2. CASE rstate = "WAITING_PAYLOAD"
      <4>1. Len(buf) < HeaderSize + announced /\ announced \in 0 .. MaxPayload
        BY <1>1, <3>2 DEF IInv, Buffered, Announces
      <4> QED
        BY <2>1, <2>2, <4>1
    <3> QED
      BY <1>1, <3>1, <3>2 DEF IInv, Types
  <2> QED
    BY <1>1, <2>4, <2>5 DEF IInv, Types, TypeOK
<1> QED
  BY <1>1, Invariance, PTL

\* A receive fails only when everything that was sent has been read.
THEOREM LastWordsAlwaysHeard == Spec => []LastWordsHeard
<1>1. IInv => LastWordsHeard
  BY DEF IInv
<1> QED
  BY <1>1, Invariance, PTL

LEMMA PipeStep ==
  ASSUME IInv, [Next]_vars
  PROVE  [Pipe!Next]_Pipe!vars
<1>1. ASSUME UNCHANGED <<whole, received, torn, up>> PROVE UNCHANGED Pipe!vars
  BY <1>1 DEF Pipe!vars
<1>2. CASE Send \/ SendPair \/ Close \/ UNCHANGED vars
  BY <1>1, <1>2 DEF Send, SendPair, Close, vars
<1>3. CASE Write
  <2>1. PICK n \in 1 .. Len(sending) : whole' = IF torn THEN whole ELSE whole \o Finished(n)
    BY <1>3 DEF Write
  <2>2. UNCHANGED <<received, torn, up>>
    BY <1>3 DEF Write
  <2> DEFINE k == sending[1][1]
  <2>3. /\ sizes \in Seq(0 .. MaxPayload) /\ sending \in Seq(Begun(sizes)) /\ torn \in BOOLEAN
        /\ whole \in Seq(1 .. Len(sizes)) /\ sending # <<>> /\ Sends(sizes, sending)
    <3>1. /\ sizes \in Seq(0 .. MaxPayload) /\ sending \in Seq(Begun(sizes)) /\ torn \in BOOLEAN
          /\ whole \in Seq(1 .. Len(sizes))
      BY DEF IInv, Types
    <3>2. sending # <<>>
      BY <2>1, <3>1, EmptySeq
    <3> QED
      BY <3>1, <3>2 DEF IInv, InProgress
  <2>4. Takes(n, sending[1][1], sending[1][2])
    BY <2>3, RestOfSending
  <2>5. k \in 1 .. Len(sizes)
    <3>1. Parts(sizes, sending, sending[1][1], sending[1][2])
      BY <2>3, SendsParts
    <3> QED
      BY <3>1 DEF Parts
  <2>6. /\ whole \o <<>> = whole
        /\ k \in Number \cup {Garbled}
        /\ k + 1 \in 1 .. Len(sizes) => k + 1 \in Number \cup {Garbled}
    <3>1. whole \o <<>> = whole
      BY <2>3, ConcatEmptySeq
    <3>2. Len(sizes) \in Nat /\ Len(sizes) <= MaxPackets /\ MaxPackets \in Nat
      BY <2>3, LenProperties, FramingAssumption DEF IInv, Types
    <3> QED
      BY <2>5, <3>1, <3>2 DEF Number
  <2>7. \/ Finished(n) = <<>>
        \/ Finished(n) = <<k>>
        \/ Finished(n) = <<k, k + 1>> /\ k + 1 \in 1 .. Len(sizes)
    BY <2>4 DEF Takes
  <2> HIDE DEF k
  <2>8. CASE torn \/ Finished(n) = <<>>
    BY <1>1, <2>1, <2>2, <2>3, <2>6, <2>8
  <2>9. CASE ~torn /\ Finished(n) = <<k>>
    <3>1. <<k>> \in [1 .. 1 -> Number \cup {Garbled}] /\ 1 \in 1 .. 2
      BY <2>6
    <3>2. Pipe!Send
      BY <2>1, <2>2, <2>9, <3>1 DEF Pipe!Send
    <3> QED
      BY <3>2 DEF Pipe!Next
  <2>10. CASE ~torn /\ Finished(n) = <<k, k + 1>> /\ k + 1 \in 1 .. Len(sizes)
    <3>1. <<k, k + 1>> \in [1 .. 2 -> Number \cup {Garbled}] /\ 2 \in 1 .. 2
      BY <2>6, <2>10
    <3>2. Pipe!Send
      BY <2>1, <2>2, <2>10, <3>1 DEF Pipe!Send
    <3> QED
      BY <3>2 DEF Pipe!Next
  <2> QED
    BY <2>7, <2>8, <2>9, <2>10
<1>4. CASE WriteFails
  <2>1. /\ UNCHANGED <<whole, received, up>> /\ torn' = (torn \/ MidPacket(sending))
        /\ torn \in BOOLEAN
    BY <1>4 DEF WriteFails, IInv, Types
  <2>2. CASE torn \/ ~MidPacket(sending)
    BY <1>1, <2>1, <2>2
  <2>3. CASE ~torn /\ MidPacket(sending)
    BY <2>1, <2>3 DEF Pipe!Next, Pipe!Tear
  <2> QED
    BY <2>2, <2>3
<1>5. CASE Receive
  <2>1. UNCHANGED <<whole, torn, up>>
    BY <1>5 DEF Receive, out
  <2>2. CASE received' = received
    BY <1>1, <2>1, <2>2
  <2>3. CASE up /\ Delivery
    BY <2>1, <2>3 DEF Delivery, Pipe!Next, Pipe!Deliver, Pipe!DeliverGarbage
  <2> QED
    BY <1>5, <2>2, <2>3, ReceiveStep
<1>6. CASE Break
  BY <1>6 DEF Break, out, Pipe!Next, Pipe!Break
<1>7. CASE Reconnect
  BY <1>7 DEF Reconnect, RecvReset, Pipe!Next, Pipe!Reconnect
<1> QED
  BY <1>2, <1>3, <1>4, <1>5, <1>6, <1>7 DEF Next

\* However reads and writes cut the bytes, whole packets come out as they went in,
\* until one is torn.
THEOREM ImplementsPipe == Spec => Pipe!Safety
<1>1. Init => Pipe!Init
  BY DEF Init, Pipe!Init
<1> QED
  BY <1>1, PipeStep, Invariance, PTL DEF Spec, Pipe!Safety

====
