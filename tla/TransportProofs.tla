-------------------------- MODULE TransportProofs ---------------------------
(***************************************************************************)
(* Proofs about module Transport: types, packets handed on as they were    *)
(* written, and the refinement of PacketFifo, for every width of the       *)
(* header's fields, every number of writers and any way the connection     *)
(* cuts the cells.                                                         *)
(*                                                                         *)
(* The inductive invariant says where each packet's cells are.  Packet k   *)
(* begins at position at[k] of all the cells ever written; what is in      *)
(* flight are the cells behind the ones consumed, and the read handler     *)
(* that waits is in step with them.                                        *)
(***************************************************************************)
EXTENDS Transport, SequenceTheorems, TLAPS

\* No payload is empty, and its length fits the additional length word.  With an empty
\* one the handlers do wait for a length that was never written.
WholeLengths == \A packet \in Packets : Len(packet.payload) \in 1 .. LengthRange - 1

HeaderLength(packet) == IF Len(packet.payload) <= SizeRange - 1 THEN 1 ELSE 2

\* Packet k begins behind position at[k] of all the cells of these packets.
Located(at, packets) ==
    /\ at \in [1 .. Len(packets) + 1 -> Nat] /\ at[1] = 0
    /\ \A k \in 1 .. Len(packets) : at[k + 1] = at[k] + Len(Cells(packets[k]))
    /\ \A k, l \in 1 .. Len(packets) + 1 : k <= l => at[k] <= at[l]

\* Behind the first `base' cells comes this stream: where it reaches into a packet it
\* has the packet's cells.
Frames(at, packets, stream, base, first) ==
    \A k \in first .. Len(packets) : \A i \in 1 .. Len(Cells(packets[k])) :
        (at[k] + i) - base \in 1 .. Len(stream)
        => stream[(at[k] + i) - base] = Cells(packets[k])[i]

\* Names for terms the provers are to see no further into.
Joined(s, t) == s \o t

First(s, c) == SubSeq(s, 1, c)

Back(s, c) == SubSeq(s, c + 1, Len(s))

\* t is s without its first c cells.
Drops(t, s, c) ==
    /\ t \in Seq(Nat) /\ Len(t) + c = Len(s)
    /\ \A j \in 1 .. Len(t) : t[j] = s[j + c]

\* Cells written and not yet consumed; a broken connection takes no more of them.
Flight(b, w, u) == (b \o w) \o u

InFlight == Flight(buffer, wire, IF broken THEN <<>> ELSE unsent)

\* The packet the read handlers are at.
Current == sent[Len(delivered) + 1]

Consumed == IF phase = "header" THEN 0 ELSE IF phase = "length" THEN 1 ELSE HeaderLength(Current)

Base(at) == at[Len(delivered) + 1] + Consumed

FramedBy(at) ==
    /\ Frames(at, sent, InFlight, Base(at), Len(delivered) + 1)
    /\ Base(at) + Len(InFlight) <= at[Len(sent) + 1]
    /\ ~broken => Base(at) + Len(InFlight) = at[Len(sent) + 1]

Framing == \E at : Located(at, sent) /\ (phase # "closed" => FramedBy(at))

\* What the handlers have read of the header is the header of the current packet.
InStep ==
    /\ phase \in {"length", "payload"} =>
           /\ Len(delivered) < Len(sent)
           /\ header.type = Current.type /\ header.number = Current.number
    /\ phase = "length" => HeaderLength(Current) = 2
    /\ phase = "payload" => header.length = Len(Current.payload)

Deliveries ==
    /\ sent \in Seq(Packets) /\ delivered \in Seq(Packets)
    /\ Len(delivered) <= Len(sent)
    /\ \A i \in 1 .. Len(delivered) : delivered[i] = sent[i]

TransportInv ==
    /\ TransportTypeOK /\ Deliveries /\ InStep /\ Framing
    /\ lock = "free" => unsent = <<>>

-----------------------------------------------------------------------------
(* The header word. *)

\* Quotient and remainder are unique.
LEMMA DivModUnique ==
    ASSUME NEW m \in Nat \ {0}, NEW q \in Nat, NEW r \in 0 .. m - 1, NEW a \in Nat,
           a = (m * q) + r
    PROVE  a % m = r /\ a \div m = q
  OBVIOUS

\* A number below the divisor is its own remainder.
LEMMA RemainderSmall ==
    ASSUME NEW m \in Nat \ {0}, NEW a \in 0 .. m - 1
    PROVE  a % m = a
  OBVIOUS

\* The header is read back as it was written.
LEMMA HeaderFields ==
    ASSUME NEW type \in 0 .. TypeRange - 1, NEW number \in 0 .. NumberRange - 1,
           NEW size \in 0 .. SizeRange - 1, NEW word, word = HeaderWord(type, number, size)
    PROVE  /\ word \in Nat /\ word % NumberRange = number
           /\ (word \div NumberRange) % SizeRange = size
           /\ (word \div (NumberRange * SizeRange)) % TypeRange = type
<1>1. NumberRange \in Nat \ {0} /\ number \in 0 .. NumberRange - 1
  BY TransportAssumption
<1>2. SizeRange \in Nat \ {0} /\ size \in 0 .. SizeRange - 1
  BY TransportAssumption
<1>3. TypeRange \in Nat \ {0} /\ type \in 0 .. TypeRange - 1
  BY TransportAssumption
<1>4. type \in Nat /\ size \in Nat /\ number \in Nat
  BY <1>1, <1>2, <1>3
<1>5. /\ size * NumberRange \in Nat /\ type * NumberRange * SizeRange \in Nat
      /\ NumberRange * SizeRange \in Nat \ {0} /\ type * SizeRange \in Nat
  BY ONLY <1>1, <1>2, <1>4
<1>6. word = number + size * NumberRange + type * NumberRange * SizeRange
  BY DEF HeaderWord
<1>7. word \in Nat
  BY ONLY <1>4, <1>5, <1>6
<1> DEFINE q == size + type * SizeRange
<1>8. q \in Nat /\ word = (NumberRange * q) + number
  BY ONLY <1>1, <1>2, <1>4, <1>5, <1>6
<1>9. q = (SizeRange * type) + size
  BY ONLY <1>2, <1>4
<1> HIDE DEF q
<1>10. word % NumberRange = number /\ word \div NumberRange = q
  BY ONLY <1>1, <1>7, <1>8, DivModUnique
<1>11. q % SizeRange = size
  <2>1. q \in Nat
    BY <1>8
  <2> QED BY ONLY <1>2, <1>4, <1>9, <2>1, DivModUnique
<1>12. word \div (NumberRange * SizeRange) = type
  <2> DEFINE m == NumberRange * SizeRange
             r == number + size * NumberRange
  <2>1. size * NumberRange <= (SizeRange - 1) * NumberRange
    BY ONLY <1>1, <1>2
  <2>2. (SizeRange - 1) * NumberRange = m - NumberRange
    BY ONLY <1>1, <1>2
  <2>3. r \in 0 .. m - 1
    BY ONLY <1>1, <1>2, <1>4, <1>5, <2>1, <2>2
  <2>4. word = (m * type) + r
    BY ONLY <1>1, <1>2, <1>4, <1>6
  <2>5. m \in Nat \ {0}
    BY ONLY <1>5
  <2> HIDE DEF m, r
  <2>6. word \div m = type
    BY ONLY <1>4, <1>7, <2>3, <2>4, <2>5, DivModUnique
  <2> QED BY <2>6 DEF m
<1>13. type % TypeRange = type
  BY ONLY <1>3, RemainderSmall
<1> QED BY ONLY <1>7, <1>10, <1>11, <1>12, <1>13

\* One cell in front of others.
LEMMA OneCellFirst ==
    ASSUME NEW w \in Nat, NEW p \in Seq(Nat)
    PROVE  /\ <<w>> \o p \in Seq(Nat) /\ Len(<<w>> \o p) = 1 + Len(p)
           /\ (<<w>> \o p)[1] = w
           /\ \A i \in 1 .. Len(p) : (<<w>> \o p)[1 + i] = p[i]
<1>1. <<w>> \in Seq(Nat) /\ Len(<<w>>) = 1 /\ <<w>>[1] = w /\ Len(p) \in Nat
  OBVIOUS
<1> QED BY <1>1, ConcatProperties

\* Two cells in front of others.
LEMMA TwoCellsFirst ==
    ASSUME NEW w \in Nat, NEW v \in Nat, NEW p \in Seq(Nat)
    PROVE  /\ <<w, v>> \o p \in Seq(Nat) /\ Len(<<w, v>> \o p) = 2 + Len(p)
           /\ (<<w, v>> \o p)[1] = w /\ (<<w, v>> \o p)[2] = v
           /\ \A i \in 1 .. Len(p) : (<<w, v>> \o p)[2 + i] = p[i]
<1>1. <<w, v>> \in Seq(Nat) /\ Len(<<w, v>>) = 2 /\ <<w, v>>[1] = w /\ <<w, v>>[2] = v
      /\ Len(p) \in Nat
  OBVIOUS
<1> QED BY <1>1, ConcatProperties

\* The cells of a packet: one or two words, then the payload.
LEMMA CellsOfPacket ==
    ASSUME WholeLengths, NEW packet \in Packets
    PROVE  /\ packet = [type |-> packet.type, number |-> packet.number,
                        payload |-> packet.payload]
           /\ packet.payload \in Seq(Nat) /\ Len(packet.payload) \in Nat
           /\ Len(packet.payload) >= 1
           /\ HeaderLength(packet) \in 1 .. 2
           /\ Cells(packet) \in Seq(Nat)
           /\ Len(Cells(packet)) = HeaderLength(packet) + Len(packet.payload)
           /\ Cells(packet)[1] \in Nat
           /\ Cells(packet)[1] % NumberRange = packet.number
           /\ (Cells(packet)[1] \div NumberRange) % SizeRange =
                  IF HeaderLength(packet) = 1 THEN Len(packet.payload) ELSE 0
           /\ (Cells(packet)[1] \div (NumberRange * SizeRange)) % TypeRange = packet.type
           /\ HeaderLength(packet) = 2 => Cells(packet)[2] = Len(packet.payload)
           /\ \A i \in 1 .. Len(packet.payload) :
                  Cells(packet)[HeaderLength(packet) + i] = packet.payload[i]
<1> DEFINE p    == packet.payload
           n    == Len(p)
           head == createTransportHeader(packet.type, packet.number, Len(packet.payload))
<1>1. /\ packet \in [type : 0 .. TypeRange - 1, number : 0 .. NumberRange - 1, payload : Seq(Nat)]
      /\ SizeRange \in Nat \ {0} /\ LengthRange \in Nat \ {0}
  BY TransportAssumption
<1>2. /\ packet.type \in 0 .. TypeRange - 1 /\ packet.number \in 0 .. NumberRange - 1
      /\ p \in Seq(Nat) /\ n \in 1 .. LengthRange - 1 /\ n \in Nat
      /\ packet = [type |-> packet.type, number |-> packet.number, payload |-> packet.payload]
  BY <1>1 DEF WholeLengths
<1>3. n % LengthRange = n
  BY <1>1, <1>2, RemainderSmall
<1> DEFINE size == IF n <= SizeRange - 1 THEN n ELSE 0
           word == HeaderWord(packet.type, packet.number, size)
<1>4. size \in 0 .. SizeRange - 1
  BY <1>1, <1>2
<1>5. /\ word \in Nat /\ word % NumberRange = packet.number
      /\ (word \div NumberRange) % SizeRange = size
      /\ (word \div (NumberRange * SizeRange)) % TypeRange = packet.type
  BY <1>2, <1>4, HeaderFields
<1>6. Cells(packet) = head \o p
  BY DEF Cells
<1>7. CASE n <= SizeRange - 1
  <2>1. head = <<word>> /\ HeaderLength(packet) = 1 /\ size = n
    BY <1>7 DEF createTransportHeader, HeaderLength
  <2> HIDE DEF head, word, size
  <2>2. /\ head \o p \in Seq(Nat) /\ Len(head \o p) = 1 + n /\ (head \o p)[1] = word
        /\ \A i \in 1 .. n : (head \o p)[1 + i] = p[i]
    BY <1>2, <1>5, <2>1, OneCellFirst
  <2> QED BY <1>2, <1>5, <1>6, <2>1, <2>2, SMTT(30)
<1>8. CASE ~(n <= SizeRange - 1)
  <2>1. head = <<word, n>> /\ HeaderLength(packet) = 2 /\ size = 0
    BY <1>3, <1>8 DEF createTransportHeader, HeaderLength
  <2> HIDE DEF head, word, size
  <2>2. /\ head \o p \in Seq(Nat) /\ Len(head \o p) = 2 + n /\ (head \o p)[1] = word
        /\ (head \o p)[2] = n /\ \A i \in 1 .. n : (head \o p)[2 + i] = p[i]
    BY <1>2, <1>5, <2>1, TwoCellsFirst, SMTT(30)
  <2> QED BY <1>2, <1>5, <1>6, <2>1, <2>2, SMTT(30)
<1> QED BY <1>7, <1>8

-----------------------------------------------------------------------------
(* Cells in flight. *)

\* Concatenation, and that it is associative, for sequences of cells.
LEMMA ConcatCells ==
    ASSUME NEW s \in Seq(Nat), NEW t \in Seq(Nat)
    PROVE  /\ s \o t \in Seq(Nat) /\ Len(s \o t) = Len(s) + Len(t)
           /\ \A i \in 1 .. Len(s) : (s \o t)[i] = s[i]
           /\ \A i \in 1 .. Len(t) : (s \o t)[Len(s) + i] = t[i]
<1>1. Len(s) \in Nat /\ Len(t) \in Nat
  OBVIOUS
<1> QED BY <1>1, ConcatProperties

\* Joining cells is associative.
LEMMA ConcatCellsAssociative ==
    ASSUME NEW s \in Seq(Nat), NEW t \in Seq(Nat), NEW u \in Seq(Nat)
    PROVE  (s \o t) \o u = s \o (t \o u)
<1> DEFINE f == s \o t
           g == t \o u
           l == f \o u
           r == s \o g
<1>1. Len(s) \in Nat /\ Len(t) \in Nat /\ Len(u) \in Nat
  BY LenProperties
<1>2. /\ f \in Seq(Nat) /\ Len(f) = Len(s) + Len(t)
      /\ \A i \in 1 .. Len(s) : f[i] = s[i]
      /\ \A i \in 1 .. Len(t) : f[Len(s) + i] = t[i]
  BY ConcatCells
<1>3. /\ g \in Seq(Nat) /\ Len(g) = Len(t) + Len(u)
      /\ \A i \in 1 .. Len(t) : g[i] = t[i]
      /\ \A i \in 1 .. Len(u) : g[Len(t) + i] = u[i]
  BY ConcatCells
<1> HIDE DEF f, g
<1>4. /\ l \in Seq(Nat) /\ Len(l) = Len(f) + Len(u)
      /\ \A i \in 1 .. Len(f) : l[i] = f[i]
      /\ \A i \in 1 .. Len(u) : l[Len(f) + i] = u[i]
  BY <1>2, ConcatCells
<1>5. /\ r \in Seq(Nat) /\ Len(r) = Len(s) + Len(g)
      /\ \A i \in 1 .. Len(s) : r[i] = s[i]
      /\ \A i \in 1 .. Len(g) : r[Len(s) + i] = g[i]
  BY <1>3, ConcatCells
<1> HIDE DEF l, r
<1>6. Len(l) = Len(r) /\ Len(l) \in Nat /\ Len(l) = Len(s) + Len(t) + Len(u)
  BY <1>1, <1>2, <1>3, <1>4, <1>5
<1>7. ASSUME NEW i \in 1 .. Len(l)
      PROVE  l[i] = r[i]
  <2>1. i \in 1 .. Len(s) + Len(t) + Len(u)
    BY <1>6
  <2>2. CASE i <= Len(s)
    <3>1. i \in 1 .. Len(s) /\ i \in 1 .. Len(s) + Len(t)
      BY ONLY <1>1, <2>1, <2>2
    <3> QED BY <1>2, <1>4, <1>5, <3>1
  <2>3. CASE i > Len(s) /\ i <= Len(s) + Len(t)
    <3> DEFINE k == i - Len(s)
    <3>1. /\ k \in 1 .. Len(t) /\ k \in 1 .. Len(t) + Len(u) /\ i = Len(s) + k
          /\ i \in 1 .. Len(s) + Len(t)
      BY ONLY <1>1, <2>1, <2>3
    <3> HIDE DEF k
    <3> QED BY <1>2, <1>3, <1>4, <1>5, <3>1
  <2>4. CASE i > Len(s) + Len(t)
    <3> DEFINE k == i - (Len(s) + Len(t))
    <3>1. /\ k \in 1 .. Len(u) /\ Len(t) + k \in 1 .. Len(t) + Len(u)
          /\ i = (Len(s) + Len(t)) + k /\ i = Len(s) + (Len(t) + k)
      BY ONLY <1>1, <2>1, <2>4
    <3> HIDE DEF k
    <3>2. l[i] = u[k]
      BY <1>2, <1>4, <3>1
    <3>3. r[i] = g[Len(t) + k] /\ g[Len(t) + k] = u[k]
      BY <1>3, <1>5, <3>1
    <3> QED BY <3>2, <3>3
  <2>5. i <= Len(s) \/ (i > Len(s) /\ i <= Len(s) + Len(t)) \/ i > Len(s) + Len(t)
    BY ONLY <1>1, <2>1
  <2> QED BY ONLY <2>2, <2>3, <2>4, <2>5
<1>8. l = r
  BY <1>4, <1>5, <1>6, <1>7, SeqEqual
<1> QED BY <1>8 DEF l, r, f, g

\* The cells under way, part by part.
LEMMA FlightType ==
    ASSUME NEW b \in Seq(Nat), NEW w \in Seq(Nat), NEW u \in Seq(Nat)
    PROVE  /\ Flight(b, w, u) \in Seq(Nat) /\ Len(Flight(b, w, u)) \in Nat
           /\ Len(Flight(b, w, u)) = Len(b) + Len(w) + Len(u)
           /\ \A i \in 1 .. Len(b) : Flight(b, w, u)[i] = b[i]
           /\ \A i \in 1 .. Len(w) : Flight(b, w, u)[Len(b) + i] = w[i]
<1>1. Len(b) \in Nat /\ Len(w) \in Nat /\ Len(u) \in Nat
  BY LenProperties
<1> DEFINE f == b \o w
<1>2. /\ f \in Seq(Nat) /\ Len(f) = Len(b) + Len(w)
      /\ \A i \in 1 .. Len(b) : f[i] = b[i]
      /\ \A i \in 1 .. Len(w) : f[Len(b) + i] = w[i]
  BY ConcatCells
<1> HIDE DEF f
<1>3. /\ f \o u \in Seq(Nat) /\ Len(f \o u) = Len(f) + Len(u)
      /\ \A i \in 1 .. Len(f) : (f \o u)[i] = f[i]
  BY <1>2, ConcatCells
<1>4. ASSUME NEW i \in 1 .. Len(b)
      PROVE  (f \o u)[i] = b[i]
  <2>1. i \in 1 .. Len(f) /\ f[i] = b[i]
    BY <1>1, <1>2
  <2> QED BY <1>3, <2>1
<1>5. ASSUME NEW i \in 1 .. Len(w)
      PROVE  (f \o u)[Len(b) + i] = w[i]
  <2>1. Len(b) + i \in 1 .. Len(f) /\ f[Len(b) + i] = w[i]
    BY <1>1, <1>2, SMTT(30)
  <2> QED BY <1>3, <2>1
<1>6. Len(f \o u) = Len(b) + Len(w) + Len(u) /\ Len(f \o u) \in Nat
  BY <1>1, <1>2, <1>3
<1> QED BY <1>3, <1>4, <1>5, <1>6 DEF f, Flight

\* The cells under way are cells.
LEMMA InFlightType ==
    ASSUME TransportTypeOK
    PROVE  /\ InFlight \in Seq(Nat) /\ Len(InFlight) \in Nat
           /\ Len(buffer) \in Nat /\ Len(InFlight) >= Len(buffer)
           /\ \A i \in 1 .. Len(buffer) : InFlight[i] = buffer[i]
<1> DEFINE rest == IF broken THEN <<>> ELSE unsent
<1>1. buffer \in Seq(Nat) /\ wire \in Seq(Nat) /\ rest \in Seq(Nat)
  BY DEF TransportTypeOK
<1>2. Len(buffer) \in Nat /\ Len(wire) \in Nat /\ Len(rest) \in Nat
  BY <1>1, LenProperties
<1>3. InFlight = Flight(buffer, wire, rest)
  BY DEF InFlight
<1> HIDE DEF rest
<1>4. /\ InFlight \in Seq(Nat) /\ Len(InFlight) \in Nat
      /\ Len(InFlight) = Len(buffer) + Len(wire) + Len(rest)
      /\ \A i \in 1 .. Len(buffer) : InFlight[i] = buffer[i]
  BY <1>1, <1>3, FlightType, SMTT(30)
<1> QED BY <1>2, <1>4

\* Reading ahead moves no cell past another.
LEMMA FetchMovesNothing ==
    ASSUME NEW b \in Seq(Nat), NEW w \in Seq(Nat), w # <<>>
    PROVE  Append(b, Head(w)) \o Tail(w) = b \o w
<1>1. Head(w) \in Nat /\ Tail(w) \in Seq(Nat)
  BY HeadTailProperties
<1>2. Append(b, Head(w)) = b \o <<Head(w)>> /\ <<Head(w)>> \in Seq(Nat)
  BY <1>1, AppendIsConcat
<1>3. (b \o <<Head(w)>>) \o Tail(w) = b \o (<<Head(w)>> \o Tail(w))
  BY ONLY <1>1, <1>2, ConcatCellsAssociative, b \in Seq(Nat)
<1>4. <<Head(w)>> \o Tail(w) = w
  <2>1. Len(w) \in Nat /\ Len(w) >= 1 /\ Head(w) = w[1]
    OBVIOUS
  <2>2. SubSeq(w, 1, Len(w)) = <<w[1]>> \o SubSeq(w, 2, Len(w))
    BY <2>1, SubSeqRecursiveFirst
  <2>3. SubSeq(w, 1, Len(w)) = w /\ Tail(w) = SubSeq(w, 2, Len(w))
    BY SubSeqFull, TailIsSubSeq
  <2> QED BY <2>1, <2>2, <2>3
<1> QED BY <1>2, <1>3, <1>4

\* What a cut of cells leaves on its two sides.
LEMMA CutCells ==
    ASSUME NEW u \in Seq(Nat), NEW c \in 0 .. Len(u)
    PROVE  /\ First(u, c) \in Seq(Nat) /\ Len(First(u, c)) = c
           /\ \A j \in 1 .. c : First(u, c)[j] = u[j]
           /\ Back(u, c) \in Seq(Nat) /\ Drops(Back(u, c), u, c)
           /\ Joined(First(u, c), Back(u, c)) = u
<1> DEFINE x == SubSeq(u, 1, c)
           y == SubSeq(u, c + 1, Len(u))
<1>1. \A i \in 1 .. Len(u) : u[i] \in Nat
  BY ElementOfSeq
<1>2. Len(u) \in Nat /\ c \in Nat
  OBVIOUS
<1>3. x \in Seq(Nat) /\ Len(x) = c /\ \A j \in 1 .. c : x[j] = u[j]
  BY <1>1, <1>2, SubSeqProperties
<1>4. y \in Seq(Nat) /\ Len(y) + c = Len(u) /\ \A j \in 1 .. Len(y) : y[j] = u[j + c]
  BY <1>1, <1>2, SubSeqProperties
<1>5. x \o y = u
  <2>1. SubSeq(u, 1, Len(u)) = u
    BY SubSeqFull
  <2>2. 1 \in 1 .. Len(u) + 1 /\ c \in 1 - 1 .. Len(u) /\ Len(u) \in c .. Len(u)
    OBVIOUS
  <2>3. SubSeq(u, 1, c) \o SubSeq(u, c + 1, Len(u)) = SubSeq(u, 1, Len(u))
    BY <2>2, ConcatAdjacentSubSeq
  <2> QED BY <2>1, <2>3
<1>6. First(u, c) = x /\ Back(u, c) = y
  BY DEF First, Back
<1> HIDE DEF x, y
<1>7. Joined(x, y) = u
  BY <1>5 DEF Joined
<1>8. Drops(y, u, c)
  BY <1>4 DEF Drops
<1> QED BY ONLY <1>3, <1>4, <1>6, <1>7, <1>8

\* A partial write moves no cell past another.
LEMMA WriteMovesNothing ==
    ASSUME NEW b \in Seq(Nat), NEW w \in Seq(Nat), NEW x \in Seq(Nat), NEW y \in Seq(Nat)
    PROVE  Flight(b, Joined(w, x), y) = Flight(b, w, Joined(x, y))
<1>1. b \in Seq(Nat) /\ w \in Seq(Nat) /\ x \in Seq(Nat) /\ y \in Seq(Nat)
  OBVIOUS
<1>2. b \o (w \o x) = (b \o w) \o x
  BY ONLY <1>1, ConcatCellsAssociative, ZenonT(30)
<1> DEFINE v == b \o w
<1>3. v \in Seq(Nat)
  BY ConcatCells
<1> HIDE DEF v
<1>4. (v \o x) \o y = v \o (x \o y)
  BY ONLY <1>1, <1>3, ConcatCellsAssociative
<1> QED BY <1>2, <1>4 DEF v, Flight, Joined

\* What is left behind the first cells.
LEMMA DropCells ==
    ASSUME NEW b \in Seq(Nat), NEW w \in Seq(Nat), NEW u \in Seq(Nat), NEW c \in 0 .. Len(b),
           NEW x, Drops(x, b, c)
    PROVE  Drops(Flight(x, w, u), Flight(b, w, u), c)
<1>1. Len(b) \in Nat /\ Len(w) \in Nat /\ Len(u) \in Nat /\ c \in Nat
  OBVIOUS
<1>2. x \in Seq(Nat) /\ Len(x) = Len(b) - c /\ \A j \in 1 .. Len(x) : x[j] = b[j + c]
  <2>1. x \in Seq(Nat) /\ Len(x) + c = Len(b) /\ \A j \in 1 .. Len(x) : x[j] = b[j + c]
    BY DEF Drops
  <2>2. Len(x) \in Nat
    BY <2>1, LenProperties
  <2>3. Len(x) = Len(b) - c
    BY ONLY <1>1, <2>1, <2>2
  <2> QED BY <2>1, <2>3
<1> DEFINE y == w \o u
<1>3. y \in Seq(Nat) /\ Flight(x, w, u) = x \o y /\ Flight(b, w, u) = b \o y
  <2>1. y \in Seq(Nat)
    BY ConcatCells
  <2>2. b \in Seq(Nat) /\ w \in Seq(Nat) /\ u \in Seq(Nat) /\ x \in Seq(Nat)
    BY <1>2
  <2>3. (x \o w) \o u = x \o (w \o u)
    BY ONLY <2>2, ConcatCellsAssociative, ZenonT(30)
  <2>4. (b \o w) \o u = b \o (w \o u)
    BY ONLY <2>2, ConcatCellsAssociative
  <2> QED BY <2>1, <2>3, <2>4 DEF Flight
<1> HIDE DEF y
<1>4. /\ x \o y \in Seq(Nat) /\ Len(x \o y) = Len(x) + Len(y)
      /\ \A i \in 1 .. Len(x) : (x \o y)[i] = x[i]
      /\ \A i \in 1 .. Len(y) : (x \o y)[Len(x) + i] = y[i]
  BY <1>2, <1>3, ConcatCells
<1>5. /\ b \o y \in Seq(Nat) /\ Len(b \o y) = Len(b) + Len(y)
      /\ \A i \in 1 .. Len(b) : (b \o y)[i] = b[i]
      /\ \A i \in 1 .. Len(y) : (b \o y)[Len(b) + i] = y[i]
  BY <1>3, ConcatCells
<1>6. Len(y) \in Nat /\ Len(x) \in Nat
  BY <1>2, <1>3
<1>7. ASSUME NEW j \in 1 .. Len(x \o y)
      PROVE  (x \o y)[j] = (b \o y)[j + c]
  <2>0. j \in 1 .. Len(x) + Len(y)
    BY <1>4
  <2>1. CASE j <= Len(x)
    BY <1>1, <1>2, <1>4, <1>5, <1>6, <2>1, SMTT(30)
  <2>2. CASE j > Len(x)
    <3> DEFINE i == j - Len(x)
    <3>1. i \in 1 .. Len(y) /\ j = Len(x) + i /\ j + c = Len(b) + i
      <4>1. Len(x) = Len(b) - c
        BY <1>2
      <4> QED BY ONLY <1>1, <1>6, <2>0, <2>2, <4>1
    <3> HIDE DEF i
    <3> QED BY <1>4, <1>5, <3>1
  <2>3. j <= Len(x) \/ j > Len(x)
    BY ONLY <1>6, <2>0
  <2> QED BY ONLY <2>1, <2>2, <2>3
<1>8. Len(x \o y) + c = Len(b \o y)
  <2>1. Len(x) = Len(b) - c /\ Len(x \o y) = Len(x) + Len(y) /\ Len(b \o y) = Len(b) + Len(y)
    BY <1>2, <1>4, <1>5
  <2> QED BY ONLY <1>1, <1>6, <2>1
<1>9. x \o y \in Seq(Nat)
  BY <1>4
<1>10. Drops(x \o y, b \o y, c)
  BY <1>7, <1>8, <1>9 DEF Drops
<1> QED BY <1>3, <1>10

-----------------------------------------------------------------------------
(* Packets and their cells. *)

\* Packets sent have cells.
LEMMA CellsOfSent ==
    ASSUME WholeLengths, NEW packets \in Seq(Packets), NEW k \in 1 .. Len(packets)
    PROVE  /\ packets[k] \in Packets /\ Cells(packets[k]) \in Seq(Nat)
           /\ Len(Cells(packets[k])) \in Nat
<1>1. packets[k] \in Packets
  BY ElementOfSeq
<1> QED BY <1>1, CellsOfPacket, SMTT(30)

\* Consuming cells, skipping packets and losing the end of the stream keep the frame.
LEMMA FramesAdvance ==
    ASSUME WholeLengths,
           NEW packets \in Seq(Packets), NEW at, Located(at, packets),
           NEW stream \in Seq(Nat), NEW after \in Seq(Nat),
           NEW base \in Nat, NEW count \in Nat,
           NEW first \in Nat \ {0}, NEW later \in Nat, later >= first,
           Frames(at, packets, stream, base, first),
           Len(after) + count <= Len(stream),
           \A j \in 1 .. Len(after) : after[j] = stream[j + count]
    PROVE  Frames(at, packets, after, base + count, later)
<1>1. Len(packets) \in Nat /\ Len(stream) \in Nat /\ Len(after) \in Nat
  BY LenProperties
<1>2. \A k \in 1 .. Len(packets) + 1 : at[k] \in Nat
  BY <1>1 DEF Located
<1>3. \A k \in 1 .. Len(packets) : Len(Cells(packets[k])) \in Nat
  BY CellsOfSent
<1>4. /\ base \in Nat /\ count \in Nat /\ first \in Nat \ {0} /\ later \in Nat /\ later >= first
      /\ Len(after) + count <= Len(stream)
  OBVIOUS
<1> SUFFICES ASSUME NEW k \in later .. Len(packets), NEW i \in 1 .. Len(Cells(packets[k])),
                    (at[k] + i) - (base + count) \in 1 .. Len(after)
             PROVE  after[(at[k] + i) - (base + count)] = Cells(packets[k])[i]
  BY DEF Frames
<1> DEFINE j == (at[k] + i) - (base + count)
<1>5. k \in later .. Len(packets) /\ i \in 1 .. Len(Cells(packets[k])) /\ j \in 1 .. Len(after)
  OBVIOUS
<1>6. k \in 1 .. Len(packets) /\ k \in first .. Len(packets) /\ k \in 1 .. Len(packets) + 1
  BY ONLY <1>1, <1>4, <1>5
<1>7. at[k] \in Nat /\ i \in Nat
  BY ONLY <1>2, <1>3, <1>5, <1>6
<1>8. (at[k] + i) - base = j + count /\ j + count \in 1 .. Len(stream)
  <2>1. (at[k] + i) - base = j + count
    BY ONLY <1>4, <1>7
  <2>2. j \in 1 .. Len(after)
    BY <1>5
  <2> HIDE DEF j
  <2>3. j + count \in 1 .. Len(stream)
    BY ONLY <1>1, <1>4, <2>2
  <2> QED BY ONLY <2>1, <2>3
<1>9. stream[j + count] = Cells(packets[k])[i]
  BY <1>5, <1>6, <1>8 DEF Frames
<1> QED BY <1>5, <1>9

\* Where the next packet will lie.
Extended(at, packets, packet) ==
    [k \in 1 .. Len(packets) + 2 |->
        IF k <= Len(packets) + 1 THEN at[k] ELSE at[Len(packets) + 1] + Len(Cells(packet))]

\* A packet sent begins where the ones before it end.
LEMMA LocatedExtend ==
    ASSUME WholeLengths, NEW packets \in Seq(Packets), NEW packet \in Packets,
           NEW at, Located(at, packets)
    PROVE  /\ Located(Extended(at, packets, packet), Append(packets, packet))
           /\ \A k \in 1 .. Len(packets) + 1 : Extended(at, packets, packet)[k] = at[k]
           /\ Extended(at, packets, packet)[Len(packets) + 2] =
                  at[Len(packets) + 1] + Len(Cells(packet))
<1> DEFINE n == Len(packets)
           longer == Append(packets, packet)
           to == Extended(at, packets, packet)
<1>1. n \in Nat /\ longer \in Seq(Packets) /\ Len(longer) = n + 1 /\ longer[n + 1] = packet
      /\ \A k \in 1 .. n : longer[k] = packets[k]
  BY AppendProperties
<1>2. Len(Cells(packet)) \in Nat
  BY CellsOfPacket
<1>3. /\ \A k \in 1 .. n + 1 : at[k] \in Nat
      /\ at[1] = 0 /\ \A k \in 1 .. n : at[k + 1] = at[k] + Len(Cells(packets[k]))
      /\ \A k, l \in 1 .. n + 1 : k <= l => at[k] <= at[l]
  BY <1>1 DEF Located
<1>4. /\ \A k \in 1 .. n + 1 : to[k] = at[k]
      /\ to[n + 2] = at[n + 1] + Len(Cells(packet))
  BY <1>1 DEF Extended
<1>5. to \in [1 .. (n + 1) + 1 -> Nat]
  <2>1. to = [k \in 1 .. n + 2 |-> IF k <= n + 1 THEN at[k] ELSE at[n + 1] + Len(Cells(packet))]
    BY DEF Extended
  <2>2. n + 1 \in 1 .. n + 1 /\ (n + 1) + 1 = n + 2
    BY <1>1
  <2>3. ASSUME NEW k \in 1 .. n + 2
        PROVE  (IF k <= n + 1 THEN at[k] ELSE at[n + 1] + Len(Cells(packet))) \in Nat
    BY <1>1, <1>2, <1>3, <2>2, SMTT(30)
  <2> HIDE DEF to
  <2> QED BY <2>1, <2>2, <2>3
<1> HIDE DEF to, n, longer
<1>6. to[1] = 0
  BY <1>1, <1>3, <1>4
<1>7. ASSUME NEW k \in 1 .. n + 1
      PROVE  to[k + 1] = to[k] + Len(Cells(longer[k]))
  <2>1. CASE k = n + 1
    <3>1. k + 1 = n + 2 /\ to[k] = at[n + 1] /\ longer[k] = packet
      BY <1>1, <1>4, <2>1
    <3> QED BY <1>4, <3>1
  <2>2. CASE k # n + 1
    <3>1. k \in 1 .. n /\ k + 1 \in 1 .. n + 1
      BY <1>1, <2>2
    <3> QED BY <1>1, <1>3, <1>4, <3>1
  <2> QED BY <2>1, <2>2
<1>8. ASSUME NEW k \in 1 .. n + 2, NEW l \in 1 .. n + 2, k <= l
      PROVE  to[k] <= to[l]
  <2>1. CASE l = n + 2 /\ k = n + 2
    <3>1. n + 1 \in 1 .. n + 1
      BY <1>1
    <3> QED BY <1>2, <1>3, <1>4, <2>1, <3>1
  <2>2. CASE l = n + 2 /\ k # n + 2
    <3>1. k \in 1 .. n + 1 /\ n + 1 \in 1 .. n + 1 /\ k <= n + 1
      BY <1>1, <2>2
    <3>2. at[k] <= at[n + 1] /\ at[k] \in Nat /\ at[n + 1] \in Nat
      BY <1>3, <3>1
    <3> QED BY <1>2, <1>4, <2>2, <3>1, <3>2
  <2>3. CASE l # n + 2
    <3>1. k \in 1 .. n + 1 /\ l \in 1 .. n + 1
      BY <1>1, <1>8, <2>3
    <3> QED BY <1>3, <1>4, <1>8, <3>1
  <2> QED BY <2>1, <2>2, <2>3
<1>9. Len(longer) + 1 = n + 2 /\ (n + 1) + 1 = n + 2
  BY <1>1
<1>10. Located(to, longer)
  BY <1>1, <1>5, <1>6, <1>7, <1>8, <1>9 DEF Located
<1> QED BY <1>4, <1>10 DEF to, n, longer

\* A packet more: its cells are at the end of the stream, or never get there.
LEMMA FramesExtend ==
    ASSUME WholeLengths, NEW packets \in Seq(Packets), NEW packet \in Packets,
           NEW at, Located(at, packets),
           NEW stream \in Seq(Nat), NEW after,
           NEW base \in Nat, NEW first \in Nat \ {0},
           Frames(at, packets, stream, base, first),
           \/ after = stream /\ base + Len(stream) <= at[Len(packets) + 1]
           \/ after = stream \o Cells(packet) /\ base + Len(stream) = at[Len(packets) + 1]
    PROVE  Frames(Extended(at, packets, packet), Append(packets, packet), after, base, first)
<1> DEFINE n == Len(packets)
           longer == Append(packets, packet)
           to == Extended(at, packets, packet)
<1>1. n \in Nat /\ Len(longer) = n + 1 /\ longer[n + 1] = packet
      /\ \A k \in 1 .. n : longer[k] = packets[k]
  BY AppendProperties
<1>2. \A k \in 1 .. n + 1 : to[k] = at[k]
  BY LocatedExtend
<1>3. /\ \A k \in 1 .. n + 1 : at[k] \in Nat
      /\ \A k \in 1 .. n : at[k + 1] = at[k] + Len(Cells(packets[k]))
      /\ \A k, l \in 1 .. n + 1 : k <= l => at[k] <= at[l]
  BY <1>1 DEF Located
<1>4. Cells(packet) \in Seq(Nat) /\ Len(Cells(packet)) \in Nat /\ Len(stream) \in Nat
  BY CellsOfPacket
<1>5. /\ Len(stream \o Cells(packet)) = Len(stream) + Len(Cells(packet))
      /\ \A i \in 1 .. Len(stream) : (stream \o Cells(packet))[i] = stream[i]
      /\ \A i \in 1 .. Len(Cells(packet)) :
             (stream \o Cells(packet))[Len(stream) + i] = Cells(packet)[i]
  BY <1>4, ConcatCells
<1> SUFFICES ASSUME NEW k \in first .. n + 1, NEW i \in 1 .. Len(Cells(longer[k])),
                    (to[k] + i) - base \in 1 .. Len(after)
             PROVE  after[(to[k] + i) - base] = Cells(longer[k])[i]
  <2> HIDE DEF n, longer, to
  <2>1. \A k \in first .. n + 1 : \A i \in 1 .. Len(Cells(longer[k])) :
            (to[k] + i) - base \in 1 .. Len(after)
            => after[(to[k] + i) - base] = Cells(longer[k])[i]
    OBVIOUS
  <2>2. Frames(to, longer, after, base, first)
    BY <1>1, <2>1 DEF Frames
  <2> QED BY <2>2 DEF to, longer
<1> HIDE DEF n, longer, to
<1>6. CASE k = n + 1
  <2>1. to[k] = at[n + 1] /\ at[n + 1] \in Nat /\ longer[k] = packet /\ i \in Nat /\ i >= 1
    BY <1>1, <1>2, <1>3, <1>4, <1>6
  <2>2. i \in 1 .. Len(Cells(packet)) /\ (at[n + 1] + i) - base \in 1 .. Len(after)
    BY <2>1
  <2>3. CASE after = stream /\ base + Len(stream) <= at[n + 1]
    BY <1>4, <2>1, <2>2, <2>3, SMTT(30)
  <2>4. CASE after = stream \o Cells(packet) /\ base + Len(stream) = at[n + 1]
    <3>1. (at[n + 1] + i) - base = Len(stream) + i
      BY <1>4, <2>1, <2>4
    <3> QED BY <1>5, <2>1, <2>2, <2>4, <3>1, ZenonT(30)
  <2> QED BY <2>3, <2>4 DEF n
<1>7. CASE k # n + 1
  <2>1. k \in 1 .. n /\ k \in first .. n /\ k \in 1 .. n + 1 /\ k + 1 \in 1 .. n + 1
        /\ n + 1 \in 1 .. n + 1 /\ k + 1 <= n + 1
    BY <1>1, <1>7
  <2>2. to[k] = at[k] /\ longer[k] = packets[k] /\ at[k] \in Nat
        /\ at[k + 1] = at[k] + Len(Cells(packets[k])) /\ at[k + 1] <= at[n + 1]
        /\ at[n + 1] \in Nat
    BY <1>1, <1>2, <1>3, <2>1
  <2>3. i \in 1 .. Len(Cells(packets[k])) /\ Len(Cells(packets[k])) \in Nat
    BY <2>1, <2>2, CellsOfSent DEF n
  <2> DEFINE j == (at[k] + i) - base
  <2>4. j \in 1 .. Len(after) /\ j \in Int /\ j <= at[n + 1] - base
    BY <2>2, <2>3, SMTT(60)
  <2>5. j \in 1 .. Len(stream) /\ after[j] = stream[j]
    <3> HIDE DEF j
    <3>1. CASE after = stream
      BY <2>4, <3>1
    <3>2. CASE after = stream \o Cells(packet) /\ base + Len(stream) = at[n + 1]
      <4>1. j \in 1 .. Len(stream)
        BY <1>4, <2>2, <2>4, <3>2
      <4> QED BY <1>5, <3>2, <4>1
    <3> QED BY <3>1, <3>2 DEF n
  <2>6. stream[j] = Cells(packets[k])[i]
    <3>1. \A kk \in first .. Len(packets) : \A ii \in 1 .. Len(Cells(packets[kk])) :
              (at[kk] + ii) - base \in 1 .. Len(stream)
              => stream[(at[kk] + ii) - base] = Cells(packets[kk])[ii]
      BY DEF Frames
    <3> QED BY <2>1, <2>3, <2>5, <3>1 DEF n
  <2> QED BY <2>2, <2>5, <2>6
<1> QED BY <1>6, <1>7

-----------------------------------------------------------------------------
(* One lemma for each action.  TransportInv is kept, with the same places of the
   packets unless one is added. *)

\* The facts every action starts from.
LEMMA FramingFacts ==
    ASSUME WholeLengths, TransportInv, NEW at, Located(at, sent)
    PROVE  /\ Len(sent) \in Nat /\ Len(delivered) \in Nat /\ Len(delivered) <= Len(sent)
           /\ at[Len(delivered) + 1] \in Nat /\ at[Len(sent) + 1] \in Nat
           /\ phase # "closed" => Consumed \in 0 .. 2 /\ Base(at) \in Nat
           /\ Len(delivered) < Len(sent) =>
                  /\ Current \in Packets
                  /\ Len(delivered) + 1 \in 1 .. Len(sent)
                  /\ at[Len(delivered) + 2] =
                         at[Len(delivered) + 1] + HeaderLength(Current) + Len(Current.payload)
<1>1. Len(sent) \in Nat /\ Len(delivered) \in Nat /\ Len(delivered) <= Len(sent)
      /\ sent \in Seq(Packets)
  BY LenProperties DEF TransportInv, Deliveries
<1>2. \A k \in 1 .. Len(sent) + 1 : at[k] \in Nat
  BY <1>1 DEF Located
<1>3. at[Len(delivered) + 1] \in Nat /\ at[Len(sent) + 1] \in Nat
  BY <1>1, <1>2
<1>4. ASSUME Len(delivered) < Len(sent)
      PROVE  /\ Current \in Packets /\ Len(delivered) + 1 \in 1 .. Len(sent)
             /\ at[Len(delivered) + 2] =
                    at[Len(delivered) + 1] + HeaderLength(Current) + Len(Current.payload)
  <2> DEFINE k == Len(delivered) + 1
  <2>1. k \in 1 .. Len(sent) /\ k + 1 = Len(delivered) + 2
    BY <1>1, <1>4
  <2>2. Current = sent[k] /\ Current \in Packets
    BY <1>1, <2>1, ElementOfSeq DEF Current
  <2>3. at[k + 1] = at[k] + Len(Cells(sent[k]))
    BY <2>1 DEF Located
  <2>4. /\ Len(Cells(Current)) = HeaderLength(Current) + Len(Current.payload)
        /\ HeaderLength(Current) \in 1 .. 2 /\ Len(Current.payload) \in Nat
    BY <2>2, CellsOfPacket
  <2>5. at[k] \in Nat
    BY <1>3
  <2> QED BY <2>1, <2>2, <2>3, <2>4, <2>5
<1>5. phase # "closed" => Consumed \in 0 .. 2
  <2>1. phase \in {"header", "length", "payload", "closed"}
    BY DEF TransportInv, TransportTypeOK
  <2>2. phase \in {"length", "payload"} => Len(delivered) < Len(sent)
    BY DEF TransportInv, InStep
  <2>3. Len(delivered) < Len(sent) => HeaderLength(Current) \in 1 .. 2
    BY <1>4, CellsOfPacket
  <2> QED BY <2>1, <2>2, <2>3 DEF Consumed
<1>6. phase # "closed" => Base(at) \in Nat
  BY <1>3, <1>5 DEF Base
<1> QED BY <1>1, <1>3, <1>4, <1>5, <1>6

\* The cells in the buffer are the next cells of the current packet.
LEMMA NextCells ==
    ASSUME WholeLengths, TransportInv, phase # "closed",
           NEW at, Located(at, sent), FramedBy(at)
    PROVE  /\ phase = "header" /\ buffer # <<>> => Len(delivered) < Len(sent)
           /\ Len(delivered) < Len(sent) =>
                  \A j \in 1 .. Len(buffer) :
                      Consumed + j \in 1 .. Len(Cells(Current))
                      => buffer[j] = Cells(Current)[Consumed + j]
<1>1. /\ Len(sent) \in Nat /\ Len(delivered) \in Nat /\ Len(delivered) <= Len(sent)
      /\ at[Len(delivered) + 1] \in Nat /\ at[Len(sent) + 1] \in Nat
      /\ Consumed \in 0 .. 2 /\ Base(at) \in Nat
      /\ Len(delivered) < Len(sent) => Current \in Packets /\ Len(delivered) + 1 \in 1 .. Len(sent)
  BY FramingFacts
<1>2. /\ Len(InFlight) \in Nat /\ Len(buffer) \in Nat /\ Len(InFlight) >= Len(buffer)
      /\ \A i \in 1 .. Len(buffer) : InFlight[i] = buffer[i]
  BY InFlightType DEF TransportInv
<1>3. /\ Frames(at, sent, InFlight, Base(at), Len(delivered) + 1)
      /\ Base(at) + Len(InFlight) <= at[Len(sent) + 1]
      /\ Base(at) = at[Len(delivered) + 1] + Consumed
  BY DEF FramedBy, Base
<1>4. ASSUME phase = "header", buffer # <<>>
      PROVE  Len(delivered) < Len(sent)
  <2>1. Len(buffer) >= 1
    BY <1>2, <1>4 DEF TransportInv, TransportTypeOK
  <2>2. Len(delivered) # Len(sent)
    <3> SUFFICES ASSUME Len(delivered) = Len(sent) PROVE FALSE
      OBVIOUS
    <3> DEFINE b == Base(at)
               e == at[Len(sent) + 1]
               l == Len(InFlight)
    <3>1. b = e + Consumed /\ b + l <= e
      BY <1>3
    <3>2. e \in Nat /\ b \in Nat /\ l \in Nat /\ Consumed \in 0 .. 2 /\ l >= 1
      BY <1>1, <1>2, <2>1
    <3> HIDE DEF b, e, l
    <3> QED BY ONLY <3>1, <3>2
  <2> QED BY ONLY <1>1, <2>2
<1>5. ASSUME Len(delivered) < Len(sent), NEW j \in 1 .. Len(buffer),
             Consumed + j \in 1 .. Len(Cells(Current))
      PROVE  buffer[j] = Cells(Current)[Consumed + j]
  <2> DEFINE k == Len(delivered) + 1
             i == Consumed + j
  <2>1. j \in 1 .. Len(buffer) /\ i \in 1 .. Len(Cells(Current))
    BY <1>5
  <2>2. (at[k] + i) - Base(at) = j /\ j \in 1 .. Len(InFlight)
    <3>1. Base(at) = at[k] + Consumed /\ at[k] \in Nat /\ Consumed \in 0 .. 2
      BY <1>1, <1>3
    <3>2. j \in 1 .. Len(InFlight) /\ j \in Nat
      BY ONLY <1>2, <2>1
    <3> HIDE DEF k
    <3>3. (at[k] + (Consumed + j)) - Base(at) = j
      BY ONLY <3>1, <3>2
    <3> QED BY ONLY <3>2, <3>3
  <2>3. k \in Len(delivered) + 1 .. Len(sent) /\ Current = sent[k]
    BY <1>1, <1>5 DEF Current
  <2>4. InFlight[j] = Cells(Current)[i]
    <3> HIDE DEF k, i
    <3> QED BY <1>3, <2>1, <2>2, <2>3 DEF Frames
  <2> QED BY <1>2, <2>1, <2>4
<1> QED BY <1>4, <1>5

\* A step that consumes cells, or loses the end of them, keeps the frame.
LEMMA FramingKept ==
    ASSUME WholeLengths, TransportInv, phase # "closed", TransportTypeOK',
           NEW at, Located(at, sent), FramedBy(at), sent' = sent,
           NEW count \in Nat, Base(at)' = Base(at) + count,
           Len(delivered') \in Nat, Len(delivered') >= Len(delivered),
           InFlight' \in Seq(Nat),
           Len(InFlight') + count <= Len(InFlight),
           \A j \in 1 .. Len(InFlight') : InFlight'[j] = InFlight[j + count],
           ~broken' => ~broken /\ Len(InFlight') + count = Len(InFlight)
    PROVE  FramedBy(at)'
<1>1. /\ Len(delivered) \in Nat /\ Base(at) \in Nat /\ at[Len(sent) + 1] \in Nat
      /\ sent \in Seq(Packets)
  BY FramingFacts DEF TransportInv, Deliveries
<1>2. InFlight \in Seq(Nat) /\ Len(InFlight) \in Nat /\ Len(InFlight') \in Nat
  BY InFlightType, LenProperties DEF TransportInv
<1>3. /\ Frames(at, sent, InFlight, Base(at), Len(delivered) + 1)
      /\ Base(at) + Len(InFlight) <= at[Len(sent) + 1]
      /\ ~broken => Base(at) + Len(InFlight) = at[Len(sent) + 1]
  BY DEF FramedBy
<1> DEFINE f == Len(delivered) + 1
           g == Len(delivered') + 1
<1>4. f \in Nat \ {0} /\ g \in Nat /\ g >= f
  BY <1>1
<1> HIDE DEF f, g
<1>5. Frames(at, sent, InFlight', Base(at) + count, g)
  BY <1>1, <1>2, <1>3, <1>4, FramesAdvance DEF f
<1>6. (Base(at) + count) + Len(InFlight') <= at[Len(sent) + 1]
  BY <1>1, <1>2, <1>3
<1>7. ASSUME ~broken'
      PROVE  (Base(at) + count) + Len(InFlight') = at[Len(sent) + 1]
  <2>1. Len(InFlight') + count = Len(InFlight) /\ Base(at) + Len(InFlight) = at[Len(sent) + 1]
    BY <1>3, <1>7
  <2> DEFINE b == Base(at)
             l == Len(InFlight)
             m == Len(InFlight')
  <2>2. count \in Nat /\ b \in Nat /\ l \in Nat /\ m \in Nat /\ m + count = l
    BY <1>1, <1>2, <2>1
  <2> HIDE DEF b, l, m
  <2>3. (b + count) + m = b + l
    BY ONLY <2>2
  <2> QED BY <2>1, <2>3 DEF b, l, m
<1> QED BY <1>5, <1>6, <1>7 DEF FramedBy, g

\* What a read handler takes off the front is what it moves on by.
LEMMA ConsumingKept ==
    ASSUME WholeLengths, TransportInv, phase # "closed", TransportTypeOK',
           NEW at, Located(at, sent), FramedBy(at),
           UNCHANGED <<wire, unsent, sent, broken>>,
           NEW count \in 0 .. Len(buffer), Drops(buffer', buffer, count),
           Base(at)' = Base(at) + count,
           Len(delivered') \in Nat, Len(delivered') >= Len(delivered)
    PROVE  FramedBy(at)'
<1> DEFINE rest == IF broken THEN <<>> ELSE unsent
<1>1. buffer \in Seq(Nat) /\ wire \in Seq(Nat) /\ rest \in Seq(Nat)
  BY DEF TransportInv, TransportTypeOK
<1>2. InFlight = Flight(buffer, wire, rest) /\ InFlight' = Flight(buffer', wire, rest)
  BY DEF InFlight
<1> HIDE DEF rest
<1>3. Drops(InFlight', InFlight, count)
  BY <1>1, <1>2, DropCells
<1>4. /\ InFlight' \in Seq(Nat) /\ Len(InFlight') + count = Len(InFlight)
      /\ \A j \in 1 .. Len(InFlight') : InFlight'[j] = InFlight[j + count]
  BY <1>3 DEF Drops
<1>5. Len(InFlight') \in Nat /\ Len(InFlight) \in Nat /\ count \in Nat
  BY <1>4, InFlightType, LenProperties DEF TransportInv
<1>6. Len(InFlight') + count <= Len(InFlight)
  BY ONLY <1>4, <1>5
<1>7. ~broken' => ~broken /\ Len(InFlight') + count = Len(InFlight)
  BY <1>4
<1> QED BY <1>4, <1>5, <1>6, <1>7, FramingKept

\* A writer takes the mutex and has a whole packet to write.
LEMMA StartWriteKeeps ==
    ASSUME WholeLengths, TransportInv,
           NEW w \in Writers, NEW packet \in Packets, StartWrite(w, packet)
    PROVE  TransportInv'
<1>1. PICK at : Located(at, sent) /\ (phase # "closed" => FramedBy(at))
  BY DEF TransportInv, Framing
<1>0. PICK to : to = Extended(at, sent, packet)
  OBVIOUS
<1>2. /\ Len(sent) \in Nat /\ Len(delivered) \in Nat /\ Len(delivered) <= Len(sent)
      /\ sent \in Seq(Packets) /\ delivered \in Seq(Packets)
  BY <1>1, FramingFacts DEF TransportInv, Deliveries
<1>3. /\ sent' = Append(sent, packet) /\ lock = "free" /\ lock' = w /\ unsent' = Cells(packet)
      /\ wire' = wire /\ buffer' = buffer /\ phase' = phase /\ header' = header
      /\ delivered' = delivered /\ broken' = broken
  BY DEF StartWrite
<1>4. /\ sent' \in Seq(Packets) /\ Len(sent') = Len(sent) + 1
      /\ \A k \in 1 .. Len(sent) : sent'[k] = sent[k]
  BY <1>2, <1>3, AppendProperties
<1>5. Cells(packet) \in Seq(Nat) /\ Len(Cells(packet)) \in Nat
  BY CellsOfPacket
<1>6. TransportTypeOK'
  BY <1>3, <1>5 DEF TransportInv, TransportTypeOK
<1>7. Deliveries'
  <2>1. \A i \in 1 .. Len(delivered) : delivered[i] = sent[i] /\ i \in 1 .. Len(sent)
    BY <1>2 DEF TransportInv, Deliveries
  <2> QED BY <1>2, <1>3, <1>4, <2>1 DEF Deliveries
<1>8. Len(delivered) < Len(sent) => Current' = Current
  BY <1>2, <1>3, <1>4 DEF Current
<1>9. InStep'
  <2>1. Len(delivered) < Len(sent) => Len(delivered') < Len(sent')
    BY <1>2, <1>3, <1>4
  <2>2. InStep
    BY DEF TransportInv
  <2> QED BY ONLY <1>3, <1>8, <2>1, <2>2 DEF InStep
<1>10. /\ Located(to, sent') /\ \A k \in 1 .. Len(sent) + 1 : to[k] = at[k]
       /\ to[Len(sent) + 2] = at[Len(sent) + 1] + Len(Cells(packet))
  BY <1>0, <1>1, <1>2, <1>3, LocatedExtend
<1>11. ASSUME phase # "closed"
       PROVE  FramedBy(to)'
  <2>1. /\ Frames(at, sent, InFlight, Base(at), Len(delivered) + 1)
        /\ Base(at) + Len(InFlight) <= at[Len(sent) + 1]
        /\ ~broken => Base(at) + Len(InFlight) = at[Len(sent) + 1]
    BY <1>1, <1>11 DEF FramedBy
  <2>2. Base(at) \in Nat /\ at[Len(sent) + 1] \in Nat
    BY <1>1, <1>11, FramingFacts
  <2>3. Consumed' = Consumed
    <3>1. phase \in {"header", "length", "payload", "closed"}
      BY DEF TransportInv, TransportTypeOK
    <3>2. phase \in {"length", "payload"} => Len(delivered) < Len(sent)
      BY DEF TransportInv, InStep
    <3> QED BY <1>3, <1>8, <1>11, <3>1, <3>2 DEF Consumed
  <2>4. to[Len(delivered) + 1] = at[Len(delivered) + 1]
    BY <1>2, <1>10
  <2>5. Base(to)' = Base(at)
    BY <1>3, <2>3, <2>4 DEF Base
  <2>6. InFlight \in Seq(Nat) /\ Len(InFlight) \in Nat
    BY InFlightType DEF TransportInv
  <2>7. InFlight' = IF broken THEN InFlight ELSE InFlight \o Cells(packet)
    <3>1. buffer \in Seq(Nat) /\ wire \in Seq(Nat) /\ unsent = <<>>
      BY <1>3 DEF TransportInv, TransportTypeOK
    <3>2. InFlight = (buffer \o wire) \o <<>>
      BY <3>1 DEF InFlight, Flight
    <3>3. buffer \o wire \in Seq(Nat)
      BY <3>1, ConcatCells
    <3>4. InFlight = buffer \o wire
      BY <3>2, <3>3, ConcatEmptySeq
    <3> QED BY <1>3, <3>2, <3>4 DEF InFlight, Flight
  <2>8. Len(InFlight \o Cells(packet)) = Len(InFlight) + Len(Cells(packet))
    BY <1>5, <2>6, ConcatCells
  <2> DEFINE first == Len(delivered) + 1
  <2>9. first \in Nat \ {0} /\ first = Len(delivered') + 1
    BY <1>2, <1>3
  <2> HIDE DEF first
  <2>10. Frames(to, sent', InFlight', Base(at), first)
    <3>1. \/ InFlight' = InFlight /\ Base(at) + Len(InFlight) <= at[Len(sent) + 1]
          \/ InFlight' = InFlight \o Cells(packet) /\ Base(at) + Len(InFlight) = at[Len(sent) + 1]
      BY <2>1, <2>7
    <3>2. Frames(at, sent, InFlight, Base(at), first)
      BY <2>1 DEF first
    <3> QED BY <1>1, <1>2, <1>3, <2>2, <2>6, <2>9, <3>1, <3>2, <1>0, FramesExtend
  <2>11. to[Len(sent') + 1] = at[Len(sent) + 1] + Len(Cells(packet))
    <3>1. Len(sent') + 1 = Len(sent) + 2
      BY <1>2, <1>4
    <3> QED BY <1>10, <3>1
  <2>12. /\ Base(at) + Len(InFlight') <= to[Len(sent') + 1]
         /\ ~broken => Base(at) + Len(InFlight') = to[Len(sent') + 1]
    <3>1. CASE broken
      BY <1>5, <2>1, <2>2, <2>6, <2>7, <2>11, <3>1
    <3>2. CASE ~broken
      <4>1. Len(InFlight') = Len(InFlight) + Len(Cells(packet))
            /\ Base(at) + Len(InFlight) = at[Len(sent) + 1]
        BY <2>1, <2>7, <2>8, <3>2
      <4> QED BY ONLY <1>5, <2>2, <2>6, <2>11, <4>1
    <3> QED BY <3>1, <3>2
  <2> QED BY <1>3, <2>5, <2>9, <2>10, <2>12 DEF FramedBy
<1>12. Framing'
  BY <1>3, <1>10, <1>11 DEF Framing
<1>13. lock' # "free"
  BY <1>3, TransportAssumption
<1> QED BY <1>6, <1>7, <1>9, <1>12, <1>13 DEF TransportInv

\* Moving cells between unsent, wire and buffer does not move them in the stream.
LEMMA StreamUnmoved ==
    ASSUME WholeLengths, TransportInv, TransportTypeOK',
           InFlight' = InFlight,
           UNCHANGED <<phase, header, sent, delivered, broken>>,
           lock' = "free" => unsent' = <<>>
    PROVE  TransportInv'
<1>1. Consumed' = Consumed /\ Current' = Current
  BY DEF Consumed, Current
<1>2. ASSUME NEW at PROVE Base(at)' = Base(at)
  BY <1>1 DEF Base
<1>3. ASSUME NEW at PROVE FramedBy(at)' <=> FramedBy(at)
  BY <1>2 DEF FramedBy
<1>4. Framing'
  BY <1>3 DEF TransportInv, Framing
<1>5. Deliveries' /\ InStep'
  BY <1>1 DEF TransportInv, Deliveries, InStep
<1> QED BY <1>4, <1>5 DEF TransportInv

\* The stream takes some of the cells.
LEMMA ContinueWriteKeeps ==
    ASSUME WholeLengths, TransportInv, ContinueWrite
    PROVE  TransportInv'
<1>1. PICK count \in 1 .. Len(unsent) :
         /\ Len(wire) + count <= Capacity
         /\ wire' = wire \o SubSeq(unsent, 1, count)
         /\ unsent' = SubSeq(unsent, count + 1, Len(unsent))
  BY DEF ContinueWrite
<1>2. ~broken /\ lock' \in {lock, "free"} /\ (lock' = "free" => unsent' = <<>>)
      /\ UNCHANGED <<buffer, phase, header, sent, delivered, broken>>
  BY DEF ContinueWrite
<1>3. buffer \in Seq(Nat) /\ wire \in Seq(Nat) /\ unsent \in Seq(Nat)
      /\ lock \in Writers \cup {"free"}
  BY DEF TransportInv, TransportTypeOK
<1> DEFINE x == First(unsent, count)
<1>4. x \in Seq(Nat) /\ unsent' \in Seq(Nat) /\ Len(x) = count /\ Joined(x, unsent') = unsent
  <2>1. count \in 0 .. Len(unsent) /\ unsent' = Back(unsent, count)
    BY <1>1 DEF Back
  <2> QED BY <1>3, <2>1, CutCells
<1>5. wire' = Joined(wire, x)
  BY <1>1 DEF Joined, First
<1> HIDE DEF x
<1>6. Flight(buffer, wire', unsent') = Flight(buffer, wire, unsent)
  <2>1. Flight(buffer, Joined(wire, x), unsent') = Flight(buffer, wire, Joined(x, unsent'))
    BY <1>3, <1>4, WriteMovesNothing
  <2> QED BY <1>4, <1>5, <2>1
<1>7. InFlight' = InFlight
  BY <1>2, <1>6 DEF InFlight
<1>8. wire' \in Seq(Nat) /\ Len(wire') = Len(wire) + count
  BY <1>3, <1>4, <1>5, ConcatCells DEF Joined
<1>9. TransportTypeOK'
  <2>1. TransportTypeOK
    BY DEF TransportInv
  <2> QED BY <1>1, <1>2, <1>4, <1>8, <2>1 DEF TransportTypeOK
<1> QED BY <1>2, <1>7, <1>9, StreamUnmoved

\* A write fails on a broken connection.
LEMMA FailWriteKeeps ==
    ASSUME WholeLengths, TransportInv, FailWrite
    PROVE  TransportInv'
<1>1. /\ broken /\ unsent' = <<>> /\ lock' = "free"
      /\ UNCHANGED <<wire, buffer, phase, header, sent, delivered, broken>>
  BY DEF FailWrite
<1>2. InFlight' = InFlight
  BY <1>1 DEF InFlight
<1>3. TransportTypeOK'
  BY <1>1 DEF TransportInv, TransportTypeOK
<1> QED BY <1>1, <1>2, <1>3, StreamUnmoved

\* The reader's buffer takes a cell.
LEMMA FetchKeeps ==
    ASSUME WholeLengths, TransportInv, Fetch
    PROVE  TransportInv'
<1>1. /\ wire # <<>> /\ buffer' = Append(buffer, Head(wire)) /\ wire' = Tail(wire)
      /\ UNCHANGED <<lock, unsent, phase, header, sent, delivered, broken>>
  BY DEF Fetch
<1>2. buffer \in Seq(Nat) /\ wire \in Seq(Nat) /\ Len(wire) \in Nat
  BY LenProperties DEF TransportInv, TransportTypeOK
<1>3. buffer' \o wire' = buffer \o wire
  BY <1>1, <1>2, FetchMovesNothing
<1>4. InFlight' = InFlight
  BY <1>1, <1>3 DEF InFlight, Flight
<1>5. /\ Head(wire) \in Nat /\ wire' \in Seq(Nat) /\ Len(wire') = Len(wire) - 1
      /\ buffer' \in Seq(Nat)
  BY <1>1, <1>2, HeadTailProperties, AppendProperties
<1>6. TransportTypeOK'
  <2>1. TransportTypeOK /\ Capacity \in Nat
    BY TransportAssumption DEF TransportInv
  <2> QED BY <1>1, <1>2, <1>5, <2>1 DEF TransportTypeOK
<1> QED BY <1>1, <1>4, <1>6, StreamUnmoved DEF TransportInv

\* The header tells the length, or that the length follows.
LEMMA onHeaderKeeps ==
    ASSUME WholeLengths, TransportInv, onHeader
    PROVE  TransportInv'
<1>1. PICK at : Located(at, sent) /\ (phase # "closed" => FramedBy(at))
  BY DEF TransportInv, Framing
<1> DEFINE word == Head(buffer)
           size == (word \div NumberRange) % SizeRange
<1>2. /\ phase = "header" /\ buffer # <<>>
      /\ header' = [number |-> word % NumberRange,
                    type   |-> (word \div (NumberRange * SizeRange)) % TypeRange,
                    length |-> size]
      /\ phase' = IF size = 0 THEN "length" ELSE "payload"
      /\ buffer' = Tail(buffer)
      /\ UNCHANGED <<lock, unsent, wire, sent, delivered, broken>>
  BY DEF onHeader
<1>3. FramedBy(at)
  BY <1>1, <1>2
<1>4. /\ Len(delivered) < Len(sent)
      /\ \A j \in 1 .. Len(buffer) :
            Consumed + j \in 1 .. Len(Cells(Current)) => buffer[j] = Cells(Current)[Consumed + j]
  BY <1>1, <1>2, <1>3, NextCells
<1>5. Current \in Packets /\ Consumed = 0 /\ Base(at) \in Nat
      /\ at[Len(delivered) + 1] \in Nat
  BY <1>1, <1>2, <1>4, FramingFacts DEF Consumed
<1>6. buffer \in Seq(Nat) /\ wire \in Seq(Nat) /\ unsent \in Seq(Nat)
      /\ Len(buffer) \in Nat /\ 1 \in 1 .. Len(buffer) /\ Head(buffer) = buffer[1]
  BY <1>2 DEF TransportInv, TransportTypeOK
<1>7. /\ Len(Cells(Current)) = HeaderLength(Current) + Len(Current.payload)
      /\ HeaderLength(Current) \in 1 .. 2 /\ Len(Current.payload) \in Nat
      /\ Len(Current.payload) >= 1
      /\ Cells(Current)[1] \in Nat
      /\ Cells(Current)[1] % NumberRange = Current.number
      /\ (Cells(Current)[1] \div NumberRange) % SizeRange =
             IF HeaderLength(Current) = 1 THEN Len(Current.payload) ELSE 0
      /\ (Cells(Current)[1] \div (NumberRange * SizeRange)) % TypeRange = Current.type
  BY <1>5, CellsOfPacket
<1>8. word = Cells(Current)[1]
  <2>1. Consumed + 1 \in 1 .. Len(Cells(Current)) /\ Consumed + 1 = 1
    BY <1>5, <1>7
  <2> QED BY <1>4, <1>6, <2>1
<1>9. /\ header'.number = Current.number /\ header'.type = Current.type
      /\ header'.length = IF HeaderLength(Current) = 1 THEN Len(Current.payload) ELSE 0
      /\ phase' = IF HeaderLength(Current) = 1 THEN "payload" ELSE "length"
      /\ header' = [number |-> Current.number, type |-> Current.type,
                    length |-> IF HeaderLength(Current) = 1 THEN Len(Current.payload) ELSE 0]
  <2>1. size = IF HeaderLength(Current) = 1 THEN Len(Current.payload) ELSE 0
    BY <1>7, <1>8
  <2>2. word % NumberRange = Current.number
        /\ (word \div (NumberRange * SizeRange)) % TypeRange = Current.type
    BY <1>7, <1>8
  <2> HIDE DEF word, size
  <2>3. phase' = IF HeaderLength(Current) = 1 THEN "payload" ELSE "length"
    BY <1>2, <1>7, <2>1
  <2> QED BY <1>2, <2>1, <2>2, <2>3
<1> HIDE DEF word, size
<1>10. Current' = Current /\ Consumed' = 1
  <2>1. Current' = Current
    BY <1>2 DEF Current
  <2> QED BY <1>7, <1>9, <2>1 DEF Consumed, HeaderLength
<1>12. buffer' \in Seq(Nat)
  BY <1>2, <1>6, HeadTailProperties
<1>13. TransportTypeOK'
  <2>1. Current.number \in 0 .. NumberRange - 1 /\ Current.type \in 0 .. TypeRange - 1
    BY <1>5, TransportAssumption
  <2>2. header' \in [number : 0 .. NumberRange - 1, type : 0 .. TypeRange - 1, length : Nat]
    BY <1>7, <1>9, <2>1
  <2>3. phase' \in {"header", "length", "payload", "closed"}
    BY <1>9
  <2> QED BY <1>2, <1>12, <2>2, <2>3 DEF TransportInv, TransportTypeOK
<1>14. InStep'
  <2>1. phase' = "length" => HeaderLength(Current') = 2
    BY <1>7, <1>9, <1>10
  <2>2. phase' = "payload" => header'.length = Len(Current'.payload)
    BY <1>9, <1>10
  <2> QED BY <1>2, <1>4, <1>9, <1>10, <2>1, <2>2 DEF InStep
<1>15. Deliveries'
  BY <1>2 DEF TransportInv, Deliveries
<1>16. FramedBy(at)'
  <2>1. PICK c \in 0 .. Len(buffer) : c = 1
    BY <1>6
  <2>2. Drops(buffer', buffer, c)
    BY <1>2, <1>6, <1>12, <2>1, HeadTailProperties DEF Drops
  <2>3. Base(at)' = Base(at) + c
    BY <1>2, <1>5, <1>10, <2>1 DEF Base
  <2>4. Len(delivered') \in Nat /\ Len(delivered') >= Len(delivered)
    BY <1>1, <1>2, FramingFacts
  <2> QED BY <1>1, <1>2, <1>3, <1>13, <2>2, <2>3, <2>4, ConsumingKept
<1>17. Framing'
  BY <1>1, <1>2, <1>16 DEF Framing
<1> QED BY <1>2, <1>13, <1>14, <1>15, <1>17 DEF TransportInv

\* The length follows the header.
LEMMA onAdditionalLengthKeeps ==
    ASSUME WholeLengths, TransportInv, onAdditionalLength
    PROVE  TransportInv'
<1>1. PICK at : Located(at, sent) /\ (phase # "closed" => FramedBy(at))
  BY DEF TransportInv, Framing
<1>2. /\ phase = "length" /\ buffer # <<>>
      /\ header' = [header EXCEPT !.length = Head(buffer)]
      /\ phase' = "payload" /\ buffer' = Tail(buffer)
      /\ UNCHANGED <<lock, unsent, wire, sent, delivered, broken>>
  BY DEF onAdditionalLength
<1>3. FramedBy(at)
  BY <1>1, <1>2
<1>4. /\ Len(delivered) < Len(sent)
      /\ header.type = Current.type /\ header.number = Current.number
      /\ HeaderLength(Current) = 2
  BY <1>2 DEF TransportInv, InStep
<1>5. \A j \in 1 .. Len(buffer) :
          Consumed + j \in 1 .. Len(Cells(Current)) => buffer[j] = Cells(Current)[Consumed + j]
  BY <1>1, <1>2, <1>3, <1>4, NextCells
<1>6. /\ Current \in Packets /\ Consumed = 1 /\ Base(at) \in Nat
      /\ at[Len(delivered) + 1] \in Nat
  BY <1>1, <1>2, <1>4, FramingFacts DEF Consumed
<1>7. buffer \in Seq(Nat) /\ Len(buffer) \in Nat /\ 1 \in 1 .. Len(buffer)
      /\ Head(buffer) = buffer[1] /\ Head(buffer) \in Nat /\ buffer' \in Seq(Nat)
  BY <1>2, HeadTailProperties DEF TransportInv, TransportTypeOK
<1>8. /\ Len(Cells(Current)) = HeaderLength(Current) + Len(Current.payload)
      /\ Len(Current.payload) \in Nat /\ Cells(Current)[2] = Len(Current.payload)
  BY <1>4, <1>6, CellsOfPacket
<1>9. Head(buffer) = Len(Current.payload)
  <2>1. Consumed + 1 \in 1 .. Len(Cells(Current)) /\ Consumed + 1 = 2
    BY <1>4, <1>6, <1>8
  <2> QED BY <1>5, <1>7, <1>8, <2>1
<1>10. header \in [number : 0 .. NumberRange - 1, type : 0 .. TypeRange - 1, length : Nat]
  BY DEF TransportInv, TransportTypeOK
<1>11. /\ header'.length = Len(Current.payload)
       /\ header'.type = Current.type /\ header'.number = Current.number
       /\ header' \in [number : 0 .. NumberRange - 1, type : 0 .. TypeRange - 1, length : Nat]
  BY <1>2, <1>4, <1>7, <1>9, <1>10
<1>12. Current' = Current /\ Consumed' = 2
  <2>1. Current' = Current
    BY <1>2 DEF Current
  <2> QED BY <1>2, <1>4, <2>1 DEF Consumed
<1>13. TransportTypeOK'
  BY <1>2, <1>7, <1>11 DEF TransportInv, TransportTypeOK
<1>14. InStep'
  BY <1>2, <1>4, <1>11, <1>12 DEF InStep
<1>15. Deliveries'
  BY <1>2 DEF TransportInv, Deliveries
<1>16. FramedBy(at)'
  <2>1. PICK c \in 0 .. Len(buffer) : c = 1
    BY <1>7
  <2>2. Drops(buffer', buffer, c)
    BY <1>2, <1>7, <2>1, HeadTailProperties DEF Drops
  <2>3. Base(at)' = Base(at) + c
    BY <1>2, <1>6, <1>12, <2>1 DEF Base
  <2>4. Len(delivered') \in Nat /\ Len(delivered') >= Len(delivered)
    BY <1>1, <1>2, FramingFacts
  <2> QED BY <1>1, <1>2, <1>3, <1>13, <2>2, <2>3, <2>4, ConsumingKept
<1>17. Framing'
  BY <1>1, <1>2, <1>16 DEF Framing
<1> QED BY <1>2, <1>13, <1>14, <1>15, <1>17 DEF TransportInv

\* What onPayload hands on is the current packet.
LEMMA PayloadIsCurrent ==
    ASSUME WholeLengths, TransportInv, onPayload
    PROVE  /\ Len(delivered) < Len(sent) /\ Current \in Packets
           /\ delivered' = Append(delivered, Current)
<1>1. PICK at : Located(at, sent) /\ (phase # "closed" => FramedBy(at))
  BY DEF TransportInv, Framing
<1>2. /\ phase = "payload" /\ Len(buffer) >= header.length
      /\ delivered' = Append(delivered, [type |-> header.type, number |-> header.number,
                                         payload |-> SubSeq(buffer, 1, header.length)])
  BY DEF onPayload
<1>3. /\ Len(delivered) < Len(sent)
      /\ header.type = Current.type /\ header.number = Current.number
      /\ header.length = Len(Current.payload)
  BY <1>2 DEF TransportInv, InStep
<1>4. \A j \in 1 .. Len(buffer) :
          Consumed + j \in 1 .. Len(Cells(Current)) => buffer[j] = Cells(Current)[Consumed + j]
  BY <1>1, <1>2, <1>3, NextCells
<1>5. Current \in Packets /\ Consumed = HeaderLength(Current)
  BY <1>1, <1>2, <1>3, FramingFacts DEF Consumed
<1>6. /\ Current = [type |-> Current.type, number |-> Current.number,
                    payload |-> Current.payload]
      /\ Current.payload \in Seq(Nat)
      /\ Len(Cells(Current)) = HeaderLength(Current) + Len(Current.payload)
      /\ HeaderLength(Current) \in 1 .. 2 /\ Len(Current.payload) \in Nat
      /\ \A i \in 1 .. Len(Current.payload) :
             Cells(Current)[HeaderLength(Current) + i] = Current.payload[i]
  BY <1>5, CellsOfPacket
<1> DEFINE n == Len(Current.payload)
           p == First(buffer, n)
<1>7. buffer \in Seq(Nat) /\ Len(buffer) \in Nat
  BY LenProperties DEF TransportInv, TransportTypeOK
<1>8. n \in 0 .. Len(buffer)
  BY <1>2, <1>3, <1>6, <1>7
<1>9. p \in Seq(Nat) /\ Len(p) = n /\ \A j \in 1 .. n : p[j] = buffer[j]
  BY <1>7, <1>8, CutCells
<1>10. ASSUME NEW j \in 1 .. n
       PROVE  p[j] = Current.payload[j]
  <2>1. j \in 1 .. Len(buffer) /\ Consumed + j \in 1 .. Len(Cells(Current))
    BY <1>5, <1>6, <1>7, <1>8, SMTT(30)
  <2>2. buffer[j] = Cells(Current)[Consumed + j]
    BY <1>4, <2>1
  <2> QED BY <1>5, <1>6, <1>9, <2>2
<1>11. p = Current.payload
  <2> HIDE DEF p
  <2> QED BY <1>6, <1>9, <1>10, SeqEqual
<1>12. SubSeq(buffer, 1, header.length) = Current.payload
  BY <1>3, <1>11 DEF First
<1>13. [type |-> header.type, number |-> header.number,
        payload |-> SubSeq(buffer, 1, header.length)] = Current
  BY <1>3, <1>6, <1>12
<1> QED BY <1>2, <1>3, <1>5, <1>13

\* A payload is delivered and the next header read.
LEMMA onPayloadKeeps ==
    ASSUME WholeLengths, TransportInv, onPayload
    PROVE  TransportInv'
<1>1. PICK at : Located(at, sent) /\ (phase # "closed" => FramedBy(at))
  BY DEF TransportInv, Framing
<1>2. /\ phase = "payload" /\ Len(buffer) >= header.length
      /\ buffer' = Back(buffer, header.length) /\ phase' = "header"
      /\ UNCHANGED <<lock, unsent, wire, header, sent, broken>>
  BY DEF onPayload, Back
<1>3. FramedBy(at)
  BY <1>1, <1>2
<1>4. /\ Len(delivered) < Len(sent) /\ Current \in Packets
      /\ delivered' = Append(delivered, Current)
  BY PayloadIsCurrent
<1>5. header.length = Len(Current.payload) /\ Consumed = HeaderLength(Current)
  BY <1>2 DEF TransportInv, InStep, Consumed
<1>6. /\ Len(sent) \in Nat /\ Len(delivered) \in Nat
      /\ at[Len(delivered) + 1] \in Nat
      /\ at[Len(delivered) + 2] =
             at[Len(delivered) + 1] + HeaderLength(Current) + Len(Current.payload)
      /\ delivered \in Seq(Packets)
  BY <1>1, <1>4, FramingFacts DEF TransportInv, Deliveries
<1>7. /\ delivered' \in Seq(Packets) /\ Len(delivered') = Len(delivered) + 1
      /\ delivered'[Len(delivered) + 1] = Current
      /\ \A i \in 1 .. Len(delivered) : delivered'[i] = delivered[i]
  BY <1>4, <1>6, AppendProperties
<1>8. buffer \in Seq(Nat) /\ Len(buffer) \in Nat /\ header.length \in 0 .. Len(buffer)
  BY <1>2, LenProperties DEF TransportInv, TransportTypeOK
<1>9. buffer' \in Seq(Nat) /\ Drops(buffer', buffer, header.length)
  BY <1>2, <1>8, CutCells
<1>10. TransportTypeOK'
  BY <1>2, <1>9 DEF TransportInv, TransportTypeOK
<1>11. Deliveries'
  <2>1. Len(delivered') <= Len(sent') /\ sent' \in Seq(Packets)
    BY <1>2, <1>4, <1>6, <1>7 DEF TransportInv, Deliveries
  <2>2. ASSUME NEW i \in 1 .. Len(delivered')
        PROVE  delivered'[i] = sent'[i]
    <3>1. CASE i = Len(delivered) + 1
      BY <1>2, <1>7, <3>1 DEF Current
    <3>2. CASE i # Len(delivered) + 1
      <4>1. i \in 1 .. Len(delivered)
        BY <1>6, <1>7, <3>2
      <4> QED BY <1>2, <1>7, <4>1 DEF TransportInv, Deliveries
    <3> QED BY <3>1, <3>2
  <2> QED BY <1>7, <2>1, <2>2 DEF Deliveries
<1>12. InStep'
  BY <1>2 DEF InStep
<1>13. FramedBy(at)'
  <2>1. PICK c \in 0 .. Len(buffer) : c = header.length
    BY <1>8
  <2>2. Drops(buffer', buffer, c)
    BY <1>9, <2>1
  <2>3. Base(at)' = Base(at) + c
    <3>1. Base(at)' = at[Len(delivered) + 2]
      <4>1. Len(delivered') + 1 = Len(delivered) + 2
        BY <1>6, <1>7
      <4>2. Consumed' = 0
        BY <1>2 DEF Consumed
      <4>3. Base(at)' = at[Len(delivered) + 2] + 0
        BY <4>1, <4>2 DEF Base
      <4>4. at[Len(delivered) + 2] \in Nat
        <5>1. HeaderLength(Current) \in 1 .. 2 /\ Len(Current.payload) \in Nat
          BY <1>4, CellsOfPacket
        <5>2. /\ at[Len(delivered) + 1] \in Nat
              /\ at[Len(delivered) + 2] =
                     at[Len(delivered) + 1] + HeaderLength(Current) + Len(Current.payload)
          BY <1>6
        <5> QED BY ONLY <5>1, <5>2, SMTT(30)
      <4> QED BY <4>3, <4>4
    <3> QED BY <1>5, <1>6, <2>1, <3>1 DEF Base
  <2>4. Len(delivered') \in Nat /\ Len(delivered') >= Len(delivered)
    BY <1>6, <1>7
  <2> QED BY <1>1, <1>2, <1>3, <1>10, <2>2, <2>3, <2>4, ConsumingKept
<1>14. Framing'
  BY <1>1, <1>2, <1>13 DEF Framing
<1> QED BY <1>2, <1>10, <1>11, <1>12, <1>14 DEF TransportInv

\* A read fails once the connection is broken and empty.
LEMMA onReadErrorKeeps ==
    ASSUME WholeLengths, TransportInv, onReadError
    PROVE  TransportInv'
<1>1. phase' = "closed" /\ UNCHANGED <<lock, unsent, wire, buffer, header, sent, delivered, broken>>
  BY DEF onReadError
<1>2. TransportTypeOK' /\ Deliveries' /\ InStep'
  BY <1>1 DEF TransportInv, TransportTypeOK, Deliveries, InStep
<1>3. Framing'
  BY <1>1 DEF TransportInv, Framing
<1> QED BY <1>1, <1>2, <1>3 DEF TransportInv

\* A break loses the end of what is on the wire.
LEMMA ConnectionBreaksKeeps ==
    ASSUME WholeLengths, TransportInv, ConnectionBreaks
    PROVE  TransportInv'
<1>0. PICK none : none \in Seq(Nat) /\ none = <<>> /\ Len(none) = 0
  <2>1. <<>> \in Seq(Nat) /\ Len(<<>>) = 0
    OBVIOUS
  <2> QED BY <2>1, Zenon
<1>1. PICK kept \in 0 .. Len(wire) : wire' = First(wire, kept)
  BY DEF ConnectionBreaks, First
<1>2. ~broken /\ broken' = TRUE
      /\ UNCHANGED <<lock, unsent, buffer, phase, header, sent, delivered>>
  BY DEF ConnectionBreaks
<1>3. PICK at : Located(at, sent) /\ (phase # "closed" => FramedBy(at))
  BY DEF TransportInv, Framing
<1>4. /\ buffer \in Seq(Nat) /\ wire \in Seq(Nat) /\ unsent \in Seq(Nat)
      /\ Len(buffer) \in Nat /\ Len(wire) \in Nat /\ Len(unsent) \in Nat
  BY LenProperties DEF TransportInv, TransportTypeOK
<1>5. wire' \in Seq(Nat) /\ Len(wire') = kept /\ \A j \in 1 .. kept : wire'[j] = wire[j]
  BY <1>1, <1>4, CutCells
<1>6. TransportTypeOK'
  <2>1. TransportTypeOK /\ Capacity \in Nat
    BY TransportAssumption DEF TransportInv
  <2> QED BY <1>2, <1>4, <1>5, <2>1 DEF TransportTypeOK
<1>7. Deliveries' /\ InStep'
  <2>1. Current' = Current
    BY <1>2 DEF Current
  <2> QED BY <1>2, <2>1 DEF TransportInv, Deliveries, InStep
<1>8. ASSUME phase # "closed" PROVE FramedBy(at)'
  <2>1. InFlight = Flight(buffer, wire, unsent) /\ InFlight' = Flight(buffer, wire', none)
    BY <1>2, <1>0 DEF InFlight
  <2>2. /\ InFlight' \in Seq(Nat) /\ Len(InFlight') \in Nat
        /\ Len(InFlight') = Len(buffer) + Len(wire') + Len(none)
        /\ \A i \in 1 .. Len(buffer) : InFlight'[i] = buffer[i]
        /\ \A i \in 1 .. Len(wire') : InFlight'[Len(buffer) + i] = wire'[i]
    <3>1. buffer \in Seq(Nat) /\ wire' \in Seq(Nat) /\ none \in Seq(Nat)
      BY <1>4, <1>5, <1>0
    <3> DEFINE f == Flight(buffer, wire', none)
    <3>2. /\ f \in Seq(Nat) /\ Len(f) \in Nat /\ Len(f) = Len(buffer) + Len(wire') + Len(none)
          /\ \A i \in 1 .. Len(buffer) : f[i] = buffer[i]
          /\ \A i \in 1 .. Len(wire') : f[Len(buffer) + i] = wire'[i]
      BY ONLY <3>1, FlightType
    <3> QED BY <2>1, <3>2
  <2>3. /\ Len(InFlight) = Len(buffer) + Len(wire) + Len(unsent)
        /\ \A i \in 1 .. Len(buffer) : InFlight[i] = buffer[i]
        /\ \A i \in 1 .. Len(wire) : InFlight[Len(buffer) + i] = wire[i]
    <3> DEFINE f == Flight(buffer, wire, unsent)
    <3>1. buffer \in Seq(Nat) /\ wire \in Seq(Nat) /\ unsent \in Seq(Nat)
      BY <1>4
    <3>2. /\ Len(f) = Len(buffer) + Len(wire) + Len(unsent)
          /\ \A i \in 1 .. Len(buffer) : f[i] = buffer[i]
          /\ \A i \in 1 .. Len(wire) : f[Len(buffer) + i] = wire[i]
      BY ONLY <3>1, FlightType
    <3> QED BY <2>1, <3>2
  <2>4. Len(InFlight') = Len(buffer) + kept /\ Len(InFlight') + 0 <= Len(InFlight)
    BY <1>4, <1>5, <1>0, <2>2, <2>3
  <2>5. ASSUME NEW j \in 1 .. Len(InFlight')
        PROVE  InFlight'[j] = InFlight[j + 0]
    <3>1. j \in 1 .. Len(buffer) + kept /\ j + 0 = j
      BY <2>4
    <3>2. CASE j <= Len(buffer)
      <4>1. j \in 1 .. Len(buffer)
        BY <1>4, <3>1, <3>2
      <4> QED BY <2>2, <2>3, <3>1, <4>1
    <3>3. CASE j > Len(buffer)
      <4> DEFINE i == j - Len(buffer)
      <4>1. i \in 1 .. kept /\ i \in 1 .. Len(wire) /\ j = Len(buffer) + i
        BY <1>4, <3>1, <3>3
      <4> HIDE DEF i
      <4> QED BY <1>5, <2>2, <2>3, <3>1, <4>1, ZenonT(30)
    <3>4. j <= Len(buffer) \/ j > Len(buffer)
      BY ONLY <1>4, <3>1
    <3> QED BY ONLY <3>2, <3>3, <3>4
  <2>6. Base(at)' = Base(at) + 0
    <3>1. Consumed' = Consumed
      BY <1>2 DEF Consumed, Current
    <3>2. Base(at)' = Base(at)
      BY <1>2, <3>1 DEF Base
    <3>3. Base(at) \in Nat
      BY <1>3, <1>8, FramingFacts
    <3> QED BY <3>2, <3>3
  <2>7. Len(delivered') \in Nat /\ Len(delivered') >= Len(delivered)
    BY <1>2, <1>3, FramingFacts
  <2>8. PICK c \in Nat : c = 0
    OBVIOUS
  <2>9. /\ Base(at)' = Base(at) + c /\ Len(InFlight') + c <= Len(InFlight)
        /\ \A j \in 1 .. Len(InFlight') : InFlight'[j] = InFlight[j + c]
    BY <2>4, <2>5, <2>6, <2>8
  <2> QED BY <1>2, <1>3, <1>6, <1>8, <2>2, <2>7, <2>9, FramingKept
<1>9. Framing'
  BY <1>2, <1>3, <1>8 DEF Framing
<1> QED BY <1>2, <1>6, <1>7, <1>9 DEF TransportInv

-----------------------------------------------------------------------------
(* The queue of packets written and not yet delivered. *)

\* What is behind the first n elements.
LEMMA QueueType ==
    ASSUME NEW S, NEW s \in Seq(S), NEW n \in 0 .. Len(s)
    PROVE  LET q == SubSeq(s, n + 1, Len(s)) IN
           q \in Seq(S) /\ Len(q) = Len(s) - n /\ \A i \in 1 .. Len(q) : q[i] = s[n + i]
<1>1. \A i \in 1 .. Len(s) : s[i] \in S
  BY ElementOfSeq
<1>2. Len(s) \in Nat /\ n \in Nat
  BY LenProperties
<1> QED BY <1>1, <1>2, SubSeqProperties

\* Sending appends to the packets not yet delivered.
LEMMA QueueGrows ==
    ASSUME NEW S, NEW s \in Seq(S), NEW n \in 0 .. Len(s), NEW e \in S
    PROVE  SubSeq(Append(s, e), n + 1, Len(Append(s, e))) = Append(SubSeq(s, n + 1, Len(s)), e)
<1> DEFINE t == Append(s, e)
           q == SubSeq(s, n + 1, Len(s))
           p == SubSeq(t, n + 1, Len(t))
           g == Append(q, e)
<1>1. Len(s) \in Nat /\ n \in Nat
  BY LenProperties
<1>2. /\ t \in Seq(S) /\ Len(t) = Len(s) + 1 /\ t[Len(s) + 1] = e
      /\ \A i \in 1 .. Len(s) : t[i] = s[i]
  BY AppendProperties
<1>3. q \in Seq(S) /\ Len(q) = Len(s) - n /\ \A i \in 1 .. Len(q) : q[i] = s[n + i]
  BY QueueType
<1> HIDE DEF t
<1>4. p \in Seq(S) /\ Len(p) = Len(t) - n /\ \A i \in 1 .. Len(p) : p[i] = t[n + i]
  <2>1. n \in 0 .. Len(t)
    BY <1>1, <1>2
  <2> QED BY <1>2, <2>1, QueueType
<1> HIDE DEF q
<1>5. /\ g \in Seq(S) /\ Len(g) = Len(q) + 1 /\ g[Len(q) + 1] = e
      /\ \A i \in 1 .. Len(q) : g[i] = q[i]
  BY <1>3, AppendProperties
<1> HIDE DEF p, g
<1>6. Len(p) = Len(g) /\ Len(p) = Len(q) + 1 /\ Len(p) \in Nat /\ Len(q) \in Nat
  BY <1>1, <1>2, <1>3, <1>4, <1>5
<1>7. ASSUME NEW i \in 1 .. Len(p)
      PROVE  p[i] = g[i]
  <2>1. CASE i = Len(q) + 1
    <3>1. n + i = Len(s) + 1
      BY <1>1, <1>3, <2>1
    <3> QED BY <1>2, <1>4, <1>5, <2>1, <3>1
  <2>2. CASE i # Len(q) + 1
    <3>1. i \in 1 .. Len(q) /\ n + i \in 1 .. Len(s)
      <4>1. Len(q) = Len(s) - n /\ i \in 1 .. Len(q) + 1
        BY <1>3, <1>6
      <4> QED BY ONLY <1>1, <1>6, <2>2, <4>1
    <3> QED BY <1>2, <1>3, <1>4, <1>5, <3>1
  <2> QED BY <2>1, <2>2
<1>8. p = g
  BY <1>4, <1>5, <1>6, <1>7, SeqEqual
<1> QED BY <1>8 DEF p, g, q, t

\* Delivering takes the first of the packets not yet delivered.
LEMMA QueueShrinks ==
    ASSUME NEW S, NEW s \in Seq(S), NEW n \in Nat, n < Len(s)
    PROVE  /\ SubSeq(s, n + 1, Len(s)) # <<>>
           /\ Head(SubSeq(s, n + 1, Len(s))) = s[n + 1]
           /\ SubSeq(s, (n + 1) + 1, Len(s)) = Tail(SubSeq(s, n + 1, Len(s)))
<1> DEFINE q == SubSeq(s, n + 1, Len(s))
           p == SubSeq(s, (n + 1) + 1, Len(s))
<1>1. Len(s) \in Nat /\ n \in 0 .. Len(s) /\ n + 1 \in 0 .. Len(s)
  BY LenProperties
<1>2. q \in Seq(S) /\ Len(q) = Len(s) - n /\ \A i \in 1 .. Len(q) : q[i] = s[n + i]
  BY <1>1, QueueType
<1>3. p \in Seq(S) /\ Len(p) = Len(s) - (n + 1) /\ \A i \in 1 .. Len(p) : p[i] = s[(n + 1) + i]
  BY <1>1, QueueType
<1> HIDE DEF p, q
<1>4. Len(q) \in Nat /\ Len(q) >= 1 /\ q # <<>>
  BY <1>1, <1>2
<1>5. Head(q) = s[n + 1]
  BY <1>2, <1>4, HeadTailProperties
<1>6. Tail(q) \in Seq(S) /\ Len(Tail(q)) = Len(q) - 1
      /\ \A i \in 1 .. Len(Tail(q)) : Tail(q)[i] = q[i + 1]
  BY <1>2, <1>4, HeadTailProperties
<1>7. Len(p) = Len(Tail(q)) /\ Len(p) \in Nat
  BY <1>1, <1>2, <1>3, <1>6
<1>8. ASSUME NEW i \in 1 .. Len(p)
      PROVE  p[i] = Tail(q)[i]
  <2>1. i + 1 \in 1 .. Len(q) /\ (n + 1) + i = n + (i + 1)
    BY <1>4, <1>6, <1>7
  <2> QED BY <1>2, <1>3, <1>6, <1>7, <2>1
<1>9. p = Tail(q)
  BY <1>3, <1>6, <1>7, <1>8, SeqEqual
<1> QED BY <1>4, <1>5, <1>9 DEF p, q

-----------------------------------------------------------------------------
(* The theorems. *)

\* A connection nothing was written to.
LEMMA TransportInitial ==
    ASSUME TransportInit
    PROVE  TransportInv
<1>1. TransportTypeOK
  <2>1. /\ lock = "free" /\ unsent = <<>> /\ wire = <<>> /\ buffer = <<>> /\ phase = "header"
        /\ header = [number |-> 0, type |-> 0, length |-> 0] /\ broken = FALSE
    BY DEF TransportInit
  <2>2. 0 \in 0 .. NumberRange - 1 /\ 0 \in 0 .. TypeRange - 1 /\ Capacity \in Nat
    BY TransportAssumption
  <2>3. <<>> \in Seq(Nat) /\ Len(<<>>) = 0
    OBVIOUS
  <2>4. header \in [number : 0 .. NumberRange - 1, type : 0 .. TypeRange - 1, length : Nat]
    BY <2>1, <2>2
  <2>5. unsent \in Seq(Nat) /\ wire \in Seq(Nat) /\ buffer \in Seq(Nat)
    BY <2>1, <2>3
  <2>6. Len(wire) <= Capacity
    BY <2>1, <2>2, <2>3
  <2> QED BY <2>1, <2>4, <2>5, <2>6 DEF TransportTypeOK
<1>2. Deliveries /\ InStep
  BY DEF TransportInit, Deliveries, InStep
<1>3. PICK at : at = [k \in 1 .. 1 |-> 0]
  OBVIOUS
<1>4. sent = <<>> /\ delivered = <<>> /\ Len(sent) = 0 /\ Len(delivered) = 0
      /\ phase = "header" /\ ~broken
  BY DEF TransportInit
<1>5. at[1] = 0 /\ at \in [1 .. Len(sent) + 1 -> Nat]
  BY <1>3, <1>4
<1>6. Located(at, sent)
  BY <1>4, <1>5 DEF Located
<1>7. InFlight = <<>> /\ Len(InFlight) = 0
  <2>1. <<>> \o <<>> = <<>>
    BY ConcatEmptySeq
  <2> QED BY <1>4, <2>1 DEF TransportInit, InFlight, Flight
<1>8. Base(at) = 0 /\ at[Len(sent) + 1] = 0
  BY <1>4, <1>5 DEF Base, Consumed
<1>9. Frames(at, sent, InFlight, Base(at), Len(delivered) + 1)
  BY <1>4 DEF Frames
<1>10. FramedBy(at)
  BY <1>7, <1>8, <1>9 DEF FramedBy
<1> QED BY <1>1, <1>2, <1>6, <1>10 DEF TransportInv, Framing, TransportInit

\* Every step keeps the invariant.
LEMMA TransportStep ==
    ASSUME WholeLengths, TransportInv, [TransportNext]_transportVars
    PROVE  TransportInv'
<1>1. CASE \E w \in Writers, packet \in Packets : StartWrite(w, packet)
  BY <1>1, StartWriteKeeps
<1>2. CASE ContinueWrite
  BY <1>2, ContinueWriteKeeps
<1>3. CASE FailWrite
  BY <1>3, FailWriteKeeps
<1>4. CASE Fetch
  BY <1>4, FetchKeeps
<1>5. CASE onHeader
  BY <1>5, onHeaderKeeps
<1>6. CASE onAdditionalLength
  BY <1>6, onAdditionalLengthKeeps
<1>7. CASE onPayload
  BY <1>7, onPayloadKeeps
<1>8. CASE onReadError
  BY <1>8, onReadErrorKeeps
<1>9. CASE ConnectionBreaks
  BY <1>9, ConnectionBreaksKeeps
<1>10. CASE UNCHANGED transportVars
  <2>1. InFlight' = InFlight /\ TransportTypeOK'
    BY <1>10 DEF transportVars, InFlight, TransportInv, TransportTypeOK
  <2> QED BY <1>10, <2>1, StreamUnmoved DEF transportVars, TransportInv
<1> QED BY <1>1, <1>2, <1>3, <1>4, <1>5, <1>6, <1>7, <1>8, <1>9, <1>10 DEF TransportNext

\* For every set of writers and of packets with a payload, every field width and every size of
\* the connection, the invariant is inductive: what is under way are the cells of the packets
\* sent and not yet delivered, from where the read handlers are
\* (StreamWriter.cpp:27-80, ProtocolHandler.cpp:101-191).
THEOREM TransportInductive ==
    ASSUME WholeLengths
    PROVE  TransportSpec => []TransportInv
<1>1. TransportInit => TransportInv
  BY TransportInitial
<1>2. TransportInv /\ [TransportNext]_transportVars => TransportInv'
  BY TransportStep
<1> QED BY <1>1, <1>2, PTL DEF TransportSpec

\* Every variable keeps its type: the handlers' header fields stay in range and the
\* connection never holds more than it takes.
THEOREM TransportTypes ==
    ASSUME WholeLengths
    PROVE  TransportSpec => []TransportTypeOK
<1>1. TransportInv => TransportTypeOK
  BY DEF TransportInv
<1> QED BY <1>1, TransportInductive, PTL

\* The packets handed on are the packets written, whole and in order.
THEOREM PacketsDeliveredAsSent ==
    ASSUME WholeLengths
    PROVE  TransportSpec => []DeliveredAsSent
<1>1. ASSUME TransportInv PROVE DeliveredAsSent
  <2>1. /\ sent \in Seq(Packets) /\ delivered \in Seq(Packets)
        /\ Len(delivered) \in Nat /\ Len(sent) \in Nat /\ Len(delivered) <= Len(sent)
        /\ \A i \in 1 .. Len(delivered) : delivered[i] = sent[i]
    BY <1>1, LenProperties DEF TransportInv, Deliveries
  <2> DEFINE n == Len(delivered)
             s == SubSeq(delivered, 1, n)
             t == SubSeq(sent, 1, n)
  <2>2. \A i \in 1 .. n : delivered[i] \in Packets /\ sent[i] \in Packets
    BY <2>1, ElementOfSeq
  <2>3. s \in Seq(Packets) /\ Len(s) = n /\ \A i \in 1 .. n : s[i] = delivered[i]
    BY <2>1, <2>2, SubSeqProperties
  <2>4. t \in Seq(Packets) /\ Len(t) = n /\ \A i \in 1 .. n : t[i] = sent[i]
    BY <2>1, <2>2, SubSeqProperties
  <2>5. s = t
    <3> HIDE DEF s, t, n
    <3>1. \A i \in 1 .. Len(s) : s[i] = t[i]
      BY <2>1, <2>3, <2>4 DEF n
    <3> QED BY <2>3, <2>4, <3>1, SeqEqual
  <2> QED BY <2>1, <2>5 DEF DeliveredAsSent, IsPrefix
<1> QED BY <1>1, TransportInductive, PTL

\* The transport implements the queue of whole packets that the layers above rely on: a
\* packet enters it when its writer gets the mutex, and leaves it in onPayload.
THEOREM TransportIsFifo ==
    ASSUME WholeLengths
    PROVE  TransportSpec => ImplementsFifo
<1> DEFINE queue == SubSeq(sent, Len(delivered) + 1, Len(sent))
<1>1. TransportInit => Fifo!FifoInit
  <2> SUFFICES ASSUME TransportInit PROVE Fifo!FifoInit
    OBVIOUS
  <2>1. sent = <<>> /\ delivered = <<>> /\ broken = FALSE
    BY DEF TransportInit
  <2>2. queue = <<>>
    BY <2>1
  <2> QED BY <2>1, <2>2 DEF Fifo!FifoInit
<1>2. TransportInv /\ [TransportNext]_transportVars => [Fifo!FifoNext]_Fifo!fifoVars
  <2> SUFFICES ASSUME TransportInv, [TransportNext]_transportVars
               PROVE  Fifo!FifoNext \/ UNCHANGED Fifo!fifoVars
    OBVIOUS
  <2>0. /\ sent \in Seq(Packets) /\ delivered \in Seq(Packets)
        /\ Len(sent) \in Nat /\ Len(delivered) \in Nat /\ Len(delivered) \in 0 .. Len(sent)
    BY LenProperties DEF TransportInv, Deliveries
  <2>1. ASSUME NEW w \in Writers, NEW packet \in Packets, StartWrite(w, packet)
        PROVE  Fifo!FifoNext
    <3>1. sent' = Append(sent, packet) /\ delivered' = delivered /\ broken' = broken
      BY <2>1 DEF StartWrite
    <3>2. queue' = Append(queue, packet)
      BY <2>0, <3>1, QueueGrows
    <3>3. Fifo!Send(packet)
      BY <3>1, <3>2 DEF Fifo!Send
    <3> QED BY <3>3 DEF Fifo!FifoNext
  <2>2. ASSUME onPayload
        PROVE  Fifo!FifoNext
    <3>1. Len(delivered) < Len(sent) /\ Current \in Packets /\ delivered' = Append(delivered, Current)
      BY <2>2, PayloadIsCurrent
    <3>2. sent' = sent /\ broken' = broken
      BY <2>2 DEF onPayload
    <3>3. Len(delivered') = Len(delivered) + 1
      BY <2>0, <3>1, AppendProperties
    <3>4. /\ queue # <<>> /\ Head(queue) = Current
          /\ SubSeq(sent, (Len(delivered) + 1) + 1, Len(sent)) = Tail(queue)
      BY <2>0, <3>1, QueueShrinks DEF Current
    <3>5. queue' = Tail(queue)
      BY <3>2, <3>3, <3>4
    <3>6. Fifo!Deliver
      BY <3>1, <3>2, <3>4, <3>5 DEF Fifo!Deliver
    <3> QED BY <3>6 DEF Fifo!FifoNext
  <2>3. ASSUME ConnectionBreaks
        PROVE  Fifo!FifoNext
    <3>1. broken' = TRUE /\ sent' = sent /\ delivered' = delivered
      BY <2>3 DEF ConnectionBreaks
    <3>2. Fifo!Break
      BY <3>1 DEF Fifo!Break
    <3> QED BY <3>2 DEF Fifo!FifoNext
  <2>4. ASSUME \/ ContinueWrite \/ FailWrite \/ Fetch \/ onHeader \/ onAdditionalLength
               \/ onReadError \/ UNCHANGED transportVars
        PROVE  UNCHANGED Fifo!fifoVars
    <3>1. sent' = sent /\ delivered' = delivered /\ broken' = broken
      BY <2>4 DEF ContinueWrite, FailWrite, Fetch, onHeader, onAdditionalLength, onReadError,
                  transportVars
    <3> QED BY <3>1 DEF Fifo!fifoVars
  <2> QED BY <2>1, <2>2, <2>3, <2>4 DEF TransportNext
<1> QED BY <1>1, <1>2, TransportInductive, PTL DEF TransportSpec, ImplementsFifo, Fifo!FifoSpec
=============================================================================
