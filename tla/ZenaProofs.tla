----------------------------- MODULE ZenaProofs ----------------------------
(***************************************************************************)
(* zena: what it writes is what was on the air, for any number of channels *)
(* and packets and for any faults.  CaptureInv says where the transfers    *)
(* still to come continue what the program holds in its buffer and has     *)
(* written last.                                                           *)
(***************************************************************************)
EXTENDS Zena, SequenceTheorems, TLAPS

Transfer == [id : Nat, part : 1..3, of : 1..3, ch : Nat, marked : BOOLEAN]
Record == [parts : Seq(Transfer), len : Nat, tag : Nat, mark : {"on", "over", "none"}]
TypeInv ==
    /\ option \in [format : {"pcap", "usbhex"}, scan : BOOLEAN, drop : BOOLEAN]
    /\ pc \in {"setup", "tune", "flush", "loop", "get", "more", "ended"}
    /\ channel \in Nat /\ tuned \in Nat /\ packets \in Nat
    /\ buf \in Seq(Transfer) /\ queue \in Seq(Transfer) /\ air \in Seq(Transfer)
    /\ want \in 0..3 /\ packet_len_plus_2 \in Nat /\ mark \in {"on", "over", "none"}
    /\ out \in Seq(Record) /\ Len(out) <= 2

\* For a queue q, the transfers a on the air and n packets sent: what comes
\* after a transfer, what comes right before the air, and before the queue.
Follows(t, u) == IF t.part < t.of THEN u = [t EXCEPT !.part = t.part + 1]
                 ELSE u.id = t.id + 1 /\ u.part = 1
BeforeAir(t, a, n) == IF a = <<>> THEN t.part = t.of /\ t.id = n ELSE Follows(t, a[1])
Before(t, q, a, n) == IF q = <<>> THEN BeforeAir(t, a, n) ELSE Follows(t, q[1])

\* On the air is the rest of the last packet, in the queue what came before.
InARow(q, a, n) ==
    /\ \A k \in 1..Len(a) : a[k] = [a[1] EXCEPT !.part = a[1].part + k - 1]
    /\ a # <<>> => a[1].id = n /\ a[1].part + Len(a) = a[1].of + 1
    /\ \A k \in 1..Len(q) - 1 : Follows(q[k], q[k + 1])
    /\ q # <<>> => BeforeAir(q[Len(q)], a, n)

OnChannel(q, c) == \A k \in 1..Len(q) : q[k].ch = c
Beginning(q, a) == IF q = <<>> THEN a # <<>> => a[1].part = 1 ELSE q[1].part = 1

\* The first parts of a packet of n transfers.
Begun(parts, n) ==
    /\ parts # <<>>
    /\ \A k \in 1..Len(parts) :
         parts[k].id = parts[1].id /\ parts[k].part = k /\ parts[k].of = n

CaptureInv ==
    /\ present => InARow(queue, air, packets)
    /\ IF pc = "more" THEN option.format = "pcap" /\ buf # <<>> /\ Len(buf) < want ELSE buf = <<>>
    /\ pc \in {"flush", "loop", "get", "more"} => tuned = channel
    /\ pc \in {"setup", "tune", "flush"} /\ ~option.scan => mark # "none"
    /\ present /\ mark # "on" /\ pc \in {"loop", "get", "more"} =>
        /\ OnChannel(air, channel) /\ OnChannel(queue, channel) /\ OnChannel(buf, channel)
        /\ option.format = "pcap" /\ pc # "more" => Beginning(queue, air)
        /\ pc = "more" => Begun(buf, want) /\ Before(Last(buf), queue, air, packets)
        /\ mark = "none" /\ ~option.scan /\ ~option.drop =>
             /\ out # <<>> /\ out[Len(out)].parts # <<>>
             /\ IF pc = "more" THEN Follows(Last(out[Len(out)].parts), buf[1])
                ELSE Before(Last(out[Len(out)].parts), queue, air, packets)

-----------------------------------------------------------------------------
(***************************************************************************)
(* Sequences of transfers.                                                 *)
(***************************************************************************)
LEMMA Lengths ==
    ASSUME NEW S, NEW q \in Seq(S)
    PROVE  Len(q) \in Nat /\ DOMAIN q = 1..Len(q) /\ (q = <<>> <=> Len(q) = 0)
  BY LenProperties, EmptySeq

LEMMA Tails ==
    ASSUME NEW S, NEW q \in Seq(S), q # <<>>
    PROVE  /\ Len(q) \in Nat \ {0} /\ Head(q) = q[1] /\ Head(q) \in S
           /\ Tail(q) \in Seq(S) /\ Len(Tail(q)) = Len(q) - 1
           /\ DOMAIN Tail(q) = 1..Len(q) - 1
           /\ \A i \in 1..Len(q) - 1 : Tail(q)[i] = q[i + 1]
           /\ Tail(q) = <<>> <=> Len(q) = 1
  <1>1. Len(q) \in Nat \ {0}
    BY Lengths
  <1>2. /\ Head(q) = q[1] /\ Head(q) \in S /\ Tail(q) \in Seq(S) /\ Len(Tail(q)) = Len(q) - 1
        /\ \A i \in 1..Len(Tail(q)) : Tail(q)[i] = q[i + 1]
    BY HeadTailProperties
  <1>3. DOMAIN Tail(q) = 1..Len(q) - 1 /\ (Tail(q) = <<>> <=> Len(q) - 1 = 0)
    BY <1>2, Lengths
  <1> QED
    BY <1>1, <1>2, <1>3

LEMMA Appends ==
    ASSUME NEW S, NEW q \in Seq(S), NEW e \in S
    PROVE  /\ Append(q, e) \in Seq(S) /\ Append(q, e) # <<>>
           /\ Len(q) \in Nat /\ DOMAIN q = 1..Len(q) /\ (q = <<>> <=> Len(q) = 0)
           /\ Len(Append(q, e)) = Len(q) + 1 /\ DOMAIN Append(q, e) = 1..Len(q) + 1
           /\ \A i \in 1..Len(q) : Append(q, e)[i] = q[i]
           /\ Append(q, e)[Len(q) + 1] = e
  <1>1. Len(q) \in Nat /\ DOMAIN q = 1..Len(q) /\ (q = <<>> <=> Len(q) = 0)
    BY Lengths
  <1>2. /\ Append(q, e) \in Seq(S) /\ Len(Append(q, e)) = Len(q) + 1
        /\ \A i \in 1..Len(q) : Append(q, e)[i] = q[i]
        /\ Append(q, e)[Len(q) + 1] = e
    BY AppendProperties
  <1>3. DOMAIN Append(q, e) = 1..Len(q) + 1 /\ Append(q, e) # <<>>
    BY <1>1, <1>2, Lengths
  <1> QED
    BY <1>1, <1>2, <1>3

LEMMA LastElement ==
    ASSUME NEW S, NEW q \in Seq(S), q # <<>>
    PROVE  q[Len(q)] \in S /\ Last(q) = q[Len(q)] /\ q[1] \in S
  <1>1. Len(q) \in 1..Len(q) /\ 1 \in 1..Len(q)
    BY Lengths
  <1> QED
    BY <1>1, ElementOfSeq DEF Last

-----------------------------------------------------------------------------
(***************************************************************************)
(* The air and the queue.                                                  *)
(***************************************************************************)
\* The program takes a transfer from the queue.
LEMMA TakeNext ==
    ASSUME NEW q \in Seq(Transfer), q # <<>>, NEW a \in Seq(Transfer), NEW n \in Nat, InARow(q, a, n)
    PROVE  /\ InARow(Tail(q), a, n) /\ Before(Head(q), Tail(q), a, n)
           /\ \A t : Before(t, q, a, n) => Follows(t, Head(q))
           /\ \A c : OnChannel(q, c) => Head(q).ch = c /\ OnChannel(Tail(q), c)
           /\ Beginning(q, a) => Head(q).part = 1
  <1> DEFINE m == Len(q)
             r == Tail(q)
             h == Head(q)
  <1>1. /\ m \in Nat \ {0} /\ h = q[1] /\ r \in Seq(Transfer) /\ Len(r) = m - 1
        /\ \A i \in 1..m - 1 : r[i] = q[i + 1]
        /\ r = <<>> <=> m = 1
    BY Tails
  <1>2. \A k \in 1..m - 1 : Follows(q[k], q[k + 1])
    BY DEF InARow
  <1>3. BeforeAir(q[m], a, n)
    BY DEF InARow
  <1>4. /\ \A k \in 1..Len(a) : a[k] = [a[1] EXCEPT !.part = a[1].part + k - 1]
        /\ a # <<>> => a[1].id = n /\ a[1].part + Len(a) = a[1].of + 1
    BY DEF InARow
  <1> HIDE DEF m, r, h
  <1>5. ASSUME NEW k \in 1..Len(r) - 1 PROVE Follows(r[k], r[k + 1])
    <2>1. k \in 1..m - 1 /\ k + 1 \in 1..m - 1
      BY <1>1, <1>5
    <2>2. r[k] = q[k + 1] /\ r[k + 1] = q[(k + 1) + 1]
      BY <1>1, <2>1
    <2> QED
      BY <1>2, <2>1, <2>2
  <1>6. r # <<>> => BeforeAir(r[Len(r)], a, n)
    <2> SUFFICES ASSUME r # <<>> PROVE BeforeAir(r[Len(r)], a, n)
      OBVIOUS
    <2>1. m - 1 \in 1..m - 1 /\ (m - 1) + 1 = m
      BY <1>1
    <2>2. r[m - 1] = q[m]
      BY <1>1, <2>1
    <2> QED
      BY <1>1, <1>3, <2>2
  <1>7. InARow(r, a, n)
    BY <1>4, <1>5, <1>6 DEF InARow
  <1>8. Before(h, r, a, n)
    <2>1. CASE m = 1
      BY <1>1, <1>3, <2>1 DEF Before
    <2>2. CASE m # 1
      <3>1. 1 \in 1..m - 1 /\ r # <<>>
        BY <1>1, <2>2
      <3>2. r[1] = q[1 + 1] /\ Follows(q[1], q[1 + 1])
        BY <1>1, <1>2, <3>1
      <3> QED
        BY <1>1, <3>1, <3>2 DEF Before
    <2> QED
      BY <2>1, <2>2
  <1>9. ASSUME NEW t, Before(t, q, a, n) PROVE Follows(t, h)
    BY <1>1, <1>9 DEF Before
  <1>10. ASSUME NEW c, OnChannel(q, c) PROVE h.ch = c /\ OnChannel(r, c)
    <2>1. \A k \in 1..m : q[k].ch = c
      BY <1>10 DEF OnChannel, m
    <2>2. 1 \in 1..m /\ \A i \in 1..m - 1 : i + 1 \in 1..m
      BY <1>1
    <2>3. \A i \in 1..m - 1 : r[i].ch = c
      BY <1>1, <2>1, <2>2
    <2> QED
      BY <1>1, <2>1, <2>2, <2>3 DEF OnChannel
  <1>11. Beginning(q, a) => h.part = 1
    BY <1>1 DEF Beginning
  <1> QED
    BY <1>7, <1>8, <1>9, <1>10, <1>11 DEF h, r

\* A packet of m transfers comes in.
NewAir(n, m, c, marked) ==
    [k \in 1..m |-> [id |-> n, part |-> k, of |-> m, ch |-> c, marked |-> marked]]

LEMMA NewAirType ==
    ASSUME NEW n \in Nat, NEW m \in 1..3, NEW c \in Nat, NEW marked \in BOOLEAN
    PROVE  NewAir(n + 1, m, c, marked) \in Seq(Transfer)
  <1>1. \A k \in 1..m : [id |-> n + 1, part |-> k, of |-> m, ch |-> c, marked |-> marked] \in Transfer
    BY DEF Transfer
  <1>2. m \in Nat /\ NewAir(n + 1, m, c, marked) \in [1..m -> Transfer]
    BY <1>1 DEF NewAir
  <1> QED
    BY <1>2, SeqDef

LEMMA NewPacket ==
    ASSUME NEW q \in Seq(Transfer), NEW n \in Nat, InARow(q, <<>>, n),
           NEW m \in 1..3, NEW c \in Nat, NEW marked \in BOOLEAN
    PROVE  LET a == NewAir(n + 1, m, c, marked)
           IN  /\ a \in Seq(Transfer) /\ InARow(q, a, n + 1) /\ OnChannel(a, c)
               /\ \A t \in Transfer : Before(t, q, <<>>, n) => Before(t, q, a, n + 1)
               /\ Beginning(q, <<>>) => Beginning(q, a)
  <1> DEFINE a == NewAir(n + 1, m, c, marked)
  <1>1. /\ \A k \in 1..m : a[k] = [id |-> n + 1, part |-> k, of |-> m, ch |-> c, marked |-> marked]
        /\ DOMAIN a = 1..m
    BY DEF NewAir
  <1>2. a \in Seq(Transfer)
    BY NewAirType
  <1>3. Len(a) = m /\ a # <<>> /\ 1 \in 1..m
    <2>1. Len(a) \in Nat /\ DOMAIN a = 1..Len(a)
      BY <1>2, Lengths
    <2>2. m \in Nat /\ Len(a) = m
      BY <1>1, <2>1
    <2> QED
      BY <1>2, <2>2, Lengths
  <1> HIDE DEF a
  <1>4. \A k \in 1..Len(a) : a[k] = [a[1] EXCEPT !.part = a[1].part + k - 1]
    BY <1>1, <1>3
  <1>5. a[1].id = n + 1 /\ a[1].part = 1 /\ a[1].of = m
    BY <1>1, <1>3
  <1>6. ASSUME NEW t \in Transfer, BeforeAir(t, <<>>, n) PROVE BeforeAir(t, a, n + 1)
    <2>1. t.part = t.of /\ t.id = n /\ t.of \in 1..3
      BY <1>6 DEF BeforeAir, Transfer
    <2>2. Follows(t, a[1])
      BY <1>5, <2>1 DEF Follows
    <2> QED
      BY <1>3, <2>2 DEF BeforeAir
  <1>7. InARow(q, a, n + 1)
    <2>1. \A k \in 1..Len(q) - 1 : Follows(q[k], q[k + 1])
      BY DEF InARow
    <2>2. q # <<>> => BeforeAir(q[Len(q)], a, n + 1)
      <3>1. q # <<>> => q[Len(q)] \in Transfer
        BY LastElement
      <3> QED
        BY <1>6, <3>1 DEF InARow
    <2> QED
      BY <1>3, <1>4, <1>5, <2>1, <2>2 DEF InARow
  <1>8. OnChannel(a, c)
    BY <1>1, <1>3 DEF OnChannel
  <1>9. ASSUME NEW t \in Transfer, Before(t, q, <<>>, n) PROVE Before(t, q, a, n + 1)
    BY <1>6, <1>9 DEF Before
  <1>10. Beginning(q, <<>>) => Beginning(q, a)
    BY <1>5 DEF Beginning
  <1> QED
    BY <1>2, <1>7, <1>8, <1>9, <1>10 DEF a

\* The sniffer sends a transfer.
LEMMA SendNext ==
    ASSUME NEW q \in Seq(Transfer), NEW a \in Seq(Transfer), a # <<>>, NEW n \in Nat, InARow(q, a, n)
    PROVE  LET p == Append(q, Head(a))
               b == Tail(a)
           IN  /\ p \in Seq(Transfer) /\ b \in Seq(Transfer) /\ InARow(p, b, n)
               /\ \A t : Before(t, q, a, n) => Before(t, p, b, n)
               /\ \A c : OnChannel(q, c) /\ OnChannel(a, c) => OnChannel(p, c) /\ OnChannel(b, c)
               /\ Beginning(q, a) => Beginning(p, b)
  <1> DEFINE p == Append(q, Head(a))
             b == Tail(a)
             h == Head(a)
             l == Len(q)
             m == Len(a)
  <1>1. /\ m \in Nat \ {0} /\ h = a[1] /\ h \in Transfer /\ b \in Seq(Transfer) /\ Len(b) = m - 1
        /\ \A i \in 1..m - 1 : b[i] = a[i + 1]
        /\ b = <<>> <=> m = 1
    BY Tails
  <1>2. /\ p \in Seq(Transfer) /\ p # <<>> /\ l \in Nat /\ (q = <<>> <=> l = 0)
        /\ Len(p) = l + 1 /\ \A i \in 1..l : p[i] = q[i]
        /\ p[l + 1] = h
    BY <1>1, Appends
  <1>3. /\ \A k \in 1..m : a[k] = [a[1] EXCEPT !.part = a[1].part + k - 1]
        /\ a[1].id = n /\ a[1].part + m = a[1].of + 1
        /\ \A k \in 1..l - 1 : Follows(q[k], q[k + 1])
        /\ q # <<>> => BeforeAir(q[l], a, n)
    BY DEF InARow
  <1> HIDE DEF p, b, h, l, m
  <1>4. h.part \in 1..3 /\ h.of \in 1..3 /\ a[1] \in Transfer
    BY <1>1 DEF Transfer
  <1>5. \A k \in 1..m - 1 : b[k] = [h EXCEPT !.part = h.part + k]
    <2> TAKE k \in 1..m - 1
    <2>1. k + 1 \in 1..m /\ h.part + (k + 1) - 1 = h.part + k
      BY <1>1, <1>4
    <2>2. a[k + 1] = [a[1] EXCEPT !.part = a[1].part + (k + 1) - 1]
      BY <1>3, <2>1
    <2> QED
      BY <1>1, <2>1, <2>2
  <1>6. \A k \in 1..Len(b) : b[k] = [b[1] EXCEPT !.part = b[1].part + k - 1]
    <2> SUFFICES ASSUME NEW k \in 1..m - 1 PROVE b[k] = [b[1] EXCEPT !.part = b[1].part + k - 1]
      BY <1>1
    <2>1. 1 \in 1..m - 1
      BY <1>1
    <2>2. b[1] = [h EXCEPT !.part = h.part + 1] /\ b[k] = [h EXCEPT !.part = h.part + k]
      BY <1>5, <2>1
    <2>3. b[1].part = h.part + 1
      BY <1>1, <2>2 DEF Transfer
    <2>4. b[1].part + k - 1 = h.part + k
      <3>1. k \in Nat /\ h.part \in Nat
        BY <1>1, <1>4
      <3> QED
        BY <2>3, <3>1
    <2>5. [b[1] EXCEPT !.part = h.part + k] = [h EXCEPT !.part = h.part + k]
      BY <1>1, <2>2 DEF Transfer
    <2> QED
      BY <2>2, <2>4, <2>5
  <1>7. b # <<>> => b[1].id = n /\ b[1].part + Len(b) = b[1].of + 1
    <2> SUFFICES ASSUME b # <<>> PROVE b[1].id = n /\ b[1].part + Len(b) = b[1].of + 1
      OBVIOUS
    <2>1. 1 \in 1..m - 1
      BY <1>1
    <2>2. b[1] = [h EXCEPT !.part = h.part + 1]
      BY <1>5, <2>1
    <2>3. b[1].id = h.id /\ b[1].of = h.of /\ b[1].part = h.part + 1
      BY <1>1, <2>2 DEF Transfer
    <2> QED
      BY <1>1, <1>3, <1>4, <2>3
  <1>8. BeforeAir(h, b, n)
    <2>1. CASE b = <<>>
      <3>1. h.id = n /\ h.part + 1 = h.of + 1
        BY <1>1, <1>3, <2>1
      <3>2. h.part \in Nat /\ h.of \in Nat
        BY <1>4
      <3>3. h.part = h.of
        BY <3>1, <3>2
      <3> QED
        BY <2>1, <3>1, <3>3 DEF BeforeAir
    <2>2. CASE b # <<>>
      <3>1. 1 \in 1..m - 1 /\ h.part < h.of
        <4>1. m \in Nat \ {0} /\ m # 1 /\ h.part + m = h.of + 1
          BY <1>1, <1>3, <2>2
        <4>2. h.part \in Nat /\ h.of \in Nat
          BY <1>4
        <4> QED
          BY <4>1, <4>2
      <3>2. b[1] = [h EXCEPT !.part = h.part + 1]
        BY <1>5, <3>1
      <3> QED
        BY <2>2, <3>1, <3>2 DEF BeforeAir, Follows
    <2> QED
      BY <2>1, <2>2
  <1>9. \A k \in 1..Len(p) - 1 : Follows(p[k], p[k + 1])
    <2> SUFFICES ASSUME NEW k \in 1..l PROVE Follows(p[k], p[k + 1])
      BY <1>2
    <2>1. CASE k = l
      <3>1. q # <<>> /\ p[k] = q[l] /\ p[k + 1] = h
        BY <1>2, <2>1
      <3> QED
        BY <1>1, <1>3, <3>1 DEF BeforeAir
    <2>2. CASE k # l
      <3>1. k \in 1..l - 1 /\ k + 1 \in 1..l
        BY <1>2, <2>2
      <3> QED
        BY <1>2, <1>3, <3>1
    <2> QED
      BY <2>1, <2>2
  <1>10. p[Len(p)] = h
    BY <1>2
  <1>11. InARow(p, b, n)
    BY <1>6, <1>7, <1>8, <1>9, <1>10 DEF InARow
  <1>12. p[1] = IF q = <<>> THEN a[1] ELSE q[1]
    <2>1. q # <<>> => 1 \in 1..l
      BY <1>2
    <2>2. q = <<>> => l + 1 = 1
      BY <1>2
    <2> QED
      BY <1>1, <1>2, <2>1, <2>2
  <1>13. ASSUME NEW t, Before(t, q, a, n) PROVE Before(t, p, b, n)
    BY <1>2, <1>12, <1>13 DEF Before, BeforeAir
  <1>14. ASSUME NEW c, OnChannel(q, c), OnChannel(a, c) PROVE OnChannel(p, c) /\ OnChannel(b, c)
    <2>1. /\ \A k \in 1..l : q[k].ch = c
          /\ \A k \in 1..m : a[k].ch = c
      BY <1>14 DEF OnChannel, l, m
    <2>2. 1 \in 1..m /\ \A i \in 1..m - 1 : i + 1 \in 1..m
      BY <1>1
    <2>3. \A k \in 1..l + 1 : p[k].ch = c
      <3> TAKE k \in 1..l + 1
      <3>1. k \in 1..l \/ k = l + 1
        BY <1>2
      <3> QED
        BY <1>1, <1>2, <2>1, <2>2, <3>1
    <2>4. \A k \in 1..m - 1 : b[k].ch = c
      BY <1>1, <2>1, <2>2
    <2> QED
      BY <1>1, <1>2, <2>3, <2>4 DEF OnChannel
  <1>15. Beginning(q, a) => Beginning(p, b)
    BY <1>2, <1>12 DEF Beginning
  <1> QED
    BY <1>1, <1>2, <1>11, <1>13, <1>14, <1>15 DEF p, b, h

\* The air is silent, or at the beginning of a packet of this channel.
LEMMA Silence ==
    ASSUME NEW a \in Seq(Transfer), NEW n \in Nat, InARow(<<>>, a, n), NEW c,
           a # <<>> => a[1].part = 1 /\ a[1].ch = c
    PROVE  OnChannel(a, c) /\ OnChannel(<<>>, c) /\ Beginning(<<>>, a)
  <1>1. \A k \in 1..Len(a) : a[k] = [a[1] EXCEPT !.part = a[1].part + k - 1]
    BY DEF InARow
  <1>2. OnChannel(a, c)
    <2> SUFFICES ASSUME NEW k \in 1..Len(a) PROVE a[k].ch = c
      BY DEF OnChannel
    <2>1. a # <<>>
      BY Lengths
    <2>2. a[1] \in Transfer
      BY <2>1, Tails
    <2>3. a[k].ch = a[1].ch
      BY <1>1, <2>2 DEF Transfer
    <2> QED
      BY <2>1, <2>3
  <1>3. OnChannel(<<>>, c)
    BY DEF OnChannel
  <1> QED
    BY <1>2, <1>3 DEF Beginning

-----------------------------------------------------------------------------
(***************************************************************************)
(* The types.                                                              *)
(***************************************************************************)
\* What a read does to the sniffer.
LEMMA ReadType ==
    ASSUME TypeInv, Taken \/ Timeout \/ Error
    PROVE  /\ tuned' = tuned /\ packets' = packets /\ air' = air /\ present' = present
           /\ queue' \in Seq(Transfer)
           /\ Taken => queue # <<>> /\ queue' = Tail(queue) /\ Head(queue) \in Transfer
           /\ Timeout => queue = <<>> /\ queue' = <<>>
           /\ Error /\ ~Timeout => queue' = queue
  <1>1. queue \in Seq(Transfer)
    BY DEF TypeInv
  <1>2. CASE Taken
    <2>1. /\ present /\ queue # <<>> /\ queue' = Tail(queue)
          /\ UNCHANGED <<present, tuned, air, packets, faults>>
      BY <1>2 DEF Taken
    <2>2. Head(queue) \in Transfer /\ Tail(queue) \in Seq(Transfer)
      BY <1>1, <2>1, Tails
    <2>3. ~Timeout
      BY <2>1 DEF Timeout
    <2>4. Error => queue' = queue
      BY DEF Error, sniffer
    <2> QED
      BY <2>1, <2>2, <2>3, <2>4
  <1>3. CASE Timeout \/ Error
    BY <1>1, <1>3 DEF Timeout, Error, sniffer, Taken
  <1> QED
    BY <1>2, <1>3

NewRecord(parts, len) == [parts |-> parts, len |-> len, tag |-> channel, mark |-> mark]

LEMMA WrittenOut ==
    ASSUME TypeInv, NEW parts \in Seq(Transfer), NEW len \in Nat, Written(parts, len)
    PROVE  /\ \/ out = <<>> /\ out' = <<NewRecord(parts, len)>>
              \/ out # <<>> /\ out[Len(out)] \in Record
                 /\ out' = <<out[Len(out)], NewRecord(parts, len)>>
           /\ NewRecord(parts, len) \in Record
           /\ mark' \in {"on", "over", "none"} /\ (mark' = "on" <=> mark = "on")
           /\ mark' # "over"
           /\ out' \in Seq(Record) /\ Len(out') <= 2
  <1> DEFINE r == NewRecord(parts, len)
  <1>1. r \in Record
    BY DEF NewRecord, Record, TypeInv
  <1>2. mark' = (IF mark = "over" THEN "none" ELSE mark) /\ mark \in {"on", "over", "none"}
    BY DEF Written, TypeInv
  <1>3. out' = IF out = <<>> THEN <<r>> ELSE <<Last(out), r>>
    BY DEF Written, NewRecord
  <1>4. out \in Seq(Record)
    BY DEF TypeInv
  <1> HIDE DEF r
  <1>5. CASE out = <<>>
    <2>1. <<r>> \in Seq(Record) /\ Len(<<r>>) <= 2
      BY <1>1
    <2> QED
      BY <1>1, <1>2, <1>3, <1>5, <2>1 DEF r
  <1>6. CASE out # <<>>
    <2>1. out[Len(out)] \in Record /\ Last(out) = out[Len(out)]
      BY <1>4, <1>6, LastElement
    <2> DEFINE l == out[Len(out)]
    <2>2. l \in Record /\ out' = <<l, r>>
      BY <1>3, <1>6, <2>1
    <2> HIDE DEF l
    <2>3. <<l, r>> \in Seq(Record) /\ Len(<<l, r>>) <= 2
      BY <1>1, <2>2
    <2> QED
      BY <1>1, <1>2, <1>6, <2>2, <2>3 DEF r, l
  <1> QED
    BY <1>5, <1>6

LEMMA CollectedType ==
    ASSUME TypeInv, NEW parts \in Seq(Transfer), NEW n \in 0..3, Collected(parts, n)
    PROVE  /\ pc' \in {"loop", "more"} /\ buf' \in Seq(Transfer) /\ want' \in 0..3
           /\ packet_len_plus_2' \in Nat /\ mark' \in {"on", "over", "none"}
           /\ out' \in Seq(Record) /\ Len(out') <= 2
  <1>1. Len(parts) \in Nat /\ packet_len_plus_2 \in Nat
    BY Lengths DEF TypeInv
  <1>2. CASE Len(parts) = n
    <2>1. /\ pc' = "loop" /\ buf' = <<>> /\ want' = 0 /\ WritePacket(parts)
      BY <1>2 DEF Collected
    <2>2. CASE UNCHANGED <<output, mark>>
      BY <2>1, <2>2 DEF output, TypeInv
    <2>3. CASE packet_len_plus_2' \in Nat /\ Written(parts, packet_len_plus_2')
      BY <2>1, <2>3, WrittenOut
    <2> QED
      BY <1>1, <2>1, <2>2, <2>3 DEF WritePacket
  <1>3. CASE Len(parts) # n
    BY <1>3 DEF Collected, output, TypeInv
  <1> QED
    BY <1>2, <1>3

LEMMA InitType == Init => TypeInv
  BY ZenaAssumption, EmptySeq DEF Init, TypeInv

LEMMA TypeStep ==
    ASSUME TypeInv, [Next]_vars
    PROVE  TypeInv'
  <1> USE DEF TypeInv
  <1>1. CASE setup_libusb_access \/ signal_handler \/ UNCHANGED vars
    BY <1>1 DEF setup_libusb_access, signal_handler, vars, sniffer, output
  <1>2. CASE SendChannel
    BY <1>2 DEF SendChannel, output
  <1>3. CASE Flush
    <2>1. /\ tuned' = tuned /\ packets' = packets /\ air' = air
          /\ queue' \in Seq(Transfer)
      BY <1>3, ReadType DEF Flush
    <2>2. mark' \in {"on", "over", "none"}
      BY <1>3 DEF Flush, Timeout, Error
    <2> QED
      BY <1>3, <2>1, <2>2 DEF Flush, Flushed, Undefined, output
  <1>4. CASE Loop
    BY <1>4, ZenaAssumption DEF Loop, sniffer, output
  <1>5. CASE UsbHex
    <2>1. /\ tuned' = tuned /\ packets' = packets /\ air' = air
          /\ queue' \in Seq(Transfer) /\ (Taken => Head(queue) \in Transfer)
      BY <1>5, ReadType DEF UsbHex
    <2>2. /\ out' \in Seq(Record) /\ Len(out') <= 2 /\ mark' \in {"on", "over", "none"}
          /\ packet_len_plus_2' \in Nat
      <3>1. CASE Taken /\ Written(<<Head(queue)>>, 1) /\ UNCHANGED packet_len_plus_2
        <4>1. <<Head(queue)>> \in Seq(Transfer) /\ 1 \in Nat
          BY <2>1, <3>1
        <4> QED
          BY <3>1, <4>1, WrittenOut
      <3>2. CASE UNCHANGED output /\ (UNCHANGED mark \/ Timeout \/ Error)
        BY <3>2 DEF output, Timeout, Error
      <3> QED
        BY <1>5, <3>1, <3>2 DEF UsbHex
    <2> QED
      BY <1>5, <2>1, <2>2 DEF UsbHex
  <1>6. CASE Header \/ More
    <2>1. /\ tuned' = tuned /\ packets' = packets /\ air' = air
          /\ queue' \in Seq(Transfer) /\ (Taken => Head(queue) \in Transfer)
      BY <1>6, ReadType DEF Header, More
    <2>2. UNCHANGED <<option, channel>>
      BY <1>6 DEF Header, More
    <2>3. ASSUME NEW parts \in Seq(Transfer), NEW n \in 0..3, Collected(parts, n) PROVE TypeInv'
      BY <2>1, <2>2, <2>3, CollectedType
    <2>4. CASE GivenUp /\ (UNCHANGED mark \/ Timeout \/ Error)
      <3>1. mark' \in {"on", "over", "none"}
        BY <2>4 DEF Timeout, Error
      <3> QED
        BY <2>1, <2>2, <2>4, <3>1, EmptySeq DEF GivenUp, output
    <2>5. CASE Header
      <3>1. Taken => <<Head(queue)>> \in Seq(Transfer)
        BY <2>1
      <3>2. \/ Taken /\ \E n \in 1..3 : Collected(<<Head(queue)>>, n)
            \/ GivenUp /\ (UNCHANGED mark \/ Timeout \/ Error)
        BY <2>5 DEF Header
      <3>3. ASSUME Taken, NEW n \in 1..3, Collected(<<Head(queue)>>, n) PROVE TypeInv'
        <4>1. n \in 0..3 /\ <<Head(queue)>> \in Seq(Transfer)
          BY <3>1, <3>3
        <4> QED
          BY <2>3, <3>3, <4>1
      <3> QED
        BY <2>4, <3>2, <3>3
    <2>6. CASE More /\ Taken /\ Collected(Append(buf, Head(queue)), want)
      <3>1. Append(buf, Head(queue)) \in Seq(Transfer)
        BY <2>1, <2>6, Appends
      <3> QED
        BY <2>3, <2>6, <3>1
    <2> QED
      BY <1>6, <2>4, <2>5, <2>6 DEF More
  <1>7. CASE Receive
    <2>1. PICK n \in Sizes, marked \in BOOLEAN :
            air' = NewAir(packets + 1, n, tuned, marked)
      BY <1>7 DEF Receive, NewAir
    <2>2. n \in 1..3 /\ packets' = packets + 1
      BY <1>7, <2>1, ZenaAssumption DEF Receive
    <2>3. air' \in Seq(Transfer)
      BY <2>1, <2>2, NewAirType
    <2> QED
      BY <1>7, <2>2, <2>3 DEF Receive, Program, output
  <1>8. CASE Deliver
    BY <1>8, Tails, Appends DEF Deliver, Program, output
  <1>9. CASE Unplug
    BY <1>9, EmptySeq DEF Unplug, Program, output
  <1> QED
    BY <1>1, <1>2, <1>3, <1>4, <1>5, <1>6, <1>7, <1>8, <1>9 DEF Next, main

-----------------------------------------------------------------------------
(***************************************************************************)
(* Writing.                                                                *)
(***************************************************************************)
Sound(r) ==
    r.mark # "on" =>
        /\ option.format = "pcap" => Whole(r.parts) /\ (r.parts[1].marked => r.len = Len(r.parts))
        /\ \A k \in DOMAIN r.parts : r.parts[k].ch = r.tag
Joins(q, r) ==
    r.mark = "none" /\ ~option.scan /\ ~option.drop => Next1(Last(q.parts), r.parts[1])

LEMMA CapturedAgain ==
    ASSUME Captured, UNCHANGED <<option, out>>
    PROVE  Captured'
  BY DEF Captured

LEMMA FollowsNext1 ==
    ASSUME NEW t \in Transfer, NEW u, Follows(t, u)
    PROVE  Next1(t, u)
  <1>1. t.part < t.of => u.id = t.id /\ u.part = t.part + 1
    BY DEF Follows, Transfer
  <1> QED
    BY <1>1 DEF Follows, Next1

LEMMA WrittenCaptured ==
    ASSUME TypeInv, Captured, option' = option, NEW parts \in Seq(Transfer), NEW len \in Nat,
           Written(parts, len), Sound(NewRecord(parts, len)),
           out # <<>> => Joins(out[Len(out)], NewRecord(parts, len))
    PROVE  Captured'
  <1> DEFINE new == NewRecord(parts, len)
             old == out[Len(out)]
  <1>1. Sound(new) /\ (out # <<>> => Joins(old, new))
    OBVIOUS
  <1>2. (out = <<>> /\ out' = <<new>>) \/ (out # <<>> /\ out' = <<old, new>>)
    BY WrittenOut
  <1>3. out # <<>> => Len(out) \in DOMAIN out
    BY Lengths DEF TypeInv
  <1>4. out # <<>> => Sound(old)
    BY <1>3 DEF Captured, Sound
  <1> HIDE DEF new, old
  <1> SUFFICES ASSUME NEW i \in DOMAIN out'
               PROVE  /\ Sound(out'[i])
                      /\ i > 1 => Joins(out'[i - 1], out'[i])
    BY DEF Captured, Sound, Joins
  <1>5. CASE out = <<>>
    <2>1. out' = << new >>
      BY <1>2, <1>5
    <2>2. i = 1
      BY <2>1
    <2> QED
      BY <1>1, <2>1, <2>2
  <1>6. CASE out # <<>>
    <2>1. out' = <<old, new>>
      BY <1>2, <1>6
    <2>2. i = 1 \/ i = 2
      BY <2>1
    <2>3. out'[1] = old /\ out'[2] = new
      BY <2>1
    <2>4. i = 2 => i - 1 = 1
      OBVIOUS
    <2> QED
      BY <1>1, <1>4, <1>6, <2>2, <2>3, <2>4
  <1> QED
    BY <1>5, <1>6

\* What must hold of the parts of a new record, and of what comes after it.
Fits(parts) ==
    mark # "on" =>
        /\ OnChannel(parts, channel)
        /\ mark = "none" /\ ~option.scan /\ ~option.drop /\ out # <<>> =>
             out[Len(out)].parts # <<>> /\ Follows(Last(out[Len(out)].parts), parts[1])

LEMMA WrittenSound ==
    ASSUME TypeInv, NEW parts \in Seq(Transfer), NEW len \in Nat, Fits(parts),
           mark # "on" /\ option.format = "pcap" =>
               Whole(parts) /\ (parts[1].marked => len = Len(parts))
    PROVE  /\ Sound(NewRecord(parts, len))
           /\ out # <<>> => Joins(out[Len(out)], NewRecord(parts, len))
  <1> DEFINE r == NewRecord(parts, len)
  <1>1. r.parts = parts /\ r.len = len /\ r.tag = channel /\ r.mark = mark
    BY DEF NewRecord
  <1> HIDE DEF r
  <1>2. DOMAIN parts = 1..Len(parts)
    BY Lengths
  <1>3. Sound(r)
    BY <1>1, <1>2 DEF Sound, Fits, OnChannel
  <1>4. out # <<>> => Joins(out[Len(out)], r)
    <2> SUFFICES ASSUME out # <<>>, mark = "none", ~option.scan, ~option.drop
                 PROVE  Next1(Last(out[Len(out)].parts), parts[1])
      BY <1>1 DEF Joins
    <2> DEFINE q == out[Len(out)].parts
    <2>1. q # <<>> /\ Follows(Last(q), parts[1])
      BY DEF Fits
    <2>2. out[Len(out)] \in Record
      BY LastElement DEF TypeInv
    <2>3. q \in Seq(Transfer)
      BY <2>2 DEF Record
    <2> HIDE DEF q
    <2>4. Last(q) \in Transfer
      BY <2>1, <2>3, LastElement
    <2>5. Next1(Last(q), parts[1])
      BY <2>1, <2>4, FollowsNext1
    <2> QED
      BY <2>5 DEF q
  <1> QED
    BY <1>3, <1>4 DEF r

\* The rest of the invariant after a record, or after what is dropped: the
\* queue is at the transfer after the last one of parts.
After(parts) ==
    present /\ mark # "on" =>
        /\ OnChannel(air, channel) /\ OnChannel(queue', channel)
        /\ Before(Last(parts), queue', air, packets)
        /\ option.format = "pcap" => Last(parts).part = Last(parts).of

Returned ==
    /\ UNCHANGED <<option, channel, tuned, present, air, packets>>
    /\ pc' = "loop" /\ buf' = <<>> /\ tuned = channel
    /\ queue' \in Seq(Transfer)
    /\ present => InARow(queue', air, packets)

LEMMA EndOfPacket ==
    ASSUME NEW t \in Transfer, NEW q, NEW a, NEW n, Before(t, q, a, n), t.part = t.of
    PROVE  Beginning(q, a)
  <1>1. ~(t.part < t.of)
    BY DEF Transfer
  <1> QED
    BY <1>1 DEF Before, BeforeAir, Follows, Beginning

LEMMA WrittenInv ==
    ASSUME TypeInv, CaptureInv, Captured, NEW parts \in Seq(Transfer), parts # <<>>, NEW len \in Nat,
           Written(parts, len), Returned, Fits(parts), After(parts),
           mark # "on" /\ option.format = "pcap" =>
               Whole(parts) /\ (parts[1].marked => len = Len(parts))
    PROVE  CaptureInv' /\ Captured'
  <1>1. Captured'
    BY WrittenCaptured, WrittenSound DEF Returned
  <1> DEFINE r == NewRecord(parts, len)
  <1>2. out' # <<>> /\ out'[Len(out')] = r /\ r.parts = parts /\ (mark' = "on" <=> mark = "on")
    <2>1. r.parts = parts
      BY DEF NewRecord
    <2>2. out' = << r >> \/ out' = <<out[Len(out)], r>>
      BY WrittenOut
    <2> HIDE DEF r
    <2>3. CASE out' = << r >>
      <3>1. Len(<< r >>) = 1 /\ << r >>[1] = r /\ << r >> # <<>>
        OBVIOUS
      <3> QED
        BY <2>1, <2>3, <3>1, WrittenOut
    <2>4. CASE out' = <<out[Len(out)], r>>
      <3> DEFINE old == out[Len(out)]
      <3> HIDE DEF old
      <3>1. Len(<<old, r>>) = 2 /\ <<old, r>>[2] = r /\ <<old, r>> # <<>>
        OBVIOUS
      <3> QED
        BY <2>1, <2>4, <3>1, WrittenOut DEF old
    <2> QED
      BY <2>2, <2>3, <2>4
  <1> HIDE DEF r
  <1>3. Last(parts) \in Transfer
    BY LastElement
  <1>4. ASSUME present', mark' # "on"
        PROVE  /\ OnChannel(air', channel') /\ OnChannel(queue', channel') /\ OnChannel(buf', channel')
               /\ option'.format = "pcap" => Beginning(queue', air')
               /\ out' # <<>> /\ out'[Len(out')].parts # <<>>
               /\ Before(Last(out'[Len(out')].parts), queue', air', packets')
    <2>1. present /\ mark # "on" /\ UNCHANGED <<option, channel, air, packets>> /\ buf' = <<>>
      BY <1>2, <1>4 DEF Returned
    <2>2. OnChannel(buf', channel')
      BY <2>1 DEF OnChannel
    <2>3. option.format = "pcap" => Beginning(queue', air)
      BY <1>3, <2>1, EndOfPacket DEF After
    <2> QED
      BY <1>2, <2>1, <2>2, <2>3 DEF After
  <1>5. present' => InARow(queue', air', packets')
    BY DEF Returned
  <1>6. pc' = "loop" /\ buf' = <<>> /\ tuned' = channel'
    BY DEF Returned
  <1> QED
    BY <1>1, <1>4, <1>5, <1>6 DEF CaptureInv

-----------------------------------------------------------------------------
(***************************************************************************)
(* The steps.                                                              *)
(***************************************************************************)
\* The last part of the last record, where there is one, is a transfer.
LEMMA LastPart ==
    ASSUME TypeInv, out # <<>>, out[Len(out)].parts # <<>>
    PROVE  Last(out[Len(out)].parts) \in Transfer
  <1> DEFINE q == out[Len(out)].parts
  <1>1. out[Len(out)] \in Record
    BY LastElement DEF TypeInv
  <1>2. q \in Seq(Transfer) /\ q # <<>>
    BY <1>1 DEF Record
  <1> HIDE DEF q
  <1>3. Last(q) \in Transfer
    BY <1>2, LastElement
  <1> QED
    BY <1>3 DEF q

\* Steps of the sniffer.
LEMMA SnifferInv ==
    ASSUME TypeInv, CaptureInv,
           UNCHANGED <<option, pc, channel, buf, want, out, mark, present, tuned>>,
           present => InARow(queue', air', packets'),
           \A t \in Transfer : Before(t, queue, air, packets) => Before(t, queue', air', packets'),
           Beginning(queue, air) => Beginning(queue', air'),
           OnChannel(queue, tuned) /\ OnChannel(air, tuned) =>
               OnChannel(queue', tuned) /\ OnChannel(air', tuned)
    PROVE  CaptureInv'
  <1>1. buf # <<>> => Last(buf) \in Transfer
    BY LastElement DEF TypeInv
  <1>2. /\ present' => InARow(queue', air', packets')
        /\ IF pc' = "more" THEN option'.format = "pcap" /\ buf' # <<>> /\ Len(buf') < want'
           ELSE buf' = <<>>
        /\ pc' \in {"flush", "loop", "get", "more"} => tuned' = channel'
        /\ pc' \in {"setup", "tune", "flush"} /\ ~option'.scan => mark' # "none"
    BY DEF CaptureInv
  <1>3. ASSUME present', mark' # "on", pc' \in {"loop", "get", "more"}
        PROVE  /\ OnChannel(air', channel') /\ OnChannel(queue', channel') /\ OnChannel(buf', channel')
               /\ option'.format = "pcap" /\ pc' # "more" => Beginning(queue', air')
               /\ pc' = "more" => Begun(buf', want') /\ Before(Last(buf'), queue', air', packets')
    <2>1. /\ tuned = channel
          /\ OnChannel(air, channel) /\ OnChannel(queue, channel) /\ OnChannel(buf, channel)
          /\ option.format = "pcap" /\ pc # "more" => Beginning(queue, air)
          /\ pc = "more" => Begun(buf, want) /\ Before(Last(buf), queue, air, packets)
      BY <1>3 DEF CaptureInv
    <2>2. pc = "more" => buf # <<>>
      BY DEF CaptureInv
    <2> QED
      BY <1>1, <2>1, <2>2
  <1>4. ASSUME present', mark' = "none", pc' \in {"loop", "get", "more"}, ~option'.scan, ~option'.drop
        PROVE  /\ out' # <<>> /\ out'[Len(out')].parts # <<>>
               /\ IF pc' = "more" THEN Follows(Last(out'[Len(out')].parts), buf'[1])
                  ELSE Before(Last(out'[Len(out')].parts), queue', air', packets')
    <2>1. /\ out # <<>> /\ out[Len(out)].parts # <<>>
          /\ IF pc = "more" THEN Follows(Last(out[Len(out)].parts), buf[1])
             ELSE Before(Last(out[Len(out)].parts), queue, air, packets)
      BY <1>4 DEF CaptureInv
    <2> QED
      BY <2>1, LastPart
  <1> QED
    BY <1>2, <1>3, <1>4 DEF CaptureInv

\* Where nothing is claimed, only the buffer and the channel matter.
LEMMA IdleInv ==
    ASSUME present' => InARow(queue', air', packets'), pc' # "more", buf' = <<>>,
           pc' \in {"flush", "loop", "get"} => tuned' = channel',
           pc' \in {"setup", "tune", "flush"} /\ ~option'.scan => mark' # "none",
           ~present' \/ mark' = "on" \/ pc' \in {"setup", "tune", "flush", "ended"}
    PROVE  CaptureInv'
  BY DEF CaptureInv

\* A silence: from here on the program is at the beginning of a packet.
LEMMA SilenceInv ==
    ASSUME TypeInv, CaptureInv, Timeout, pc \in {"flush", "get", "more"}, pc' \in {"loop", "get"},
           buf' = <<>>, UNCHANGED <<option, channel, out>>
    PROVE  CaptureInv'
  <1>1. present /\ queue = <<>> /\ UNCHANGED sniffer /\ tuned = channel
    BY DEF Timeout, CaptureInv
  <1>2. UNCHANGED <<present, tuned, air, queue, packets>> /\ InARow(<<>>, air, packets)
    BY <1>1 DEF sniffer, CaptureInv
  <1>3. CASE mark' = "on"
    BY <1>1, <1>2, <1>3, IdleInv
  <1>4. CASE mark' # "on"
    <2>1. ~Pending /\ (mark' = "none" => mark = "none")
      BY <1>4 DEF Timeout
    <2>2. air # <<>> => air[1] \in Transfer /\ Head(air) = air[1]
      BY Tails DEF TypeInv
    <2>3. air # <<>> => air[1].part = 1 /\ air[1].ch = channel
      BY <2>1, <2>2 DEF Pending, Transfer
    <2>4. OnChannel(air, channel) /\ OnChannel(<<>>, channel) /\ Beginning(<<>>, air)
      BY <1>2, <2>3, Silence DEF TypeInv
    <2>5. ASSUME mark' = "none", ~option.scan, ~option.drop
          PROVE  /\ out # <<>> /\ out[Len(out)].parts # <<>>
                 /\ Before(Last(out[Len(out)].parts), queue, air, packets)
      <3>1. mark = "none" /\ pc # "flush"
        BY <2>1, <2>5 DEF CaptureInv
      <3>2. CASE pc = "more"
        <4>1. /\ Begun(buf, want) /\ Before(Last(buf), <<>>, air, packets) /\ Len(buf) < want
              /\ buf # <<>> /\ buf \in Seq(Transfer) /\ want \in 0..3
          BY <1>1, <3>1, <3>2 DEF CaptureInv, TypeInv
        <4>2. Len(buf) \in Nat \ {0} /\ Last(buf) = buf[Len(buf)] /\ Len(buf) \in 1..Len(buf)
          BY <4>1, Lengths, LastElement
        <4>3. Last(buf).part = Len(buf) /\ Last(buf).of = want
          BY <4>1, <4>2 DEF Begun
        <4>4. Last(buf).part < Last(buf).of
          BY <4>1, <4>3
        <4>5. BeforeAir(Last(buf), air, packets)
          BY <4>1 DEF Before
        <4>6. air # <<>>
          BY <4>1, <4>2, <4>3, <4>5 DEF BeforeAir
        <4>7. air[1] = [Last(buf) EXCEPT !.part = Last(buf).part + 1]
          BY <4>4, <4>5, <4>6 DEF BeforeAir, Follows
        <4>8. Last(buf) \in Transfer
          BY <4>1, LastElement
        <4>9. air[1].part = Len(buf) + 1
          BY <4>3, <4>7, <4>8 DEF Transfer
        <4> QED
          BY <2>3, <4>2, <4>6, <4>9
      <3>3. CASE pc = "get"
        BY <1>1, <2>5, <3>1, <3>3 DEF CaptureInv
      <3> QED
        BY <3>1, <3>2, <3>3
    <2>6. OnChannel(buf', channel')
      BY DEF OnChannel
    <2> QED
      BY <1>1, <1>2, <2>4, <2>5, <2>6 DEF CaptureInv
  <1> QED
    BY <1>3, <1>4

\* A transfer is one more than the program holds.
LEMMA TakenInv ==
    ASSUME TypeInv, CaptureInv, Taken
    PROVE  /\ UNCHANGED <<present, tuned, air, packets>> /\ present
           /\ InARow(queue', air, packets) /\ queue' \in Seq(Transfer) /\ Head(queue) \in Transfer
           /\ Before(Head(queue), queue', air, packets)
           /\ \A t : Before(t, queue, air, packets) => Follows(t, Head(queue))
           /\ \A c : OnChannel(queue, c) => Head(queue).ch = c /\ OnChannel(queue', c)
           /\ Beginning(queue, air) => Head(queue).part = 1
  <1>1. /\ present /\ queue # <<>> /\ queue' = Tail(queue) /\ UNCHANGED <<present, tuned, air, packets>>
    BY DEF Taken
  <1>2. /\ queue \in Seq(Transfer) /\ air \in Seq(Transfer) /\ packets \in Nat
        /\ InARow(queue, air, packets)
    BY <1>1 DEF TypeInv, CaptureInv
  <1>3. /\ InARow(Tail(queue), air, packets) /\ Before(Head(queue), Tail(queue), air, packets)
        /\ \A t : Before(t, queue, air, packets) => Follows(t, Head(queue))
        /\ \A c : OnChannel(queue, c) => Head(queue).ch = c /\ OnChannel(Tail(queue), c)
        /\ Beginning(queue, air) => Head(queue).part = 1
    BY <1>1, <1>2, TakeNext
  <1>4. Tail(queue) \in Seq(Transfer) /\ Head(queue) \in Transfer
    BY <1>1, <1>2, Tails
  <1> QED
    BY <1>1, <1>3, <1>4

LEMMA OneOnChannel ==
    ASSUME NEW p, NEW c, Len(p) = 1, p[1].ch = c
    PROVE  OnChannel(p, c)
  <1>1. \A k \in 1..1 : k = 1
    OBVIOUS
  <1> QED
    BY <1>1 DEF OnChannel

LEMMA UsbHexInv ==
    ASSUME TypeInv, CaptureInv, Captured, UsbHex
    PROVE  CaptureInv' /\ Captured'
  <1> DEFINE h == Head(queue)
             p == <<h>>
  <1>1. /\ pc = "get" /\ option.format = "usbhex" /\ option' = option /\ channel' = channel
        /\ buf' = buf /\ buf = <<>> /\ tuned = channel
    BY DEF UsbHex, CaptureInv
  <1>2. CASE Taken /\ Written(p, 1) /\ pc' = "loop"
    <2>1. /\ UNCHANGED <<present, tuned, air, packets>> /\ present /\ InARow(queue', air, packets)
          /\ queue' \in Seq(Transfer) /\ h \in Transfer /\ Before(h, queue', air, packets)
          /\ \A t : Before(t, queue, air, packets) => Follows(t, h)
          /\ \A c : OnChannel(queue, c) => h.ch = c /\ OnChannel(queue', c)
      BY <1>2, TakenInv
    <2> HIDE DEF h
    <2>2. p \in Seq(Transfer) /\ p # <<>> /\ Len(p) = 1 /\ p[1] = h
      BY <2>1
    <2>3. Last(p) = h
      BY <2>2 DEF Last
    <2> HIDE DEF p
    <2>4. Returned
      BY <1>1, <1>2, <2>1 DEF Returned
    <2>5. Fits(p)
      <3>1. mark # "on" => OnChannel(p, channel)
        <4>1. mark # "on" => h.ch = channel
          BY <1>1, <2>1 DEF CaptureInv
        <4> QED
          BY <2>2, <4>1, OneOnChannel
      <3>2. mark = "none" /\ ~option.scan /\ ~option.drop =>
              /\ out[Len(out)].parts # <<>>
              /\ Before(Last(out[Len(out)].parts), queue, air, packets)
        BY <1>1, <2>1 DEF CaptureInv
      <3> QED
        BY <2>1, <2>2, <3>1, <3>2 DEF Fits
    <2>6. After(p)
      BY <1>1, <2>1, <2>3 DEF After, CaptureInv
    <2> QED
      BY <1>1, <1>2, <2>2, <2>4, <2>5, <2>6, WrittenInv
  <1>3. CASE Taken /\ pc' = "ended" /\ UNCHANGED <<output, mark>>
    <2>1. present' => InARow(queue', air', packets')
      BY <1>3, TakenInv
    <2> QED
      BY <1>1, <1>3, <2>1, IdleInv, CapturedAgain DEF output
  <1>4. CASE Timeout /\ pc' = "loop" /\ UNCHANGED output
    BY <1>1, <1>4, SilenceInv, CapturedAgain DEF output
  <1>5. CASE Error /\ pc' \in {"loop", "ended"} /\ UNCHANGED output
    <2>1. mark' = "on" /\ UNCHANGED <<present, tuned, air, queue, packets>>
      BY <1>5 DEF Error, sniffer
    <2>2. present' => InARow(queue', air', packets')
      BY <2>1 DEF CaptureInv
    <2> QED
      BY <1>1, <1>5, <2>1, <2>2, IdleInv, CapturedAgain DEF output
  <1> QED
    BY <1>2, <1>3, <1>4, <1>5 DEF UsbHex

\* Parts of a packet, with the one just taken: they are written, or another
\* one is read.
LEMMA CollectedInv ==
    ASSUME TypeInv, CaptureInv, Captured, NEW parts \in Seq(Transfer), parts # <<>>, NEW n \in 1..3,
           Len(parts) <= n, option.format = "pcap", Collected(parts, n),
           UNCHANGED <<option, channel, tuned, present, air, packets>>, tuned = channel, present,
           queue' \in Seq(Transfer), InARow(queue', air, packets), Fits(parts),
           mark # "on" =>
               /\ Begun(parts, n) /\ Before(Last(parts), queue', air, packets)
               /\ OnChannel(air, channel) /\ OnChannel(queue', channel)
               /\ mark = "none" /\ ~option.scan /\ ~option.drop => out # <<>>
    PROVE  CaptureInv' /\ Captured'
  <1>1. Len(parts) \in Nat \ {0} /\ DOMAIN parts = 1..Len(parts) /\ Last(parts) = parts[Len(parts)]
        /\ Last(parts) \in Transfer
    BY Lengths, LastElement
  <1>2. CASE Len(parts) = n
    <2>1. pc' = "loop" /\ buf' = <<>> /\ want' = 0 /\ WritePacket(parts)
      BY <1>2 DEF Collected
    <2>2. Returned
      BY <2>1 DEF Returned
    <2>3. mark # "on" => Whole(parts) /\ Last(parts).part = Last(parts).of
      <3> SUFFICES ASSUME mark # "on" PROVE Whole(parts) /\ Last(parts).part = Last(parts).of
        OBVIOUS
      <3>1. 1 \in 1..Len(parts) /\ Len(parts) \in 1..Len(parts)
        BY <1>1
      <3>2. /\ parts[1].of = n /\ parts[Len(parts)].part = Len(parts) /\ parts[Len(parts)].of = n
            /\ \A k \in 1..Len(parts) : parts[k].id = parts[1].id /\ parts[k].part = k
        BY <3>1 DEF Begun
      <3> QED
        BY <1>1, <1>2, <3>2 DEF Whole
    <2>4. After(parts)
      BY <2>3 DEF After
    <2>5. PICK fcs_ok \in BOOLEAN :
            /\ Whole(parts) => fcs_ok = parts[1].marked
            /\ \/ /\ ~Dropped(fcs_ok)
                  /\ packet_len_plus_2' = IF fcs_ok THEN Len(parts) ELSE packet_len_plus_2
                  /\ Written(parts, packet_len_plus_2')
               \/ (Whole(parts) => Dropped(fcs_ok)) /\ UNCHANGED <<output, mark>>
      BY <2>1 DEF WritePacket
    <2>6. CASE /\ packet_len_plus_2' = IF fcs_ok THEN Len(parts) ELSE packet_len_plus_2
               /\ Written(parts, packet_len_plus_2')
      <3> DEFINE len == IF fcs_ok THEN Len(parts) ELSE packet_len_plus_2
      <3>1. len \in Nat /\ Written(parts, len)
        BY <1>1, <2>6 DEF TypeInv
      <3>2. mark # "on" => Whole(parts) /\ (parts[1].marked => len = Len(parts))
        BY <2>3, <2>5
      <3> HIDE DEF len
      <3> QED
        BY <2>2, <2>4, <3>1, <3>2, WrittenInv
    <2>7. CASE (Whole(parts) => Dropped(fcs_ok)) /\ UNCHANGED <<output, mark>>
      <3>1. mark # "on" => option.drop
        BY <2>3, <2>7 DEF Dropped
      <3>2. mark # "on" => Beginning(queue', air)
        BY <1>1, <2>3, EndOfPacket
      <3>3. OnChannel(<<>>, channel)
        BY DEF OnChannel
      <3>4. Captured'
        BY <2>7, CapturedAgain DEF output
      <3> QED
        BY <2>1, <2>7, <3>1, <3>2, <3>3, <3>4 DEF CaptureInv
    <2> QED
      BY <2>5, <2>6, <2>7
  <1>3. CASE Len(parts) # n
    <2>1. pc' = "more" /\ buf' = parts /\ want' = n /\ UNCHANGED <<output, mark>>
      BY <1>3 DEF Collected
    <2>2. Captured'
      BY <2>1, CapturedAgain DEF output
    <2>3. Len(parts) < n
      <3> DEFINE l == Len(parts)
      <3>1. n \in Nat /\ l <= n
        OBVIOUS
      <3>2. l \in Nat /\ l # n
        BY <1>1, <1>3
      <3> HIDE DEF l
      <3>3. l < n
        BY <3>1, <3>2
      <3> QED
        BY <3>3 DEF l
    <2>4. mark # "on" => OnChannel(parts, channel)
      BY DEF Fits
    <2>5. mark = "none" /\ ~option.scan /\ ~option.drop =>
            /\ out # <<>> /\ out[Len(out)].parts # <<>>
            /\ Follows(Last(out[Len(out)].parts), parts[1])
      BY DEF Fits
    <2>6. out' = out
      BY <2>1 DEF output
    <2> QED
      BY <2>1, <2>2, <2>3, <2>4, <2>5, <2>6 DEF CaptureInv
  <1> QED
    BY <1>2, <1>3

LEMMA GivenUpInv ==
    ASSUME TypeInv, CaptureInv, Captured, Timeout \/ Error, GivenUp, pc \in {"get", "more"},
           UNCHANGED <<option, channel>>
    PROVE  CaptureInv' /\ Captured'
  <1>1. pc' = "loop" /\ buf' = <<>> /\ UNCHANGED output /\ tuned = channel
    BY DEF GivenUp, CaptureInv
  <1>2. CASE Timeout
    BY <1>1, <1>2, SilenceInv, CapturedAgain DEF output
  <1>3. CASE Error
    <2>1. mark' = "on" /\ UNCHANGED <<present, tuned, air, queue, packets>>
      BY <1>3 DEF Error, sniffer
    <2>2. present' => InARow(queue', air', packets')
      BY <2>1 DEF CaptureInv
    <2> QED
      BY <1>1, <2>1, <2>2, IdleInv, CapturedAgain DEF output
  <1> QED
    BY <1>2, <1>3

LEMMA HeaderInv ==
    ASSUME TypeInv, CaptureInv, Captured, Header
    PROVE  CaptureInv' /\ Captured'
  <1> DEFINE h == Head(queue)
             p == <<h>>
  <1>1. /\ pc = "get" /\ option.format = "pcap" /\ option' = option /\ channel' = channel
        /\ buf = <<>> /\ tuned = channel
    BY DEF Header, CaptureInv
  <1>2. CASE (Timeout \/ Error) /\ GivenUp
    BY <1>1, <1>2, GivenUpInv
  <1>3. CASE Taken /\ \/ \E n \in 1..3 : (h.part = 1 => n = h.of) /\ Collected(p, n)
                      \/ h.part > 1 /\ GivenUp /\ UNCHANGED mark
    <2>1. /\ UNCHANGED <<present, tuned, air, packets>> /\ present /\ InARow(queue', air, packets)
          /\ queue' \in Seq(Transfer) /\ h \in Transfer /\ Before(h, queue', air, packets)
          /\ \A t : Before(t, queue, air, packets) => Follows(t, h)
          /\ \A c : OnChannel(queue, c) => h.ch = c /\ OnChannel(queue', c)
          /\ Beginning(queue, air) => h.part = 1
      BY <1>3, TakenInv
    <2>2. mark # "on" =>
            /\ OnChannel(air, channel) /\ OnChannel(queue, channel) /\ Beginning(queue, air)
            /\ mark = "none" /\ ~option.scan /\ ~option.drop =>
                 /\ out # <<>> /\ out[Len(out)].parts # <<>>
                 /\ Before(Last(out[Len(out)].parts), queue, air, packets)
      BY <1>1, <2>1 DEF CaptureInv
    <2>3. CASE h.part > 1 /\ GivenUp /\ UNCHANGED mark
      <3>1. mark = "on"
        BY <2>1, <2>2, <2>3
      <3>2. pc' = "loop" /\ buf' = <<>> /\ UNCHANGED output
        BY <2>3 DEF GivenUp
      <3> QED
        BY <1>1, <2>1, <2>3, <3>1, <3>2, IdleInv, CapturedAgain DEF output
    <2>4. ASSUME NEW n \in 1..3, h.part = 1 => n = h.of, Collected(p, n)
          PROVE  CaptureInv' /\ Captured'
      <3> HIDE DEF h
      <3>1. p \in Seq(Transfer) /\ p # <<>> /\ Len(p) = 1 /\ p[1] = h
        BY <2>1
      <3>2. Last(p) = h
        BY <3>1 DEF Last
      <3> HIDE DEF p
      <3>3. mark # "on" => Begun(p, n)
        BY <2>1, <2>2, <2>4, <3>1 DEF Begun
      <3>4. Fits(p)
        <4>1. mark # "on" => OnChannel(p, channel)
          BY <2>1, <2>2, <3>1, OneOnChannel
        <4> QED
          BY <2>1, <2>2, <3>1, <4>1 DEF Fits
      <3>5. mark # "on" => OnChannel(air, channel) /\ OnChannel(queue', channel)
        BY <2>1, <2>2
      <3>6. Len(p) <= n
        BY <3>1
      <3> QED
        BY <1>1, <2>1, <2>2, <2>4, <3>1, <3>2, <3>3, <3>4, <3>5, <3>6, CollectedInv
    <2> QED
      BY <1>3, <2>3, <2>4
  <1> QED
    BY <1>2, <1>3 DEF Header

LEMMA MoreInv ==
    ASSUME TypeInv, CaptureInv, Captured, More
    PROVE  CaptureInv' /\ Captured'
  <1> DEFINE h == Head(queue)
             p == Append(buf, h)
             l == Len(buf)
  <1>1. /\ pc = "more" /\ option.format = "pcap" /\ option' = option /\ channel' = channel
        /\ buf \in Seq(Transfer) /\ buf # <<>> /\ l < want /\ want \in 0..3 /\ tuned = channel
    BY DEF More, CaptureInv, TypeInv
  <1>2. CASE (Timeout \/ Error) /\ GivenUp
    BY <1>1, <1>2, GivenUpInv
  <1>3. CASE Taken /\ Collected(p, want)
    <2>1. /\ UNCHANGED <<present, tuned, air, packets>> /\ present /\ InARow(queue', air, packets)
          /\ queue' \in Seq(Transfer) /\ h \in Transfer /\ Before(h, queue', air, packets)
          /\ \A t : Before(t, queue, air, packets) => Follows(t, h)
          /\ \A c : OnChannel(queue, c) => h.ch = c /\ OnChannel(queue', c)
      BY <1>3, TakenInv
    <2>2. mark # "on" =>
            /\ OnChannel(air, channel) /\ OnChannel(queue, channel) /\ OnChannel(buf, channel)
            /\ Begun(buf, want) /\ Before(Last(buf), queue, air, packets)
            /\ mark = "none" /\ ~option.scan /\ ~option.drop =>
                 /\ out # <<>> /\ out[Len(out)].parts # <<>>
                 /\ Follows(Last(out[Len(out)].parts), buf[1])
      BY <1>1, <2>1 DEF CaptureInv
    <2> HIDE DEF h
    <2>3. /\ p \in Seq(Transfer) /\ p # <<>> /\ l \in Nat \ {0} /\ Len(p) = l + 1
          /\ \A k \in 1..l : p[k] = buf[k]
          /\ p[l + 1] = h
      BY <1>1, <2>1, Appends
    <2>4. Last(p) = h /\ Last(buf) = buf[l] /\ Last(buf) \in Transfer
      <3>1. Last(p) = p[Len(p)] /\ p[Len(p)] = h
        BY <2>3 DEF Last
      <3>2. Last(buf) = buf[l] /\ buf[l] \in Transfer
        BY <1>1, LastElement
      <3> QED
        BY <3>1, <3>2
    <2> HIDE DEF p, l
    <2>5. 1 \in 1..l /\ l \in 1..l /\ p[1] = buf[1] /\ \A k \in 1..l + 1 : k \in 1..l \/ k = l + 1
      BY <2>3
    <2>6. mark # "on" => Begun(p, want)
      <3> SUFFICES ASSUME mark # "on" PROVE Begun(p, want)
        OBVIOUS
      <3>1. \A k \in 1..l : buf[k].id = buf[1].id /\ buf[k].part = k /\ buf[k].of = want
        BY <2>2 DEF Begun, l
      <3>2. /\ Last(buf).part = l /\ Last(buf).of = want /\ Last(buf).id = buf[1].id
        BY <2>4, <2>5, <3>1
      <3>3. Last(buf).part < Last(buf).of /\ Follows(Last(buf), h)
        BY <1>1, <2>1, <2>2, <3>2
      <3>4. h = [Last(buf) EXCEPT !.part = Last(buf).part + 1]
        BY <3>3 DEF Follows
      <3>5. h.id = buf[1].id /\ h.part = l + 1 /\ h.of = want
        BY <2>4, <3>2, <3>4 DEF Transfer
      <3>6. \A k \in 1..l + 1 : p[k].id = p[1].id /\ p[k].part = k /\ p[k].of = want
        <4> TAKE k \in 1..l + 1
        <4>1. CASE k \in 1..l
          BY <2>3, <2>5, <3>1, <4>1
        <4>2. CASE k = l + 1
          BY <2>3, <2>5, <3>5, <4>2
        <4> QED
          BY <2>5, <4>1, <4>2
      <3> QED
        BY <2>3, <3>6 DEF Begun
    <2>7. mark # "on" => OnChannel(p, channel)
      <3> SUFFICES ASSUME mark # "on" PROVE OnChannel(p, channel)
        OBVIOUS
      <3>1. h.ch = channel /\ \A k \in 1..l : buf[k].ch = channel
        BY <2>1, <2>2 DEF OnChannel, l
      <3>2. \A k \in 1..l + 1 : p[k].ch = channel
        BY <2>3, <2>5, <3>1
      <3> QED
        BY <2>3, <3>2 DEF OnChannel
    <2>8. Fits(p)
      BY <2>2, <2>5, <2>7 DEF Fits
    <2>9. want \in 1..3 /\ Len(p) <= want
      BY <1>1, <2>3
    <2>10. mark # "on" => OnChannel(air, channel) /\ OnChannel(queue', channel)
      BY <2>1, <2>2
    <2> QED
      BY <1>1, <1>3, <2>1, <2>2, <2>3, <2>4, <2>6, <2>8, <2>9, <2>10, CollectedInv
  <1> QED
    BY <1>2, <1>3 DEF More

LEMMA FlushInv ==
    ASSUME TypeInv, CaptureInv, Captured, Flush
    PROVE  CaptureInv' /\ Captured'
  <1>1. /\ pc = "flush" /\ UNCHANGED <<option, looping, channel, exit_flag, buf, want, output>>
        /\ buf = <<>> /\ tuned = channel /\ (~option.scan => mark # "none")
        /\ pc' \in {"flush", "get", "loop", "ended"}
    BY DEF Flush, Flushed, Undefined, CaptureInv
  <1>2. Captured'
    BY <1>1, CapturedAgain DEF output
  <1>3. CASE Taken /\ nbytes' = 64 /\ UNCHANGED mark
    <2>1. pc' \in {"flush", "ended"}
      BY <1>3 DEF Flush, Flushed, Undefined
    <2>2. InARow(queue', air, packets) /\ UNCHANGED <<present, tuned, air, packets>>
      BY <1>3, TakenInv
    <2> QED
      BY <1>1, <1>2, <1>3, <2>1, <2>2, IdleInv
  <1>4. CASE Timeout /\ nbytes' = 0
    <2>1. pc' \in {"get", "loop", "ended"}
      BY <1>4 DEF Flush, Flushed, Undefined
    <2>2. CASE pc' = "ended"
      <3>1. UNCHANGED <<present, tuned, air, queue, packets>>
        BY <1>4 DEF Timeout, sniffer
      <3>2. present' => InARow(queue', air', packets')
        BY <3>1 DEF CaptureInv
      <3> QED
        BY <1>1, <1>2, <2>2, <3>2, IdleInv
    <2> QED
      BY <1>1, <1>2, <1>4, <2>1, <2>2, SilenceInv DEF output
  <1>5. CASE Error
    <2>1. mark' = "on" /\ UNCHANGED <<present, tuned, air, queue, packets>>
      BY <1>5 DEF Error, sniffer
    <2>2. present' => InARow(queue', air', packets')
      BY <2>1 DEF CaptureInv
    <2> QED
      BY <1>1, <1>2, <2>1, <2>2, IdleInv
  <1> QED
    BY <1>3, <1>4, <1>5 DEF Flush

\* Opening and tuning, and the start of the loop.
LEMMA TuneInv ==
    ASSUME TypeInv, CaptureInv, Captured, setup_libusb_access \/ SendChannel \/ Loop
    PROVE  CaptureInv' /\ Captured'
  <1>1. /\ UNCHANGED <<option, mark, out, buf, want, present, air, queue, packets>>
        /\ pc # "more" /\ buf = <<>>
    BY DEF setup_libusb_access, SendChannel, Loop, sniffer, output, CaptureInv
  <1>2. Captured'
    BY <1>1, CapturedAgain
  <1>3. present' => InARow(queue', air', packets')
    BY <1>1 DEF CaptureInv
  <1>4. CASE setup_libusb_access \/ SendChannel
    <2>1. /\ pc' \in {"tune", "flush", "ended"} /\ (pc' = "flush" => tuned' = channel')
          /\ pc \in {"setup", "tune"}
      BY <1>4 DEF setup_libusb_access, SendChannel
    <2>2. ~option'.scan => mark' # "none"
      BY <1>1, <2>1 DEF CaptureInv
    <2> QED
      BY <1>1, <1>2, <1>3, <2>1, <2>2, IdleInv
  <1>5. CASE Loop
    <2>1. CASE pc' \in {"setup", "ended"}
      <3>1. pc' = "setup" => option.scan
        BY <1>5 DEF Loop
      <3> QED
        BY <1>1, <1>2, <1>3, <2>1, <3>1, IdleInv
    <2>2. CASE pc' = "get"
      <3>1. pc = "loop" /\ channel' = channel /\ tuned' = tuned
        BY <1>5, <2>2 DEF Loop, sniffer
      <3> QED
        BY <1>1, <1>2, <1>3, <2>2, <3>1 DEF CaptureInv
    <2> QED
      BY <1>5, <2>1, <2>2 DEF Loop
  <1> QED
    BY <1>4, <1>5

\* The sniffer, the signal and stuttering.
LEMMA OutsideInv ==
    ASSUME TypeInv, CaptureInv, Captured,
           Receive \/ Deliver \/ Unplug \/ signal_handler \/ UNCHANGED vars
    PROVE  CaptureInv' /\ Captured'
  <1>1. UNCHANGED <<option, pc, channel, buf, want, out, mark, tuned>>
    BY DEF Receive, Deliver, Unplug, signal_handler, vars, Program, output, sniffer
  <1>2. Captured'
    BY <1>1, CapturedAgain
  <1>3. queue \in Seq(Transfer) /\ air \in Seq(Transfer) /\ packets \in Nat /\ tuned \in Nat
    BY DEF TypeInv
  <1>4. CASE Receive
    <2>1. /\ present /\ present' = present /\ air = <<>> /\ packets' = packets + 1
          /\ queue' = queue /\ InARow(queue, <<>>, packets)
      BY <1>4 DEF Receive, CaptureInv
    <2>2. PICK n \in Sizes, marked \in BOOLEAN : air' = NewAir(packets + 1, n, tuned, marked)
      BY <1>4 DEF Receive, NewAir
    <2>3. n \in 1..3
      BY ZenaAssumption
    <2>4. /\ InARow(queue, air', packets + 1) /\ OnChannel(air', tuned)
          /\ \A t \in Transfer : Before(t, queue, <<>>, packets) => Before(t, queue, air', packets + 1)
          /\ Beginning(queue, <<>>) => Beginning(queue, air')
      BY <1>3, <2>1, <2>2, <2>3, NewPacket
    <2> QED
      BY <1>1, <1>2, <2>1, <2>4, SnifferInv
  <1>5. CASE Deliver /\ present
    <2>1. /\ air # <<>> /\ queue' = Append(queue, Head(air)) /\ air' = Tail(air)
          /\ packets' = packets /\ present' = present /\ InARow(queue, air, packets)
      BY <1>5 DEF Deliver, CaptureInv
    <2>2. /\ InARow(queue', air', packets)
          /\ \A t : Before(t, queue, air, packets) => Before(t, queue', air', packets)
          /\ \A c : OnChannel(queue, c) /\ OnChannel(air, c) => OnChannel(queue', c) /\ OnChannel(air', c)
          /\ Beginning(queue, air) => Beginning(queue', air')
      BY <1>3, <2>1, SendNext
    <2> QED
      BY <1>1, <1>2, <2>1, <2>2, SnifferInv
  <1>6. CASE ~present'
    BY <1>1, <1>2, <1>6 DEF CaptureInv
  <1>7. CASE signal_handler \/ UNCHANGED vars
    <2>1. UNCHANGED <<present, air, queue, packets>>
      BY <1>7 DEF signal_handler, vars, sniffer
    <2> QED
      BY <1>1, <1>2, <2>1 DEF CaptureInv
  <1>8. Unplug \/ (Deliver /\ ~present) => ~present'
    BY DEF Unplug, Deliver
  <1> QED
    BY <1>4, <1>5, <1>6, <1>7, <1>8

LEMMA CaptureInit == Init => CaptureInv /\ Captured
  <1> SUFFICES ASSUME Init PROVE CaptureInv /\ Captured
    OBVIOUS
  <1>1. /\ pc = "setup" /\ buf = <<>> /\ air = <<>> /\ queue = <<>> /\ out = <<>> /\ mark = "over"
        /\ Len(<<>>) = 0
    BY DEF Init
  <1>2. InARow(queue, air, packets)
    BY <1>1 DEF InARow
  <1> QED
    BY <1>1, <1>2 DEF CaptureInv, Captured

\* Wherever the program is, the transfers still to come continue what it
\* holds in its buffer and what it has written last, unless a fault or a
\* late part has been seen and no silence since.
THEOREM CaptureInvariant == Spec => [](TypeInv /\ CaptureInv /\ Captured)
  <1>1. Init => TypeInv /\ CaptureInv /\ Captured
    BY InitType, CaptureInit
  <1>2. (TypeInv /\ CaptureInv /\ Captured) /\ [Next]_vars => (TypeInv /\ CaptureInv /\ Captured)'
    BY TypeStep, UsbHexInv, HeaderInv, MoreInv, FlushInv, TuneInv, OutsideInv DEF Next, main
  <1> QED
    BY <1>1, <1>2, PTL DEF Spec

\* Captured for any number of channels, packets and faults: a record of pcap
\* output is one whole packet, every record has the channel it was received
\* on, and without a scan none is missing between two.
THEOREM PacketsAsSent == Spec => []Captured
  BY CaptureInvariant, PTL

=============================================================================
