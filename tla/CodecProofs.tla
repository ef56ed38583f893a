----------------------------- MODULE CodecProofs -----------------------------
(***************************************************************************)
(* Proofs about the codec, for every radix, all address lengths and        *)
(* datagrams of every length.                                              *)
(***************************************************************************)
EXTENDS Codec, TLAPS

-----------------------------------------------------------------------------
(* Pieces of sequences.                                                    *)
LEMMA SameSeq ==
  ASSUME NEW S, NEW s \in Seq(S), NEW t \in Seq(S), Len(s) = Len(t),
         \A i \in 1..Len(s) : s[i] = t[i]
  PROVE  s = t
<1>1. /\ s = [i \in 1..Len(s) |-> s[i]] /\ t = [i \in 1..Len(t) |-> t[i]]
  OBVIOUS
<1> QED
  BY <1>1

LEMMA Piece ==
  ASSUME NEW S, NEW s \in Seq(S), NEW m \in Nat, NEW n \in Nat, m + n =< Len(s)
  PROVE  /\ SubSeq(s, m + 1, m + n) \in Seq(S)
         /\ Len(SubSeq(s, m + 1, m + n)) = n
         /\ \A i \in 1..n : SubSeq(s, m + 1, m + n)[i] = s[m + i]
OBVIOUS

LEMMA PieceIs ==
  ASSUME NEW S, NEW s \in Seq(S), NEW m \in Nat, NEW a \in Seq(S), m + Len(a) =< Len(s),
         \A i \in 1..Len(a) : s[m + i] = a[i]
  PROVE  SubSeq(s, m + 1, m + Len(a)) = a
<1>1. Len(a) \in Nat
  OBVIOUS
<1> DEFINE p == SubSeq(s, m + 1, m + Len(a))
<1>2. p \in Seq(S) /\ Len(p) = Len(a) /\ \A i \in 1..Len(a) : p[i] = s[m + i]
  BY <1>1, Piece
<1> HIDE DEF p
<1>3. p = a
  BY <1>2, SameSeq
<1> QED
  BY <1>3 DEF p

LEMMA DropIs ==
  ASSUME NEW S, NEW s \in Seq(S), NEW n \in 0..Len(s)
  PROVE  /\ Drop(s, n) \in Seq(S) /\ Len(Drop(s, n)) = Len(s) - n
         /\ \A i \in 1..(Len(s) - n) : Drop(s, n)[i] = s[n + i]
BY DEF Drop

LEMMA FrontIs ==
  ASSUME NEW S, NEW s \in Seq(S), NEW n \in 0..Len(s)
  PROVE  /\ Front(s, n) \in Seq(S) /\ Len(Front(s, n)) = n
         /\ \A i \in 1..n : Front(s, n)[i] = s[i]
BY DEF Front

LEMMA ConcatIs ==
  ASSUME NEW S, NEW s \in Seq(S), NEW t \in Seq(S)
  PROVE  /\ s \o t \in Seq(S) /\ Len(s \o t) = Len(s) + Len(t)
         /\ \A i \in 1..Len(s) : (s \o t)[i] = s[i]
         /\ \A i \in 1..Len(t) : (s \o t)[Len(s) + i] = t[i]
OBVIOUS

-----------------------------------------------------------------------------
(* Two bytes make a port and come out of it again.                         *)
LEMMA PortTrip ==
  ASSUME NEW x \in Bytes, NEW y \in Bytes
  PROVE  /\ PortBytes(x * Radix + y) = <<x, y>>
         /\ PortOf(<<x, y>>) = x * Radix + y
<1>1. x \in Nat /\ y \in Nat /\ x < Radix /\ y < Radix /\ Radix \in Nat /\ Radix > 5
  BY RadixAssumption DEF Bytes
<1>2. (x * Radix + y) % Radix = y
  BY <1>1
<1>3. (x * Radix + y) \div Radix = x
  BY <1>1
<1>4. x % Radix = x
  BY <1>1
<1> QED
  BY <1>2, <1>3, <1>4 DEF PortBytes, PortOf

LEMMA Lengths ==
  /\ Radix \in Nat /\ Radix > 5 /\ V4Len \in Nat \ {0} /\ V6Len \in Nat \ {0}
  /\ MappedPrefix \in Seq(Bytes) /\ Bytes \subseteq Nat /\ 0..5 \subseteq Bytes
<1>1. Len(MappedPrefix) \in Nat
  BY PrefixAssumption
<1>2. V6Len \in Nat \ {0}
  BY <1>1, LengthAssumption DEF V6Len
<1> QED
  BY <1>2, RadixAssumption, LengthAssumption, PrefixAssumption DEF Bytes

-----------------------------------------------------------------------------
(* What a datagram says: its type of address, the address, the two bytes   *)
(* of the port and the payload.                                            *)
Before(atyp) == IF atyp = atypDomain THEN 5 ELSE 4

Layout(d, atyp, a, x, y, t, k, n) ==
  /\ d \in Seq(Bytes) /\ a \in Seq(Bytes) /\ t \in Seq(Bytes)
  /\ x \in Bytes /\ y \in Bytes /\ k \in {4, 5} /\ n \in Nat /\ n = Len(a)
  /\ Len(t) \in Nat /\ Len(d) \in Nat /\ Len(d) = k + n + 2 + Len(t) /\ Len(d) > 5
  /\ d[3] = 0 /\ d[4] = atyp
  /\ \/ atyp = atypIPv4 /\ n = V4Len /\ k = 4
     \/ atyp = atypIPv6 /\ n = V6Len /\ k = 4
     \/ atyp = atypDomain /\ n \in 1..(Radix - 1) /\ n # 0 /\ k = 5 /\ d[5] = n
  /\ \A i \in 1..n : d[k + i] = a[i]
  /\ d[k + n + 1] = x /\ d[k + n + 2] = y
  /\ \A i \in 1..Len(t) : d[k + n + 2 + i] = t[i]

Says(d, atyp, a, x, y, t) == Layout(d, atyp, a, x, y, t, Before(atyp), Len(a))

Reading(atyp, a, x, y) ==
  [ok |-> TRUE, host |-> Host(atyp, a), port |-> x * Radix + y]

Meaning(atyp, a, x, y, t) ==
  [ok |-> TRUE, host |-> Host(atyp, a), port |-> x * Radix + y, payload |-> t]

(* An address and a port are read as they stand.                           *)
LEMMA AddressPortReads ==
  ASSUME NEW s \in Seq(Bytes), NEW a \in Seq(Bytes), NEW x \in Bytes, NEW y \in Bytes,
         NEW atyp, NEW n, n = Len(a), n + 2 =< Len(s), \A i \in 1..n : s[i] = a[i],
         s[n + 1] = x, s[n + 2] = y
  PROVE  AddressPort(s, atyp, n) = Reading(atyp, a, x, y)
<1> DEFINE rest == Drop(s, n)
<1>1. n \in Nat /\ Len(s) \in Nat /\ n \in 0..Len(s)
  OBVIOUS
<1>2. /\ rest \in Seq(Bytes) /\ Len(rest) = Len(s) - n
      /\ \A i \in 1..(Len(s) - n) : rest[i] = s[n + i]
  BY <1>1, DropIs
<1>3. Buffer(s, n) = a
  <2>1. SubSeq(s, 0 + 1, 0 + Len(a)) = a
    BY PieceIs
  <2> QED
    BY <2>1 DEF Buffer, Front
<1> HIDE DEF rest
<1>4. /\ Buffer(rest, 2)[1] = rest[1] /\ Buffer(rest, 2)[2] = rest[2]
  <2>1. 2 \in 0..Len(rest)
    BY <1>1, <1>2
  <2> QED
    BY <1>2, <2>1, FrontIs DEF Buffer
<1>5. rest[1] = x /\ rest[2] = y
  BY <1>1, <1>2
<1>6. ReadFull(s, n) /\ ReadFull(rest, 2)
  BY <1>1, <1>2 DEF ReadFull
<1>7. AddressPort(s, atyp, n) =
        [ok |-> TRUE, host |-> Host(atyp, a), port |-> PortOf(Buffer(rest, 2))]
  BY <1>3, <1>6 DEF AddressPort, rest
<1> QED
  BY <1>4, <1>5, <1>7 DEF PortOf, Reading

(* What comes behind four bytes.                                           *)
LEMMA Behind ==
  ASSUME NEW d, NEW atyp, NEW a, NEW x, NEW y, NEW t, Says(d, atyp, a, x, y, t)
  PROVE  readTarget(Drop(d, 4), atyp) = Reading(atyp, a, x, y)
<1> DEFINE k == Before(atyp)
           n == Len(a)
           s == Drop(d, 4)
<1>0. k = Before(atyp) /\ n = Len(a)
  OBVIOUS
<1> HIDE DEF k, n
<1>a. Layout(d, atyp, a, x, y, t, k, n)
  BY <1>0 DEF Says
<1>1. /\ n \in Nat /\ Len(d) \in Nat /\ Len(d) > 5 /\ Len(t) \in Nat /\ d \in Seq(Bytes) /\ a \in Seq(Bytes)
      /\ x \in Bytes /\ y \in Bytes /\ Len(d) = k + n + 2 + Len(t) /\ k \in {4, 5}
      /\ \A i \in 1..n : d[k + i] = a[i]
      /\ d[k + n + 1] = x /\ d[k + n + 2] = y
      /\ \/ atyp = atypIPv4 /\ n = V4Len /\ k = 4
         \/ atyp = atypIPv6 /\ n = V6Len /\ k = 4
         \/ atyp = atypDomain /\ n # 0 /\ k = 5 /\ d[5] = n
  BY <1>a DEF Layout
<1>2. /\ s \in Seq(Bytes) /\ Len(s) = Len(d) - 4
      /\ \A i \in 1..(Len(d) - 4) : s[i] = d[4 + i]
  <2>1. 4 \in 0..Len(d)
    BY <1>1
  <2> QED
    BY <1>1, <2>1, DropIs
<1> HIDE DEF s
<1>3. ASSUME atyp # atypDomain
      PROVE  AddressPort(s, atyp, n) = Reading(atyp, a, x, y)
  <2>1. k = 4
    BY <1>1, <1>3
  <2>2. /\ \A i \in 1..(n + 2) : s[i] = d[4 + i]
        /\ n + 2 =< Len(s) /\ 4 + (n + 1) = 4 + n + 1 /\ 4 + (n + 2) = 4 + n + 2
        /\ n + 1 \in 1..(n + 2) /\ n + 2 \in 1..(n + 2)
    BY <1>1, <1>2, <2>1
  <2>3. s[n + 1] = x /\ s[n + 2] = y
    BY <1>1, <2>1, <2>2
  <2>4. \A i \in 1..n : s[i] = a[i]
    BY <1>1, <2>1, <2>2
  <2>5. n = Len(a) /\ a \in Seq(Bytes) /\ x \in Bytes /\ y \in Bytes
    BY <1>0, <1>1
  <2> QED
    BY <1>2, <2>2, <2>3, <2>4, <2>5, AddressPortReads
<1>4. ASSUME atyp = atypDomain
      PROVE  /\ s # <<>> /\ Head(s) = n /\ n # 0
             /\ AddressPort(Tail(s), atyp, n) = Reading(atyp, a, x, y)
  <2>1. k = 5 /\ d[5] = n /\ n # 0
    BY <1>1, <1>4 DEF atypDomain, atypIPv4, atypIPv6
  <2>2. s # <<>> /\ Head(s) = n
    BY <1>1, <1>2, <2>1
  <2>3. /\ Tail(s) \in Seq(Bytes) /\ Len(Tail(s)) = Len(s) - 1
        /\ \A i \in 1..(Len(s) - 1) : Tail(s)[i] = s[1 + i]
    BY <1>2, <2>2
  <2>4. \A i \in 1..(Len(d) - 5) : Tail(s)[i] = d[5 + i]
    BY <1>1, <1>2, <2>3
  <2>5. /\ n + 2 =< Len(Tail(s)) /\ n + 2 =< Len(d) - 5
        /\ 5 + (n + 1) = 5 + n + 1 /\ 5 + (n + 2) = 5 + n + 2
        /\ n + 1 \in 1..(Len(d) - 5) /\ n + 2 \in 1..(Len(d) - 5)
        /\ 1..n \subseteq 1..(Len(d) - 5)
    BY <1>1, <1>2, <2>1, <2>3
  <2>6. Tail(s)[n + 1] = x /\ Tail(s)[n + 2] = y
    BY <1>1, <2>1, <2>4, <2>5
  <2>7. \A i \in 1..n : Tail(s)[i] = a[i]
    BY <1>1, <2>1, <2>4, <2>5
  <2>8. n = Len(a) /\ a \in Seq(Bytes) /\ x \in Bytes /\ y \in Bytes
    BY <1>0, <1>1
  <2>9. AddressPort(Tail(s), atyp, n) = Reading(atyp, a, x, y)
    <3> DEFINE u == Tail(s)
    <3>1. /\ u \in Seq(Bytes) /\ n + 2 =< Len(u) /\ u[n + 1] = x /\ u[n + 2] = y
          /\ \A i \in 1..n : u[i] = a[i]
      BY <2>3, <2>5, <2>6, <2>7
    <3> HIDE DEF u
    <3>2. AddressPort(u, atyp, n) = Reading(atyp, a, x, y)
      BY <2>8, <3>1, AddressPortReads
    <3> QED
      BY <3>2 DEF u
  <2> QED
    BY <2>1, <2>2, <2>9, Zenon
<1> QED
  <2>1. CASE atyp = atypDomain
    BY <1>4, <2>1 DEF readTarget, s, atypIPv4, atypIPv6, atypDomain
  <2>2. CASE atyp = atypIPv4
    BY <1>1, <1>3, <2>2 DEF readTarget, s, atypIPv4, atypIPv6, atypDomain
  <2>3. CASE atyp = atypIPv6
    BY <1>1, <1>3, <2>3 DEF readTarget, s, atypIPv4, atypIPv6, atypDomain
  <2> QED
    BY <1>1, <2>1, <2>2, <2>3

(* The payload starts behind the port.                                     *)
LEMMA Payload ==
  ASSUME NEW d, NEW atyp, NEW a, NEW x, NEW y, NEW t, Says(d, atyp, a, x, y, t)
  PROVE  Drop(d, Before(atyp) + Len(a) + 2) = t
<1> DEFINE k == Before(atyp)
           n == Len(a)
           m == k + n + 2
<1>0. k = Before(atyp) /\ n = Len(a)
  OBVIOUS
<1> HIDE DEF k, n
<1>a. Layout(d, atyp, a, x, y, t, k, n)
  BY <1>0 DEF Says
<1>1. /\ d \in Seq(Bytes) /\ t \in Seq(Bytes) /\ m \in Nat /\ Len(d) = m + Len(t)
      /\ \A i \in 1..Len(t) : d[m + i] = t[i]
  BY <1>a DEF Layout
<1> HIDE DEF m
<1>2. SubSeq(d, m + 1, m + Len(t)) = t
  BY <1>1, PieceIs
<1> QED
  BY <1>1, <1>2 DEF Drop, m, k, n

LEMMA Unwrapped ==
  ASSUME NEW d, NEW atyp, NEW a, NEW x, NEW y, NEW t, Says(d, atyp, a, x, y, t)
  PROVE  unwrapUDP(d) = Meaning(atyp, a, x, y, t)
<1> DEFINE k == Before(atyp)
           n == Len(a)
<1>0. k = Before(atyp) /\ n = Len(a)
  OBVIOUS
<1> HIDE DEF k, n
<1>a. Layout(d, atyp, a, x, y, t, k, n)
  BY <1>0 DEF Says
<1>1. /\ Len(d) \in Nat /\ d[3] = 0 /\ d[4] = atyp /\ k \in {4, 5}
      /\ Len(d) = k + n + 2 + Len(t) /\ Len(t) \in Nat /\ n \in Nat
      /\ \/ atyp = atypIPv4 /\ n = V4Len /\ k = 4
         \/ atyp = atypIPv6 /\ n = V6Len /\ k = 4
         \/ atyp = atypDomain /\ k = 5 /\ d[5] = n
  BY <1>a DEF Layout
<1>2. PayloadOffset(d) = k + n + 2
  BY <1>1 DEF PayloadOffset, atypIPv4, atypIPv6, atypDomain
<1>3. PayloadOffset(d) =< Len(d) /\ ~(Len(d) < 4)
  BY <1>1, <1>2
<1> QED
  <2>1. readTarget(Drop(d, 4), atyp) = Reading(atyp, a, x, y)
    BY Behind
  <2>2. Drop(d, k + n + 2) = t
    BY Payload DEF k, n
  <2>3. ~(Len(d) < 4 \/ d[3] # 0) /\ ~(PayloadOffset(d) > Len(d)) /\ d[4] = atyp
    BY <1>1, <1>2, <1>3
  <2>4. LET r == Reading(atyp, a, x, y)
        IN  /\ r.ok /\ Meaning(atyp, a, x, y, t) =
                         [ok |-> TRUE, host |-> r.host, port |-> r.port, payload |-> t]
    BY DEF Reading, Meaning
  <2> HIDE DEF k, n
  <2> QED
    BY <1>2, <2>1, <2>2, <2>3, <2>4, Zenon DEF unwrapUDP

LEMMA ProbeTargetReads ==
  ASSUME NEW d, NEW atyp, NEW a, NEW x, NEW y, NEW t, Says(d, atyp, a, x, y, t)
  PROVE  probeTarget(d, Before(atyp), Len(a)) = Meaning(atyp, a, x, y, t)
<1> DEFINE k == Before(atyp)
           n == Len(a)
<1>0. k = Before(atyp) /\ n = Len(a)
  OBVIOUS
<1> HIDE DEF k, n
<1>a. Layout(d, atyp, a, x, y, t, k, n)
  BY <1>0 DEF Says
<1>1. /\ n \in Nat /\ Len(d) \in Nat /\ Len(d) > 5 /\ Len(t) \in Nat /\ d \in Seq(Bytes) /\ a \in Seq(Bytes)
      /\ x \in Bytes /\ y \in Bytes /\ Len(d) = k + n + 2 + Len(t) /\ k \in {4, 5}
      /\ \A i \in 1..n : d[k + i] = a[i]
      /\ d[k + n + 1] = x /\ d[k + n + 2] = y /\ d[4] = atyp
  BY <1>a DEF Layout
<1>2. SubSeq(d, k + 1, k + n) = a
  <2>1. k \in Nat /\ k + Len(a) =< Len(d) /\ \A i \in 1..Len(a) : d[k + i] = a[i]
    BY <1>0, <1>1
  <2>2. SubSeq(d, k + 1, k + Len(a)) = a
    BY <1>1, <2>1, PieceIs
  <2> QED
    BY <1>0, <2>2
<1>3. SubSeq(d, k + n + 1, k + n + 2)[1] = x /\ SubSeq(d, k + n + 1, k + n + 2)[2] = y
  <2>1. \A i \in 1..2 : SubSeq(d, (k + n) + 1, (k + n) + 2)[i] = d[(k + n) + i]
    BY <1>1, Piece
  <2> QED
    BY <1>1, <2>1
<1>4. Drop(d, k + n + 2) = t
  BY Payload DEF k, n
<1>5. ~(Len(d) < k + n + 2)
  BY <1>1
<1> QED
  BY <1>1, <1>2, <1>3, <1>4, <1>5 DEF probeTarget, PortOf, Meaning, k, n

LEMMA ProbeUnwrapped ==
  ASSUME NEW d, NEW atyp, NEW a, NEW x, NEW y, NEW t, Says(d, atyp, a, x, y, t)
  PROVE  unwrapProbe(d) = Meaning(atyp, a, x, y, t)
<1> DEFINE k == Before(atyp)
           n == Len(a)
<1>0. k = Before(atyp) /\ n = Len(a)
  OBVIOUS
<1> HIDE DEF k, n
<1>a. Layout(d, atyp, a, x, y, t, k, n)
  BY <1>0 DEF Says
<1>1. /\ Len(d) \in Nat /\ d[3] = 0 /\ d[4] = atyp /\ Len(d) > 4
      /\ \/ atyp = atypIPv4 /\ n = V4Len /\ k = 4
         \/ atyp = atypIPv6 /\ n = V6Len /\ k = 4
         \/ atyp = atypDomain /\ k = 5 /\ d[5] = n
  BY <1>a DEF Layout
<1>2. probeTarget(d, k, n) = Meaning(atyp, a, x, y, t)
  BY ProbeTargetReads DEF k, n
<1> QED
  BY <1>1, <1>2 DEF unwrapProbe, atypIPv4, atypIPv6, atypDomain

-----------------------------------------------------------------------------
(* What is taken apart said something.                                     *)
LEMMA AddressPortTakes ==
  ASSUME NEW s \in Seq(Bytes), NEW n \in Nat, NEW atyp
  PROVE  /\ AddressPort(s, atyp, n) = Error \/ AddressPort(s, atyp, n).ok
         /\ AddressPort(s, atyp, n).ok => Len(s) >= n + 2
<1>1. CASE ReadFull(s, n) /\ ReadFull(Drop(s, n), 2)
  <2>1. n \in 0..Len(s)
    BY <1>1 DEF ReadFull
  <2>2. Len(Drop(s, n)) = Len(s) - n /\ Len(s) \in Nat
    BY <2>1, DropIs
  <2>3. Len(s) >= n + 2
    BY <1>1, <2>1, <2>2 DEF ReadFull
  <2>4. AddressPort(s, atyp, n).ok
    BY <1>1 DEF AddressPort
  <2> QED
    BY <2>3, <2>4
<1>2. CASE ~(ReadFull(s, n) /\ ReadFull(Drop(s, n), 2))
  <2>1. AddressPort(s, atyp, n) = Error
    BY <1>2 DEF AddressPort
  <2> QED
    BY <2>1 DEF Error
<1> QED
  BY <1>1, <1>2

(* d is long enough for an address of n bytes behind k and a port.         *)
Holds(d, k, n) ==
  /\ k \in {4, 5} /\ n \in Nat /\ Len(d) >= k + n + 2 /\ d[3] = 0
  /\ \/ d[4] = atypIPv4 /\ n = V4Len /\ k = 4
     \/ d[4] = atypIPv6 /\ n = V6Len /\ k = 4
     \/ d[4] = atypDomain /\ n = d[5] /\ n # 0 /\ k = 5

LEMMA Said ==
  ASSUME NEW d \in Seq(Bytes), NEW k, NEW n, Holds(d, k, n)
  PROVE  \E a, x, y, t : Says(d, d[4], a, x, y, t)
<1>1. /\ k \in {4, 5} /\ n \in Nat /\ Len(d) >= k + n + 2 /\ d[3] = 0 /\ Len(d) \in Nat
      /\ \/ d[4] = atypIPv4 /\ n = V4Len /\ k = 4
         \/ d[4] = atypIPv6 /\ n = V6Len /\ k = 4
         \/ d[4] = atypDomain /\ n = d[5] /\ n # 0 /\ k = 5
  BY DEF Holds
<1>2. n # 0
  <2>1. V4Len # 0 /\ V6Len # 0
    BY Lengths
  <2> QED
    BY <1>1, <2>1
<1> DEFINE a == SubSeq(d, k + 1, k + n)
           t == Drop(d, k + n + 2)
           x == d[k + n + 1]
           y == d[k + n + 2]
<1>3. a \in Seq(Bytes) /\ Len(a) = n /\ \A i \in 1..n : a[i] = d[k + i]
  <2>1. k \in Nat /\ n \in Nat /\ k + n =< Len(d)
    BY <1>1
  <2> QED
    BY <2>1, Piece
<1>4. /\ t \in Seq(Bytes) /\ Len(t) = Len(d) - (k + n + 2)
      /\ \A i \in 1..(Len(d) - (k + n + 2)) : t[i] = d[(k + n + 2) + i]
  <2>1. k + n + 2 \in 0..Len(d)
    BY <1>1
  <2> QED
    BY <2>1, DropIs
<1>5. x \in Bytes /\ y \in Bytes
  <2>1. k + n + 1 \in 1..Len(d) /\ k + n + 2 \in 1..Len(d)
    BY <1>1
  <2> QED
    BY <2>1
<1>6. d[4] = atypDomain => n \in 1..(Radix - 1)
  <2>1. ASSUME d[4] = atypDomain PROVE d[5] \in Bytes
    <3>1. 5 \in 1..Len(d)
      BY <1>1, <1>2
    <3> QED
      BY <3>1
  <2> QED
    BY <1>1, <1>2, <2>1, Lengths DEF Bytes, atypIPv4, atypIPv6, atypDomain
<1> HIDE DEF a, t, x, y
<1>7. Len(d) > 5 /\ Len(t) \in Nat /\ Len(d) = k + n + 2 + Len(t)
  BY <1>1, <1>2, <1>4
<1>8. k = Before(d[4])
  BY <1>1 DEF Before, atypIPv4, atypIPv6, atypDomain
<1>9. \A i \in 1..Len(t) : d[k + n + 2 + i] = t[i]
  BY <1>1, <1>4, <1>7
<1>10. Layout(d, d[4], a, x, y, t, k, n)
  BY <1>1, <1>2, <1>3, <1>4, <1>5, <1>6, <1>7, <1>9 DEF Layout, x, y
<1>11. Says(d, d[4], a, x, y, t)
  BY <1>3, <1>8, <1>10 DEF Says
<1> QED
  BY <1>11

LEMMA RelayTakes ==
  ASSUME NEW d \in Seq(Bytes)
  PROVE  /\ unwrapUDP(d) = Error \/ unwrapUDP(d).ok
         /\ unwrapUDP(d).ok => \E k, n : Holds(d, k, n)
<1> DEFINE s == Drop(d, 4)
           r == readTarget(s, d[4])
<1>1. unwrapUDP(d) = Error \/ unwrapUDP(d).ok
  BY DEF unwrapUDP
<1>2. ASSUME unwrapUDP(d).ok PROVE \E k, n : Holds(d, k, n)
  <2>1. Len(d) \in Nat /\ Len(d) >= 4 /\ d[3] = 0 /\ r.ok
    BY <1>2 DEF unwrapUDP, Error
  <2>2. /\ s \in Seq(Bytes) /\ Len(s) = Len(d) - 4
        /\ \A i \in 1..(Len(d) - 4) : s[i] = d[4 + i]
    <3>1. 4 \in 0..Len(d)
      BY <2>1
    <3> QED
      BY <2>1, <3>1, DropIs
  <2> HIDE DEF s
  <2>3. CASE d[4] = atypIPv4
    <3>1. AddressPort(s, d[4], V4Len).ok
      BY <2>1, <2>3 DEF readTarget, atypIPv4, atypIPv6, atypDomain
    <3>2. Len(s) >= V4Len + 2
      BY <2>2, <3>1, AddressPortTakes, Lengths
    <3>3. Len(d) >= 4 + V4Len + 2 /\ V4Len \in Nat
      BY <2>1, <2>2, <3>2, Lengths
    <3>4. Holds(d, 4, V4Len)
      BY <2>1, <2>3, <3>3 DEF Holds
    <3> QED
      BY <3>4
  <2>4. CASE d[4] = atypIPv6
    <3>1. AddressPort(s, d[4], V6Len).ok
      BY <2>1, <2>4 DEF readTarget, atypIPv4, atypIPv6, atypDomain
    <3>2. Len(s) >= V6Len + 2
      BY <2>2, <3>1, AddressPortTakes, Lengths
    <3>3. Len(d) >= 4 + V6Len + 2 /\ V6Len \in Nat
      BY <2>1, <2>2, <3>2, Lengths
    <3>4. Holds(d, 4, V6Len)
      BY <2>1, <2>4, <3>3 DEF Holds
    <3> QED
      BY <3>4
  <2>5. CASE d[4] = atypDomain
    <3>1. s # <<>> /\ Head(s) # 0 /\ AddressPort(Tail(s), d[4], Head(s)).ok
      BY <2>1, <2>5 DEF readTarget, atypIPv4, atypIPv6, atypDomain, Error
    <3>2. /\ Head(s) = d[5] /\ Len(d) >= 5 /\ Tail(s) \in Seq(Bytes)
          /\ Len(Tail(s)) = Len(d) - 5
      BY <2>1, <2>2, <3>1
    <3>3. d[5] \in Nat
      <4>1. 5 \in 1..Len(d)
        BY <2>1, <3>2
      <4>2. d[5] \in Bytes
        BY <4>1
      <4> QED
        BY <4>2, Lengths
    <3>4. Len(Tail(s)) >= d[5] + 2
      BY <3>1, <3>2, <3>3, AddressPortTakes
    <3>5. Len(d) >= 5 + d[5] + 2 /\ d[5] # 0
      BY <2>1, <3>1, <3>2, <3>3, <3>4
    <3>6. Holds(d, 5, d[5])
      BY <2>1, <2>5, <3>3, <3>5 DEF Holds
    <3> QED
      BY <3>6
  <2> QED
    BY <2>1, <2>3, <2>4, <2>5 DEF readTarget, Error
<1> QED
  BY <1>1, <1>2

LEMMA ProbeTakes ==
  ASSUME NEW d \in Seq(Bytes)
  PROVE  /\ unwrapProbe(d) = Error \/ unwrapProbe(d).ok
         /\ unwrapProbe(d).ok => \/ \E k, n : Holds(d, k, n)
                                 \/ Len(d) > 4 /\ d[4] = atypDomain /\ d[5] = 0
<1>1. ASSUME NEW k, NEW n
      PROVE  /\ probeTarget(d, k, n) = Error \/ probeTarget(d, k, n).ok
             /\ probeTarget(d, k, n).ok => ~(Len(d) < k + n + 2)
  BY DEF probeTarget, Error
<1>2. unwrapProbe(d) = Error \/ unwrapProbe(d).ok
  BY <1>1 DEF unwrapProbe
<1>3. ASSUME unwrapProbe(d).ok
      PROVE  \/ \E k, n : Holds(d, k, n)
             \/ Len(d) > 4 /\ d[4] = atypDomain /\ d[5] = 0
  <2>1. Len(d) \in Nat /\ Len(d) >= 4 /\ d[3] = 0
    BY <1>3 DEF unwrapProbe, Error
  <2>2. CASE d[4] = atypIPv4
    <3>1. probeTarget(d, 4, V4Len).ok
      BY <1>3, <2>1, <2>2 DEF unwrapProbe, atypIPv4, atypIPv6, atypDomain
    <3>2. ~(Len(d) < 4 + V4Len + 2) /\ V4Len \in Nat
      BY <1>1, <3>1, Lengths
    <3>3. Len(d) >= 4 + V4Len + 2
      BY <2>1, <3>2
    <3>4. Holds(d, 4, V4Len)
      BY <2>1, <2>2, <3>2, <3>3 DEF Holds
    <3> QED
      BY <3>4
  <2>3. CASE d[4] = atypIPv6
    <3>1. probeTarget(d, 4, V6Len).ok
      BY <1>3, <2>1, <2>3 DEF unwrapProbe, atypIPv4, atypIPv6, atypDomain
    <3>2. ~(Len(d) < 4 + V6Len + 2) /\ V6Len \in Nat
      BY <1>1, <3>1, Lengths
    <3>3. Len(d) >= 4 + V6Len + 2
      BY <2>1, <3>2
    <3>4. Holds(d, 4, V6Len)
      BY <2>1, <2>3, <3>2, <3>3 DEF Holds
    <3> QED
      BY <3>4
  <2>4. CASE d[4] = atypDomain /\ Len(d) > 4
    <3>1. probeTarget(d, 5, d[5]).ok
      BY <1>3, <2>1, <2>4 DEF unwrapProbe, atypIPv4, atypIPv6, atypDomain
    <3>2. d[5] \in Nat
      <4>1. 5 \in 1..Len(d)
        BY <2>1, <2>4
      <4>2. d[5] \in Bytes
        BY <4>1
      <4> QED
        BY <4>2, Lengths
    <3>3. ~(Len(d) < 5 + d[5] + 2)
      BY <1>1, <3>1
    <3>4. Len(d) >= 5 + d[5] + 2
      BY <2>1, <3>2, <3>3
    <3>5. d[5] # 0 => Holds(d, 5, d[5])
      BY <2>1, <2>4, <3>2, <3>4 DEF Holds
    <3> QED
      BY <2>4, <3>5
  <2> QED
    BY <1>3, <2>1, <2>2, <2>3, <2>4 DEF unwrapProbe, Error
<1> QED
  BY <1>2, <1>3

-----------------------------------------------------------------------------
(* A host is written in one of three forms, the one it is read back from.  *)
IsAddress(atyp, a) ==
  /\ a \in Seq(Bytes)
  /\ \/ atyp = atypIPv4 /\ Len(a) = V4Len
     \/ atyp = atypIPv6 /\ Len(a) = V6Len
     \/ atyp = atypDomain /\ Len(a) \in 1..(Radix - 1)

Prefix(atyp, a) == IF atyp = atypDomain THEN <<atyp, Len(a)>> ELSE <<atyp>>

WrittenAs(h, atyp, a) ==
  /\ IsAddress(atyp, a) /\ Host(atyp, a) = h
  /\ \A p : writeTarget(h, p) = (Prefix(atyp, a) \o a) \o PortBytes(p)

LEMMA HostIs ==
  ASSUME NEW c, NEW a
  PROVE  /\ c = atypIPv4 => Host(c, a) = V4(a)
         /\ c = atypIPv6 => Host(c, a) = V6(a)
         /\ c = atypDomain => Host(c, a) = Name(a)
BY DEF Host, atypIPv4, atypIPv6, atypDomain

LEMMA V4Written ==
  ASSUME NEW a \in Seq(Bytes), Len(a) = V4Len
  PROVE  WrittenAs(V4(a), atypIPv4, a)
<1>1. Host(atypIPv4, a) = V4(a)
  BY HostIs
<1>2. V4(a).kind = "v4" /\ V4(a).bytes = a
  BY DEF V4
<1>3. \A p : writeTarget(V4(a), p) = (<<atypIPv4>> \o a) \o PortBytes(p)
  BY <1>2 DEF writeTarget
<1>4. Prefix(atypIPv4, a) = <<atypIPv4>>
  BY DEF Prefix, atypIPv4, atypDomain
<1> QED
  BY <1>1, <1>3, <1>4 DEF WrittenAs, IsAddress

LEMMA V6Written ==
  ASSUME NEW a \in Seq(Bytes), Len(a) = V6Len
  PROVE  \E c, a2 : WrittenAs(V6(a), c, a2)
<1> DEFINE m == Len(MappedPrefix)
<1>1. CASE Front(a, m) = MappedPrefix
  <2>1. V6(a) = V4(Drop(a, m))
    BY <1>1 DEF V6
  <2>2. m \in 0..Len(a) /\ Len(a) - m = V4Len
    BY Lengths DEF V6Len
  <2>3. Drop(a, m) \in Seq(Bytes) /\ Len(Drop(a, m)) = V4Len
    BY <2>2, DropIs
  <2> QED
    BY <2>1, <2>3, V4Written
<1>2. CASE Front(a, m) # MappedPrefix
  <2>1. V6(a) = [kind |-> "v6", bytes |-> a]
    BY <1>2 DEF V6
  <2>2. Host(atypIPv6, a) = V6(a)
    BY HostIs
  <2>3. V6(a).kind = "v6" /\ V6(a).bytes = a
    BY <2>1
  <2>4. \A p : writeTarget(V6(a), p) = (<<atypIPv6>> \o a) \o PortBytes(p)
    BY <2>3 DEF writeTarget
  <2>5. Prefix(atypIPv6, a) = <<atypIPv6>>
    BY DEF Prefix, atypIPv6, atypDomain
  <2>6. WrittenAs(V6(a), atypIPv6, a)
    BY <2>2, <2>4, <2>5 DEF WrittenAs, IsAddress
  <2> QED
    BY <2>6
<1> QED
  BY <1>1, <1>2

LEMMA NameWritten ==
  ASSUME NEW a \in Seq(Bytes), Len(a) \in 1..(Radix - 1)
  PROVE  \E c, a2 : WrittenAs(Name(a), c, a2)
<1>1. CASE a \in DOMAIN Spelling
  <2>1. Spelling[a] \in Seq(Bytes) /\ Len(Spelling[a]) \in {V4Len, V6Len}
    BY <1>1, SpellingAssumption
  <2>2. CASE Len(Spelling[a]) = V4Len
    <3>1. Name(a) = V4(Spelling[a])
      BY <1>1, <2>2 DEF Name
    <3> QED
      BY <2>1, <2>2, <3>1, V4Written
  <2>3. CASE Len(Spelling[a]) # V4Len
    <3>1. Name(a) = V6(Spelling[a])
      BY <1>1, <2>3 DEF Name
    <3> QED
      BY <2>1, <2>3, <3>1, V6Written
  <2> QED
    BY <2>2, <2>3
<1>2. CASE a \notin DOMAIN Spelling
  <2>1. Name(a) = [kind |-> "name", bytes |-> a]
    BY <1>2 DEF Name
  <2>2. Host(atypDomain, a) = Name(a)
    BY HostIs
  <2>3. Name(a).kind = "name" /\ Name(a).bytes = a
    BY <2>1
  <2>4. Len(a) % Radix = Len(a)
    BY Lengths
  <2>5. \A p : writeTarget(Name(a), p) = (<<atypDomain, Len(a)>> \o a) \o PortBytes(p)
    BY <2>3, <2>4 DEF writeTarget
  <2>6. Prefix(atypDomain, a) = <<atypDomain, Len(a)>>
    BY DEF Prefix
  <2>7. WrittenAs(Name(a), atypDomain, a)
    BY <2>2, <2>5, <2>6 DEF WrittenAs, IsAddress
  <2> QED
    BY <2>7
<1> QED
  BY <1>1, <1>2

(* Three bytes, a written host and port, and a payload say what was        *)
(* written.                                                                *)
LEMMA WrittenSays ==
  ASSUME NEW h, NEW c, NEW a, WrittenAs(h, c, a), NEW x \in Bytes, NEW y \in Bytes,
         NEW u \in Bytes, NEW v \in Bytes, NEW t \in Seq(Bytes)
  PROVE  /\ Says((<<u, v, 0>> \o writeTarget(h, x * Radix + y)) \o t, c, a, x, y, t)
         /\ writeTarget(h, x * Radix + y) \in Seq(Bytes)
<1> DEFINE k == Before(c)
           n == Len(a)
           f == Prefix(c, a)
           w == (f \o a) \o <<x, y>>
           d == (<<u, v, 0>> \o w) \o t
<1>1. writeTarget(h, x * Radix + y) = w
  BY PortTrip DEF WrittenAs
<1>2. /\ a \in Seq(Bytes) /\ n \in Nat /\ Len(t) \in Nat
      /\ \/ c = atypIPv4 /\ n = V4Len /\ k = 4 /\ f = <<c>>
         \/ c = atypIPv6 /\ n = V6Len /\ k = 4 /\ f = <<c>>
         \/ c = atypDomain /\ n \in 1..(Radix - 1) /\ k = 5 /\ f = <<c, n>>
  BY DEF WrittenAs, IsAddress, Before, Prefix, atypIPv4, atypIPv6, atypDomain
<1>3. n # 0
  <2>1. V4Len # 0 /\ V6Len # 0
    BY Lengths
  <2> QED
    BY <1>2, <2>1
<1>4. c \in Bytes /\ (k = 5 => n \in Bytes) /\ 0 \in Bytes
  BY <1>2, Lengths DEF Bytes, atypIPv4, atypIPv6, atypDomain
<1>5. /\ f \in Seq(Bytes) /\ Len(f) = k - 3 /\ f[1] = c /\ (k = 5 => f[2] = n) /\ k \in {4, 5}
  <2>1. CASE k = 4 /\ f = <<c>>
    BY <1>4, <2>1
  <2>2. CASE k = 5 /\ f = <<c, n>>
    BY <1>4, <2>2
  <2> QED
    BY <1>2, <2>1, <2>2
<1> HIDE DEF f, k, n
<1> DEFINE j == k - 3
           fa == f \o a
           p == <<x, y>>
           e == <<u, v, 0>>
           g == e \o w
<1>6. j \in {1, 2} /\ j = Len(f) /\ n = Len(a) /\ k = 3 + j
  BY <1>5 DEF n
<1>7. /\ p \in Seq(Bytes) /\ 2 = Len(p) /\ p[1] = x /\ p[2] = y
      /\ e \in Seq(Bytes) /\ 3 = Len(e) /\ e[3] = 0
  BY <1>4
<1> HIDE DEF j, fa, p, e, g
<1>8. /\ fa \in Seq(Bytes) /\ Len(fa) = j + n
      /\ \A i \in 1..j : fa[i] = f[i]
      /\ \A i \in 1..n : fa[j + i] = a[i]
  BY <1>2, <1>5, <1>6, ConcatIs DEF fa
<1>9. /\ w \in Seq(Bytes) /\ Len(w) = j + n + 2
      /\ \A i \in 1..(j + n) : w[i] = fa[i]
      /\ w[j + n + 1] = x /\ w[j + n + 2] = y
  <2>1. w = fa \o p
    BY DEF fa, p
  <2>2. /\ fa \o p \in Seq(Bytes) /\ Len(fa \o p) = Len(fa) + Len(p)
        /\ \A i \in 1..Len(fa) : (fa \o p)[i] = fa[i]
        /\ \A i \in 1..Len(p) : (fa \o p)[Len(fa) + i] = p[i]
    <3>1. fa \in Seq(Bytes) /\ p \in Seq(Bytes)
      BY <1>7, <1>8
    <3> QED
      BY <3>1, ConcatIs
  <2>3. Len(fa) = j + n /\ Len(p) = 2 /\ j + n \in Nat /\ (j + n) + 2 = j + n + 2
    BY <1>2, <1>6, <1>7, <1>8
  <2>4. w[(j + n) + 1] = p[1] /\ w[(j + n) + 2] = p[2]
    BY <2>1, <2>2, <2>3
  <2> QED
    BY <1>7, <2>1, <2>2, <2>3, <2>4
<1> HIDE DEF w
<1>10. /\ g \in Seq(Bytes) /\ Len(g) = 3 + (j + n + 2) /\ g[3] = 0
       /\ \A i \in 1..(j + n + 2) : g[3 + i] = w[i]
  <2>1. /\ e \o w \in Seq(Bytes) /\ Len(e \o w) = Len(e) + Len(w)
        /\ \A i \in 1..Len(e) : (e \o w)[i] = e[i]
        /\ \A i \in 1..Len(w) : (e \o w)[Len(e) + i] = w[i]
    <3>1. e \in Seq(Bytes) /\ w \in Seq(Bytes)
      BY <1>7, <1>9
    <3> QED
      BY <3>1, ConcatIs
  <2>2. Len(e) = 3 /\ Len(w) = j + n + 2 /\ j + n + 2 \in Nat
    BY <1>2, <1>6, <1>7, <1>9
  <2> QED
    BY <1>7, <2>1, <2>2 DEF g
<1>11. /\ d \in Seq(Bytes) /\ Len(d) = 3 + (j + n + 2) + Len(t)
       /\ \A i \in 1..(3 + (j + n + 2)) : d[i] = g[i]
       /\ \A i \in 1..Len(t) : d[3 + (j + n + 2) + i] = t[i]
  <2>1. d = g \o t
    BY DEF g, e
  <2>2. /\ g \o t \in Seq(Bytes) /\ Len(g \o t) = Len(g) + Len(t)
        /\ \A i \in 1..Len(g) : (g \o t)[i] = g[i]
        /\ \A i \in 1..Len(t) : (g \o t)[Len(g) + i] = t[i]
    <3>1. g \in Seq(Bytes) /\ t \in Seq(Bytes)
      BY <1>10
    <3> QED
      BY <3>1, ConcatIs
  <2> HIDE DEF d
  <2>3. Len(g) = 3 + (j + n + 2)
    BY <1>10
  <2> QED
    BY <2>1, <2>2, <2>3
<1> HIDE DEF d
<1>12. d[3] = 0 /\ \A i \in 1..(j + n + 2) : d[3 + i] = w[i]
  <2>1. \A i \in 1..(j + n + 2) : 3 + i \in 1..(3 + (j + n + 2))
    BY <1>2, <1>6
  <2>2. 3 \in 1..(3 + (j + n + 2))
    BY <1>2, <1>6
  <2> QED
    BY <1>10, <1>11, <2>1, <2>2
<1>13. \A i \in 1..(j + n) : d[3 + i] = fa[i]
  BY <1>2, <1>6, <1>9, <1>12
<1>14. d[4] = c /\ (k = 5 => d[5] = n)
  <2>1. \A i \in 1..j : d[3 + i] = f[i]
    BY <1>2, <1>6, <1>8, <1>13
  <2>2. d[3 + 1] = f[1] /\ (k = 5 => d[3 + 2] = f[2])
    BY <1>6, <2>1
  <2> QED
    BY <1>5, <2>2
<1>15. \A i \in 1..n : d[k + i] = a[i]
  <2>1. ASSUME NEW i \in 1..n PROVE d[k + i] = a[i]
    <3>1. j + i \in 1..(j + n) /\ 3 + (j + i) = k + i
      BY <1>2, <1>6
    <3> QED
      BY <1>8, <1>13, <3>1
  <2> QED
    BY <2>1
<1>16. d[k + n + 1] = x /\ d[k + n + 2] = y
  <2>1. /\ j + n + 1 \in 1..(j + n + 2) /\ 3 + (j + n + 1) = k + n + 1
        /\ j + n + 2 \in 1..(j + n + 2) /\ 3 + (j + n + 2) = k + n + 2
    BY <1>2, <1>6
  <2> QED
    BY <1>9, <1>12, <2>1
<1>17. /\ Len(d) \in Nat /\ Len(d) = k + n + 2 + Len(t) /\ Len(d) > 5
       /\ \A i \in 1..Len(t) : d[k + n + 2 + i] = t[i]
  <2>1. 3 + (j + n + 2) = k + n + 2
    BY <1>2, <1>6
  <2> QED
    BY <1>2, <1>3, <1>5, <1>6, <1>11, <2>1
<1>18. Layout(d, c, a, x, y, t, k, n)
  <2>1. /\ \/ c = atypIPv4 /\ n = V4Len /\ k = 4
           \/ c = atypIPv6 /\ n = V6Len /\ k = 4
           \/ c = atypDomain /\ n \in 1..(Radix - 1) /\ n # 0 /\ k = 5 /\ d[5] = n
    BY <1>2, <1>3, <1>14
  <2> QED
    BY <1>2, <1>5, <1>6, <1>11, <1>12, <1>14, <1>15, <1>16, <1>17, <2>1 DEF Layout
<1>19. Says(d, c, a, x, y, t)
  BY <1>18 DEF Says, k, n
<1> QED
  BY <1>1, <1>9, <1>19 DEF d, w, f

LEMMA HostWritten ==
  ASSUME NEW d, NEW atyp, NEW a, NEW x, NEW y, NEW t, Says(d, atyp, a, x, y, t)
  PROVE  \E c, a2 : WrittenAs(Host(atyp, a), c, a2)
<1> DEFINE k == Before(atyp)
           n == Len(a)
<1>0. k = Before(atyp) /\ n = Len(a)
  OBVIOUS
<1> HIDE DEF k, n
<1>1. Layout(d, atyp, a, x, y, t, k, n)
  BY <1>0 DEF Says
<1>2. /\ a \in Seq(Bytes)
      /\ \/ atyp = atypIPv4 /\ Len(a) = V4Len
         \/ atyp = atypIPv6 /\ Len(a) = V6Len
         \/ atyp = atypDomain /\ Len(a) \in 1..(Radix - 1)
  BY <1>0, <1>1 DEF Layout
<1>3. CASE atyp = atypIPv4 /\ Len(a) = V4Len
  BY <1>2, <1>3, HostIs, V4Written
<1>4. CASE atyp = atypIPv6 /\ Len(a) = V6Len
  BY <1>2, <1>4, HostIs, V6Written
<1>5. CASE atyp = atypDomain /\ Len(a) \in 1..(Radix - 1)
  BY <1>2, <1>5, HostIs, NameWritten
<1> QED
  BY <1>2, <1>3, <1>4, <1>5

LEMMA Decoding ==
  ASSUME NEW d \in Seq(Bytes), \E k, n : Holds(d, k, n)
  PROVE  \E a, x, y, t : /\ Says(d, d[4], a, x, y, t)
                         /\ unwrapUDP(d) = Meaning(d[4], a, x, y, t)
                         /\ unwrapProbe(d) = Meaning(d[4], a, x, y, t)
                         /\ unwrapUDP(d).ok
<1>1. PICK a, x, y, t : Says(d, d[4], a, x, y, t)
  BY Said
<1>2. Meaning(d[4], a, x, y, t).ok
  BY DEF Meaning
<1> QED
  BY <1>1, <1>2, Unwrapped, ProbeUnwrapped

LEMMA SaysTypes ==
  ASSUME NEW d, NEW atyp, NEW a, NEW x, NEW y, NEW t, Says(d, atyp, a, x, y, t)
  PROVE  /\ d \in Seq(Bytes) /\ a \in Seq(Bytes) /\ t \in Seq(Bytes)
         /\ x \in Bytes /\ y \in Bytes
BY DEF Says, Layout

-----------------------------------------------------------------------------
(* A datagram is a sequence of bytes.                                      *)
DatagramInv == b \in Seq(Bytes)

(* What comes in are bytes, whatever the client puts into RSV (server.go,  *)
(* unwrapUDP gets a buffer of bytes).                                      *)
THEOREM DatagramInvariant == Spec => []DatagramInv
<1>1. Init => DatagramInv
  BY DEF Init, DatagramInv
<1>2. DatagramInv /\ [Next]_b => DatagramInv'
  <2>1. Reserved \subseteq Bytes
    BY ReservedAssumption DEF Bytes
  <2>2. ASSUME DatagramInv, NEW x \in Bytes, b' = Append(b, x) PROVE DatagramInv'
    BY <2>2 DEF DatagramInv
  <2>3. ASSUME DatagramInv, UNCHANGED b PROVE DatagramInv'
    BY <2>3 DEF DatagramInv
  <2> QED
    BY <2>1, <2>2, <2>3 DEF Next, Grow, Full
<1> QED
  BY <1>1, <1>2, PTL DEF Spec

(* Host, port and payload of every datagram survive wrapping and           *)
(* unwrapping (server.go, unwrapUDP and wrapUDP).                          *)
THEOREM NothingIsLost == Spec => []RoundTrip
<1>1. DatagramInv => RoundTrip
  <2>1. SUFFICES ASSUME b \in Seq(Bytes), Decoded.ok
                 PROVE  unwrapUDP(wrapUDP(Decoded.host, Decoded.port, Decoded.payload)) = Decoded
    BY DEF DatagramInv, RoundTrip
  <2>2. PICK a, x, y, t : /\ Says(b, b[4], a, x, y, t)
                          /\ Decoded = Meaning(b[4], a, x, y, t)
    BY <2>1, RelayTakes, Decoding DEF Decoded
  <2> DEFINE h == Host(b[4], a)
             w == (<<0, 0, 0>> \o writeTarget(h, x * Radix + y)) \o t
  <2>3. PICK c, a2 : WrittenAs(h, c, a2)
    BY <2>2, HostWritten
  <2>4. Says(w, c, a2, x, y, t)
    <3>1. x \in Bytes /\ y \in Bytes /\ t \in Seq(Bytes) /\ 0 \in Bytes
      BY <2>2, SaysTypes, Lengths
    <3> HIDE DEF h
    <3> QED
      BY <2>3, <3>1, WrittenSays
  <2>5. unwrapUDP(w) = Meaning(c, a2, x, y, t)
    BY <2>4, Unwrapped
  <2>6. Host(c, a2) = h
    BY <2>3 DEF WrittenAs
  <2>7. wrapUDP(Decoded.host, Decoded.port, Decoded.payload) = w
    BY <2>2 DEF Meaning, wrapUDP
  <2> QED
    BY <2>2, <2>5, <2>6, <2>7 DEF Meaning
<1> QED
  BY <1>1, DatagramInvariant, PTL

(* One more byte.                                                          *)
LEMMA OneMore ==
  ASSUME NEW d, NEW atyp, NEW a, NEW x, NEW y, NEW t, Says(d, atyp, a, x, y, t), NEW z \in Bytes
  PROVE  Says(Append(d, z), atyp, a, x, y, Append(t, z))
<1> DEFINE k == Before(atyp)
           n == Len(a)
           e == Append(d, z)
           t2 == Append(t, z)
           m == k + n + 2
<1>0. k = Before(atyp) /\ n = Len(a) /\ m = k + n + 2
  OBVIOUS
<1> HIDE DEF k, n, m
<1>1. Layout(d, atyp, a, x, y, t, k, n)
  BY <1>0 DEF Says
<1>2. /\ d \in Seq(Bytes) /\ t \in Seq(Bytes) /\ Len(d) \in Nat /\ Len(t) \in Nat
      /\ k \in {4, 5} /\ n \in Nat /\ Len(d) = k + n + 2 + Len(t) /\ Len(d) > 5
      /\ \A i \in 1..Len(t) : d[k + n + 2 + i] = t[i]
  BY <1>1 DEF Layout
<1>3. /\ m = k + n + 2 /\ m \in Nat /\ Len(d) = m + Len(t)
      /\ k + n + 1 \in 1..Len(d) /\ k + n + 2 \in 1..Len(d)
      /\ \A i \in 1..n : k + i \in 1..Len(d)
      /\ \A i \in 1..Len(t) : d[m + i] = t[i]
  BY <1>2 DEF m
<1>4. /\ e \in Seq(Bytes) /\ Len(e) = Len(d) + 1 /\ e[Len(d) + 1] = z
      /\ \A i \in 1..Len(d) : e[i] = d[i]
  BY <1>2, <1>3
<1>5. /\ t2 \in Seq(Bytes) /\ Len(t2) = Len(t) + 1 /\ t2[Len(t) + 1] = z
      /\ \A i \in 1..Len(t) : t2[i] = t[i]
  BY <1>2, <1>3
<1> HIDE DEF e, t2
<1>6. \A i \in 1..Len(t2) : e[m + i] = t2[i]
  <2>1. ASSUME NEW i \in 1..Len(t) PROVE e[m + i] = t2[i]
    <3>1. m + i \in 1..Len(d)
      BY <1>2, <1>3
    <3> QED
      BY <1>2, <1>3, <1>4, <1>5, <3>1
  <2>2. e[m + (Len(t) + 1)] = t2[Len(t) + 1]
    <3>1. m + (Len(t) + 1) = Len(d) + 1
      BY <1>2, <1>3
    <3> QED
      BY <1>4, <1>5, <3>1
  <2>3. \A i \in 1..Len(t2) : i \in 1..Len(t) \/ i = Len(t) + 1
    BY <1>2, <1>5
  <2> QED
    BY <2>1, <2>2, <2>3
<1>7. /\ e[3] = d[3] /\ e[4] = d[4] /\ e[5] = d[5]
      /\ e[k + n + 1] = d[k + n + 1] /\ e[k + n + 2] = d[k + n + 2]
      /\ \A i \in 1..n : e[k + i] = d[k + i]
  BY <1>2, <1>3, <1>4
<1>8. Len(e) \in Nat /\ Len(t2) \in Nat /\ Len(e) = k + n + 2 + Len(t2) /\ Len(e) > 5
  BY <1>2, <1>3, <1>4, <1>5
<1>9. Layout(e, atyp, a, x, y, t2, k, n)
  BY <1>0, <1>1, <1>4, <1>5, <1>6, <1>7, <1>8 DEF Layout
<1> QED
  BY <1>0, <1>9 DEF Says, e, t2

(* A datagram that was cut off is dropped or goes where the whole one goes *)
(* (server.go, unwrapUDP; protocol.go, readTarget).                        *)
THEOREM CutOffGoesNowhereElse == Spec => CutOffKeepsTarget
<1> DEFINE Kept == Decoded.ok =>
                     /\ Decoded'.ok
                     /\ Decoded'.host = Decoded.host /\ Decoded'.port = Decoded.port
                     /\ Decoded'.payload = Append(Decoded.payload, b'[Len(b')])
<1>1. DatagramInv /\ [Next]_b => [Kept]_b
  <2>1. SUFFICES ASSUME b \in Seq(Bytes), NEW z \in Bytes, b' = Append(b, z), Decoded.ok
                 PROVE  Kept
    BY ReservedAssumption DEF DatagramInv, Next, Grow, Full, Bytes
  <2>2. PICK a, x, y, t : /\ Says(b, b[4], a, x, y, t)
                          /\ Decoded = Meaning(b[4], a, x, y, t)
    BY <2>1, RelayTakes, Decoding DEF Decoded
  <2>3. Decoded' = Meaning(b[4], a, x, y, Append(t, z))
    BY <2>1, <2>2, OneMore, Unwrapped DEF Decoded
  <2>4. b'[Len(b')] = z
    BY <2>1
  <2> QED
    BY <2>2, <2>3, <2>4 DEF Meaning
<1> QED
  BY <1>1, DatagramInvariant, PTL DEF Spec, CutOffKeepsTarget

-----------------------------------------------------------------------------
(* The probe reads the reply the relay has written.                        *)
LEMMA ReplyRead ==
  ASSUME NEW h, NEW c, NEW a, WrittenAs(h, c, a), NEW x \in Bytes, NEW y \in Bytes,
         NEW code \in Bytes
  PROVE  readReply(<<verSocks5, code, 0>> \o writeTarget(h, x * Radix + y)) =
           [ok |-> TRUE, code |-> code, host |-> h, port |-> x * Radix + y]
<1> DEFINE e == <<verSocks5, code, 0>>
           w == writeTarget(h, x * Radix + y)
           d == e \o w
           s == Drop(d, 4)
           r == Reading(c, a, x, y)
<1>1. verSocks5 \in Bytes /\ 0 \in Bytes /\ <<>> \in Seq(Bytes)
  BY Lengths DEF verSocks5
<1>2. Says(d \o <<>>, c, a, x, y, <<>>) /\ w \in Seq(Bytes)
  <2> HIDE DEF e, w
  <2>1. \A t \in Seq(Bytes) : Says((e \o w) \o t, c, a, x, y, t) /\ w \in Seq(Bytes)
    BY <1>1, WrittenSays DEF e, w
  <2> QED
    BY <1>1, <2>1
<1>3. /\ e \in Seq(Bytes) /\ Len(e) = 3 /\ e[1] = verSocks5 /\ e[2] = code
  BY <1>1
<1> HIDE DEF e, w
<1>4. /\ d \in Seq(Bytes) /\ d[1] = verSocks5 /\ d[2] = code
  <2>1. /\ e \o w \in Seq(Bytes) /\ \A i \in 1..Len(e) : (e \o w)[i] = e[i]
    BY <1>2, <1>3, ConcatIs
  <2> QED
    BY <1>3, <2>1
<1> HIDE DEF d
<1>5. d \o <<>> = d
  BY <1>4
<1>6. Says(d, c, a, x, y, <<>>)
  BY <1>2, <1>5
<1>7. Len(d) > 5 /\ Len(d) \in Nat /\ d[4] = c /\ c \in {atypIPv4, atypIPv6, atypDomain}
  BY <1>6 DEF Says, Layout
<1>8. readTarget(s, c) = r /\ r.ok
  BY <1>6, Behind DEF Reading
<1>9. s # <<>>
  <2>1. Len(s) = Len(d) - 4
    <3>1. 4 \in 0..Len(d)
      BY <1>7
    <3> QED
      BY <1>4, <3>1, DropIs
  <2> QED
    BY <1>7, <2>1
<1> HIDE DEF s, r
<1>10. ~(Len(d) < 4 \/ d[1] # verSocks5)
  BY <1>4, <1>7
<1>11. (CASE c = atypIPv4 -> AddressPort(s, c, V4Len)
          [] c = atypIPv6 -> AddressPort(s, c, V6Len)
          [] c = atypDomain /\ s # <<>> -> AddressPort(Tail(s), c, Head(s))
          [] OTHER -> Error) = r
  <2>1. CASE c = atypIPv4
    BY <1>8, <2>1 DEF readTarget, atypIPv4, atypIPv6, atypDomain
  <2>2. CASE c = atypIPv6
    BY <1>8, <2>2 DEF readTarget, atypIPv4, atypIPv6, atypDomain
  <2>3. CASE c = atypDomain
    <3>1. AddressPort(Tail(s), c, Head(s)) = r
      BY <1>8, <2>3 DEF readTarget, atypIPv4, atypIPv6, atypDomain, Error
    <3> QED
      BY <1>9, <2>3, <3>1 DEF atypIPv4, atypIPv6, atypDomain
  <2> QED
    BY <1>7, <2>1, <2>2, <2>3
<1>12. readReply(d) = [ok |-> TRUE, code |-> code, host |-> r.host, port |-> r.port]
  BY <1>4, <1>7, <1>8, <1>10, <1>11 DEF readReply, s
<1>13. r.host = h /\ r.port = x * Radix + y
  BY DEF r, Reading, WrittenAs
<1> QED
  BY <1>12, <1>13 DEF d, e, w

(* The probe takes a datagram apart as the relay does, and reads code,     *)
(* address and port out of every reply (cmd/relayprobe/main.go).           *)
THEOREM ProbeMeansTheSame == Spec => []ProbeAgrees
<1>1. DatagramInv => ProbeAgrees
  <2> SUFFICES ASSUME b \in Seq(Bytes) PROVE ProbeAgrees
    BY DEF DatagramInv
  <2> DEFINE emptyName == Len(b) > 4 /\ b[4] = atypDomain /\ b[5] = 0
             zeros == [i \in 1..V4Len |-> 0]
  <2>1. ASSUME emptyName PROVE ~Decoded.ok
    <3>1. ASSUME NEW k, NEW n PROVE ~Holds(b, k, n)
      BY <2>1 DEF Holds, atypIPv4, atypIPv6, atypDomain
    <3> QED
      BY <3>1, RelayTakes DEF Decoded
  <2>2. ASSUME ~emptyName PROVE unwrapProbe(b) = Decoded
    <3>1. CASE \E k, n : Holds(b, k, n)
      BY <3>1, Decoding DEF Decoded
    <3>2. CASE ~(\E k, n : Holds(b, k, n))
      <4>1. Decoded = Error
        BY <3>2, RelayTakes DEF Decoded
      <4>2. unwrapProbe(b) = Error
        BY <2>2, <3>2, ProbeTakes
      <4> QED
        BY <4>1, <4>2
    <3> QED
      BY <3>1, <3>2
  <2>3. ASSUME Decoded.ok
        PROVE  /\ readReply(writeReply(0, Decoded.host, Decoded.port))
                     = [ok |-> TRUE, code |-> 0, host |-> Decoded.host, port |-> Decoded.port]
               /\ \A code \in 1..2 :
                    readReply(writeReply(code, Decoded.host, Decoded.port))
                      = [ok |-> TRUE, code |-> code, host |-> V4(zeros), port |-> 0]
    <3>1. PICK a, x, y, t : /\ Says(b, b[4], a, x, y, t)
                            /\ Decoded = Meaning(b[4], a, x, y, t)
      BY <2>3, RelayTakes, Decoding DEF Decoded
    <3>2. PICK c, a2 : WrittenAs(Host(b[4], a), c, a2)
      BY <3>1, HostWritten
    <3>3. x \in Bytes /\ y \in Bytes /\ 0..2 \subseteq Bytes
      BY <3>1, SaysTypes, Lengths
    <3>4. Decoded.host = Host(b[4], a) /\ Decoded.port = x * Radix + y
      BY <3>1 DEF Meaning
    <3>5. readReply(<<verSocks5, 0, 0>> \o writeTarget(Decoded.host, Decoded.port))
            = [ok |-> TRUE, code |-> 0, host |-> Decoded.host, port |-> Decoded.port]
      BY <3>2, <3>3, <3>4, ReplyRead
    <3>6. WrittenAs(V4(zeros), atypIPv4, zeros)
      <4>1. zeros \in Seq(Bytes) /\ Len(zeros) = V4Len
        BY <3>3, Lengths
      <4> QED
        BY <4>1, V4Written
    <3>7. 0 * Radix + 0 = 0
      BY Lengths
    <3>8. ASSUME NEW code \in 1..2
          PROVE  readReply(<<verSocks5, code, 0>> \o writeTarget(V4(zeros), 0))
                   = [ok |-> TRUE, code |-> code, host |-> V4(zeros), port |-> 0]
      <4>1. readReply(<<verSocks5, code, 0>> \o writeTarget(V4(zeros), 0 * Radix + 0))
              = [ok |-> TRUE, code |-> code, host |-> V4(zeros), port |-> 0 * Radix + 0]
        <5>1. code \in Bytes /\ 0 \in Bytes
          BY <3>3
        <5> HIDE DEF zeros
        <5> QED
          BY <3>6, <5>1, ReplyRead
      <4> QED
        BY <3>7, <4>1
    <3> QED
      BY <3>5, <3>8 DEF writeReply
  <2> QED
    BY <2>1, <2>2, <2>3 DEF ProbeAgrees
<1> QED
  BY <1>1, DatagramInvariant, PTL
=============================================================================
