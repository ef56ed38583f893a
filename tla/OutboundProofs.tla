--------------------------- MODULE OutboundProofs ---------------------------
(***************************************************************************)
(* Proofs about Outbound, for any number of dialling goroutines, exits and *)
(* lists of servers.                                                       *)
(***************************************************************************)
EXTENDS Outbound, TLAPS

(* The indexes of the latest n draws from a list, when `next` draws (up to *)
(* a multiple of its length) have been made.                               *)
Drawn(list, next, n) ==
  {i \in 1..Len(list) : IF i <= next THEN next - i < n ELSE next + Len(list) - i < n}

(* What is asked in the attempts a lookup has made, if no one else drew.   *)
AskedInTurn(r, list, next) ==
  /\ r.asked \subseteq Range(list)
  /\ \A i \in Drawn(list, next, Attempts - r.left) : list[i] \in r.asked

(* What is known of a goroutine, given the exit as the kernel (o) and as   *)
(* the snapshot (s) has it, and the counter (n).                           *)
RecordOK(r, o, s, n) ==
  /\ r \in Records
  /\ r.pc = "bind" => r.held # NoExit /\ r.age < TTL
  /\ r.kind = "connect" /\ r.pc \in Looking \cup {"look", "store"} => r.held # NoExit
  /\ r.calm => s = o /\ (r.pc = "bind" /\ r.kind = "egress" => r.held = o)
  /\ r.loose => ~r.calm /\ (r.pc = "asked" \/ (r.pc = "open" /\ r.kind = "egress"))
  /\ r.pc = "look" => r.asked = {}
  /\ r.pc = "draw" => r.left > 0
  /\ r.pc = "unanswered" => r.left = 0
  /\ r.pc = "store" => r.fam \in Families
  /\ r.steady /\ r.pc \in Looking \cup {"unanswered"}
       => AskedInTurn(r, ServersOf(s), n % Len(ServersOf(s)))

OutboundInv ==
  /\ {os, snap} \subseteq Exits \cup {NoExit}
  /\ cache \in Entries \cup {NoEntry} /\ srvIdx \in 0..(Cycle - 1)
  /\ cache # NoEntry => cache.age + cache.left = TTL
  /\ d \in [Dials -> Records]
  /\ \A p \in Dials : RecordOK(d[p], os, snap, srvIdx)

-----------------------------------------------------------------------------
(* Counting up in remainders.                                              *)
LEMMA SuccMod ==
  ASSUME NEW n \in Nat, NEW len \in Nat \ {0}
  PROVE  /\ n % len \in 0..(len - 1)
         /\ (n + 1) % len = IF (n % len) + 1 = len THEN 0 ELSE (n % len) + 1
<1>1. n % len \in 0..(len - 1) /\ (n + 1) % len \in 0..(len - 1)
  OBVIOUS
<1> DEFINE q == n \div len
           r == n % len
           k == (n + 1) \div len
           m == (n + 1) % len
<1>2. n = len * q + r /\ n + 1 = len * k + m /\ q \in Int /\ k \in Int
  OBVIOUS
<1> HIDE DEF q, r, k, m
<1>3. r \in 0..(len - 1) /\ m \in 0..(len - 1)
  BY <1>1 DEF r, m
<1>4. len * (k - q) = r + 1 - m
  BY <1>2, <1>3
<1>5. k - q \in {0, 1}
  <2>1. k - q > 1 => len * (k - q) >= len * 2
    BY <1>2
  <2>2. k - q < 0 => len * (k - q) <= len * (-1)
    BY <1>2
  <2> QED
    BY <1>2, <1>3, <1>4, <2>1, <2>2
<1>6. m = r + 1 \/ m = r + 1 - len
  BY <1>2, <1>3, <1>4, <1>5
<1> QED
  BY <1>1, <1>3, <1>6 DEF r, m

(* The counter that wraps around at Cycle has the remainder it would have  *)
(* without, for every list whose length divides Cycle.                     *)
LEMMA NextServerMod ==
  ASSUME NEW n \in 0..(Cycle - 1), NEW len \in Nat \ {0}, Cycle % len = 0
  PROVE  /\ NextServer(n) \in 0..(Cycle - 1)
         /\ NextServer(n) % len = IF (n % len) + 1 = len THEN 0 ELSE (n % len) + 1
<1>1. Cycle \in Nat \ {0}
  BY ServersAssumption
<1>2. n \in Nat /\ n + 1 \in Nat /\ n + 1 <= Cycle
  BY <1>1
<1>3. (n + 1) % len = IF (n % len) + 1 = len THEN 0 ELSE (n % len) + 1
  BY <1>2, SuccMod
<1>4. NextServer(n) = IF n + 1 = Cycle THEN 0 ELSE n + 1
  <2>1. n + 1 < Cycle => (n + 1) % Cycle = n + 1
    BY <1>1, <1>2
  <2>2. Cycle % Cycle = 0
    BY <1>1
  <2> QED
    BY <1>1, <1>2, <2>1, <2>2 DEF NextServer
<1>5. CASE n + 1 = Cycle
  <2>1. 0 % len = 0
    OBVIOUS
  <2>2. (n + 1) % len = 0
    BY <1>5
  <2> QED
    BY <1>1, <1>3, <1>4, <1>5, <2>1, <2>2
<1>6. CASE n + 1 # Cycle
  BY <1>1, <1>2, <1>3, <1>4, <1>6
<1> QED
  BY <1>5, <1>6

(* The list of the moment is a list lookups can go round.                  *)
LEMMA ServerListType ==
  ASSUME NEW s \in Exits \cup {NoExit}
  PROVE  /\ ServersOf(s) \in Seq(Servers) /\ Len(ServersOf(s)) \in Nat \ {0}
         /\ Cycle % Len(ServersOf(s)) = 0
<1>1. ServersOf(s) \in ServerLists \ {<<>>}
  BY ServersAssumption DEF ServersOf, ServerLists
<1> QED
  BY <1>1, ServersAssumption

(* One more draw, of the server the counter points at.                     *)
LEMMA DrawInTurn ==
  ASSUME NEW list \in Seq(Servers), NEW len \in Nat \ {0}, len = Len(list),
         NEW next \in 0..(len - 1), NEW n \in Nat,
         NEW asked \in SUBSET Range(list),
         \A i \in Drawn(list, next, n) : list[i] \in asked
  PROVE  LET succ == IF next + 1 = len THEN 0 ELSE next + 1
         IN  \A i \in Drawn(list, succ, n + 1) : list[i] \in asked \cup {list[next + 1]}
<1> DEFINE succ == IF next + 1 = len THEN 0 ELSE next + 1
<1>1. SUFFICES ASSUME NEW i \in Drawn(list, succ, n + 1)
               PROVE  i = next + 1 \/ i \in Drawn(list, next, n)
  OBVIOUS
<1>2. i \in 1..len /\ (IF i <= succ THEN succ - i < n + 1 ELSE succ + len - i < n + 1)
  BY DEF Drawn
<1>3. CASE next + 1 = len
  BY <1>2, <1>3 DEF Drawn
<1>4. CASE next + 1 # len
  BY <1>2, <1>4 DEF Drawn
<1> QED
  BY <1>3, <1>4

(* After a full round nothing is left out.                                 *)
LEMMA FullRound ==
  ASSUME NEW list \in Seq(Servers), NEW next \in 0..(Len(list) - 1),
         NEW n \in Nat, n >= Len(list), NEW asked \in SUBSET Range(list),
         \A i \in Drawn(list, next, n) : list[i] \in asked
  PROVE  asked = Range(list)
<1>1. ASSUME NEW i \in 1..Len(list) PROVE i \in Drawn(list, next, n)
  BY <1>1 DEF Drawn
<1>2. Range(list) = {list[i] : i \in 1..Len(list)}
  BY DEF Range
<1> QED
  BY <1>1, <1>2

-----------------------------------------------------------------------------
(* A step of one goroutine, which leaves it in a state it may be in.       *)
LEMMA OneMoves ==
  ASSUME OutboundInv, NEW p \in Dials, NEW r, RecordOK(r, os, snap, srvIdx),
         d' = [d EXCEPT ![p] = r], UNCHANGED <<os, snap, srvIdx>>,
         cache' \in Entries \cup {NoEntry},
         cache' # NoEntry => cache'.age + cache'.left = TTL
  PROVE  OutboundInv'
<1>1. r \in Records
  BY DEF RecordOK
<1>2. d' \in [Dials -> Records]
  BY <1>1 DEF OutboundInv
<1>3. ASSUME NEW q \in Dials PROVE RecordOK(d'[q], os', snap', srvIdx')
  <2>1. os' = os /\ snap' = snap /\ srvIdx' = srvIdx
    OBVIOUS
  <2>2. d'[q] = IF q = p THEN r ELSE d[q]
    BY DEF OutboundInv
  <2> QED
    BY <2>1, <2>2 DEF OutboundInv
<1> QED
  BY <1>2, <1>3 DEF OutboundInv

(* The records a goroutine goes on with are well-formed.                   *)
LEMMA IdleType == Idle \in Records
  BY ServersAssumption, TTLAssumption DEF Idle, Records, Families

LEMMA AddressType ==
  ASSUME OutboundInv, NEW r \in Records, NEW fam \in Families, NEW age \in 0..(TTL - 1),
         ~r.loose, r.kind = "connect" => r.held # NoExit
  PROVE  RecordOK(WithAddress(r, fam, age), os, snap, srvIdx)
<1>1. CASE r.kind = "connect"
  <2> DEFINE w == [Idle EXCEPT !.pc = "bind", !.kind = r.kind, !.held = r.held,
                               !.fam = fam, !.age = age]
  <2>1. w = WithAddress(r, fam, age)
    BY <1>1 DEF WithAddress
  <2>2. age \in 0..TTL /\ age < TTL /\ r.held \in Exits
    BY <1>1, TTLAssumption DEF Records
  <2>3. w \in Records
    BY <1>1, <2>2, IdleType DEF Records, Idle
  <2>4. w.pc = "bind" /\ w.held = r.held /\ w.age = age
        /\ ~w.calm /\ ~w.loose /\ ~w.steady
    BY DEF Idle
  <2> HIDE DEF w
  <2>5. RecordOK(w, os, snap, srvIdx)
    BY <1>1, <2>2, <2>3, <2>4 DEF RecordOK
  <2> QED
    BY <2>1, <2>5
<1>2. CASE r.kind # "connect"
  <2>1. WithAddress(r, fam, age) = [Idle EXCEPT !.pc = "open", !.kind = r.kind, !.loose = r.loose]
    BY <1>2 DEF WithAddress, Ended
  <2>2. WithAddress(r, fam, age) \in Records
    BY <2>1, IdleType DEF Records, Idle
  <2> QED
    BY <2>1, <2>2 DEF RecordOK, Idle, Looking
<1> QED
  BY <1>1, <1>2

LEMMA FailedType ==
  ASSUME NEW r
  PROVE  RecordOK(Failed(r), os, snap, srvIdx)
<1>1. Failed(r) \in Records
  BY IdleType DEF Failed, Idle, Records
<1> QED
  BY <1>1 DEF Failed, RecordOK, Idle, Looking

(* The next attempt of a lookup, or its end.                               *)
LEMMA AttemptType ==
  ASSUME OutboundInv, NEW r, RecordOK(r, os, snap, srvIdx), r.pc \in {"control", "asked"}
  PROVE  RecordOK(AttemptFails(r), os, snap, srvIdx)
<1>1. r \in Records /\ r.left \in Nat
  BY DEF RecordOK, Records
<1>2. CASE r.left > 0
  <2>1. AttemptFails(r) = [r EXCEPT !.pc = "draw", !.loose = FALSE]
    BY <1>2 DEF AttemptFails
  <2>2. AttemptFails(r) \in Records
    BY <1>1, <2>1 DEF Records, Looking
  <2> QED
    BY <1>1, <1>2, <2>1, <2>2 DEF RecordOK, Records, Looking, AskedInTurn
<1>3. CASE r.left = 0
  <2>1. AttemptFails(r) = [r EXCEPT !.pc = "unanswered", !.loose = FALSE]
    BY <1>3 DEF AttemptFails
  <2>2. AttemptFails(r) \in Records
    BY <1>1, <2>1 DEF Records, Looking
  <2> QED
    BY <1>1, <1>3, <2>1, <2>2 DEF RecordOK, Records, Looking, AskedInTurn
<1> QED
  BY <1>1, <1>2, <1>3

(* What a goroutine knows when others draw, or the snapshot changes.       *)
LEMMA NoLongerSteady ==
  ASSUME NEW r, NEW o, NEW s, NEW n, RecordOK(r, o, s, n),
         NEW s2, NEW n2, r.calm => s2 = s
  PROVE  /\ [r EXCEPT !.steady = FALSE] \in Records
         /\ RecordOK([r EXCEPT !.steady = FALSE], o, s2, n2)
<1> DEFINE m == [r EXCEPT !.steady = FALSE]
<1>1. r \in Records
  BY DEF RecordOK
<1>2. m \in Records
  BY <1>1 DEF Records
<1>3. /\ m.pc = r.pc /\ m.kind = r.kind /\ m.held = r.held /\ m.left = r.left
      /\ m.asked = r.asked /\ m.fam = r.fam /\ m.age = r.age
  BY <1>1 DEF Records
<1>4. m.loose = r.loose /\ m.calm = r.calm
  BY <1>1 DEF Records
<1>5. m.steady = FALSE
  BY <1>1 DEF Records
<1> HIDE DEF m
<1>6. RecordOK(m, o, s2, n2)
  BY <1>2, <1>3, <1>4, <1>5 DEF RecordOK
<1> QED
  BY <1>2, <1>6 DEF m

(* And when the exit changes under it.                                     *)
LEMMA NoLongerCalm ==
  ASSUME NEW r, NEW o, NEW s, NEW n, RecordOK(r, o, s, n), NEW o2
  PROVE  /\ [r EXCEPT !.calm = FALSE] \in Records
         /\ RecordOK([r EXCEPT !.calm = FALSE], o2, s, n)
<1> DEFINE m == [r EXCEPT !.calm = FALSE]
<1>1. r \in Records
  BY DEF RecordOK
<1>2. m \in Records
  BY <1>1 DEF Records
<1>3. /\ m.pc = r.pc /\ m.kind = r.kind /\ m.held = r.held /\ m.left = r.left
      /\ m.asked = r.asked /\ m.fam = r.fam /\ m.age = r.age
  BY <1>1 DEF Records
<1>4. m.loose = r.loose /\ m.steady = r.steady /\ m.calm = FALSE
  BY <1>1 DEF Records
<1> HIDE DEF m
<1>5. m.steady /\ m.pc \in Looking \cup {"unanswered"}
        => AskedInTurn(m, ServersOf(s), n % Len(ServersOf(s)))
  BY <1>3, <1>4 DEF RecordOK, AskedInTurn
<1>6. RecordOK(m, o2, s, n)
  BY <1>2, <1>3, <1>4, <1>5 DEF RecordOK
<1> QED
  BY <1>2, <1>6 DEF m

(* A lookup uses, misses, asks and stores (resolver.go:45-118).            *)
LEMMA ResolverStep ==
  ASSUME OutboundInv, NEW p \in Dials, Resolver(p)
  PROVE  OutboundInv'
<1> DEFINE r == d[p]
<1>0. r \in Records /\ RecordOK(r, os, snap, srvIdx)
      /\ {os, snap} \subseteq Exits \cup {NoExit}
      /\ cache \in Entries \cup {NoEntry} /\ (cache # NoEntry => cache.age + cache.left = TTL)
  BY DEF OutboundInv
<1>1. CASE CacheHit(p)
  <2>1. cache \in Entries /\ cache.fam \in Families /\ cache.age \in 0..(TTL - 1)
    BY <1>0, <1>1, TTLAssumption DEF CacheHit, Fresh, Entries
  <2>2. ~r.loose /\ (r.kind = "connect" => r.held # NoExit)
    BY <1>0, <1>1 DEF CacheHit, RecordOK
  <2>3. d' = [d EXCEPT ![p] = WithAddress(r, cache.fam, cache.age)]
        /\ UNCHANGED <<os, snap, cache, srvIdx>>
    BY <1>1 DEF CacheHit
  <2> QED
    BY <1>0, <2>1, <2>2, <2>3, AddressType, OneMoves
<1>2. CASE CacheMiss(p)
  <2> DEFINE m == [r EXCEPT !.pc = "draw", !.left = Attempts, !.steady = TRUE]
             list == ServersOf(snap)
             next == srvIdx % Len(list)
  <2>1. d' = [d EXCEPT ![p] = m] /\ UNCHANGED <<os, snap, srvIdx>> /\ cache' = NoEntry
    BY <1>2 DEF CacheMiss
  <2>2. r.pc = "look" /\ r.asked = {} /\ Attempts \in Nat \ {0}
    BY <1>0, <1>2, ServersAssumption DEF CacheMiss, RecordOK
  <2>3. m \in Records
    <3>1. Attempts \in 0..Attempts
      BY <2>2
    <3> QED
      BY <1>0, <3>1 DEF Records, Looking
  <2>4. /\ m.pc = "draw" /\ m.left = Attempts /\ m.asked = {}
        /\ m.kind = r.kind /\ m.held = r.held
    BY <1>0, <2>2 DEF Records
  <2>5. m.calm = r.calm /\ m.loose = r.loose
    BY <1>0 DEF Records
  <2>6. Len(list) \in Nat \ {0} /\ next \in 0..(Len(list) - 1)
    <3>1. Len(list) \in Nat \ {0} /\ srvIdx \in Nat
      BY ServerListType, ServersAssumption DEF OutboundInv
    <3> QED
      BY <3>1, SuccMod
  <2> HIDE DEF m, list, next
  <2>7. Drawn(list, next, Attempts - m.left) = {}
    BY <2>2, <2>4, <2>6 DEF Drawn
  <2>8. AskedInTurn(m, list, next)
    BY <2>4, <2>7 DEF AskedInTurn
  <2>9. RecordOK(m, os, snap, srvIdx)
    BY <1>0, <2>2, <2>3, <2>4, <2>5, <2>8 DEF RecordOK, Looking, list, next
  <2> QED
    BY <2>1, <2>9, OneMoves
<1>3. CASE Draw(p)
  <2> DEFINE list == ServersOf(snap)
             next == srvIdx % Len(list)
             then == srvIdx' % Len(list)
             m == [r EXCEPT !.pc = "control", !.left = @ - 1,
                            !.asked = @ \cup {list[next + 1]}, !.calm = snap = os]
  <2>1. /\ d' = [q \in Dials |-> IF q # p THEN [d[q] EXCEPT !.steady = FALSE] ELSE m]
        /\ srvIdx' = NextServer(srvIdx) /\ UNCHANGED <<os, snap, cache>>
    BY <1>3 DEF Draw
  <2>2. /\ list \in Seq(Servers) /\ Len(list) \in Nat \ {0} /\ Cycle % Len(list) = 0
        /\ srvIdx \in 0..(Cycle - 1) /\ srvIdx \in Nat
    BY ServerListType, ServersAssumption DEF OutboundInv
  <2>3. next \in 0..(Len(list) - 1)
    BY <2>2, SuccMod
  <2>4. list[next + 1] \in Servers /\ list[next + 1] \in Range(list)
    BY <2>2, <2>3 DEF Range
  <2>5. srvIdx' \in 0..(Cycle - 1) /\ then = IF next + 1 = Len(list) THEN 0 ELSE next + 1
    BY <2>1, <2>2, NextServerMod
  <2>6. r.pc = "draw" /\ r.left \in 1..Attempts
    BY <1>0, <1>3 DEF Draw, RecordOK, Records
  <2> HIDE DEF list, next, then
  <2>7. m \in Records
    <3>1. r.left - 1 \in 0..Attempts
      BY <2>6, ServersAssumption
    <3>2. r.asked \cup {list[next + 1]} \in SUBSET Servers
      BY <1>0, <2>4 DEF Records
    <3> QED
      BY <1>0, <3>1, <3>2 DEF Records, Looking
  <2>8. /\ m.pc = "control" /\ m.left = r.left - 1 /\ m.asked = r.asked \cup {list[next + 1]}
        /\ m.kind = r.kind /\ m.held = r.held
    BY <1>0 DEF Records
  <2>9. (m.calm <=> snap = os) /\ m.loose = r.loose /\ m.steady = r.steady
    BY <1>0 DEF Records
  <2> HIDE DEF m
  <2>10. r.steady => AskedInTurn(m, list, then)
    <3>1. SUFFICES ASSUME r.steady PROVE AskedInTurn(m, list, then)
      OBVIOUS
    <3>2. AskedInTurn(r, list, next)
      BY <1>0, <2>6, <3>1 DEF RecordOK, Looking, list, next
    <3>3. Attempts - m.left = Attempts - r.left + 1 /\ Attempts - r.left \in Nat
      BY <2>6, <2>8, ServersAssumption
    <3>4. \A i \in Drawn(list, then, Attempts - m.left) : list[i] \in m.asked
      <4>1. /\ r.asked \in SUBSET Range(list)
            /\ \A i \in Drawn(list, next, Attempts - r.left) : list[i] \in r.asked
        BY <3>2 DEF AskedInTurn
      <4>2. \A i \in Drawn(list, then, (Attempts - r.left) + 1) :
              list[i] \in r.asked \cup {list[next + 1]}
        <5> DEFINE n == Attempts - r.left
                   len == Len(list)
                   asked == r.asked
        <5>1. n \in Nat /\ len \in Nat \ {0} /\ next \in 0..(len - 1) /\ list \in Seq(Servers)
          BY <2>2, <2>3, <3>3
        <5>2. asked \in SUBSET Range(list) /\ \A i \in Drawn(list, next, n) : list[i] \in asked
          BY <4>1
        <5>3. then = IF next + 1 = len THEN 0 ELSE next + 1
          BY <2>5
        <5>4. len = Len(list)
          OBVIOUS
        <5> HIDE DEF n, len, asked
        <5>5. \A i \in Drawn(list, IF next + 1 = len THEN 0 ELSE next + 1, n + 1) :
                list[i] \in asked \cup {list[next + 1]}
          BY <5>1, <5>2, <5>4, DrawInTurn
        <5> QED
          BY <5>3, <5>5 DEF n, asked
      <4> QED
        BY <2>8, <3>3, <4>2
    <3> QED
      BY <2>4, <2>8, <3>2, <3>4 DEF AskedInTurn
  <2>11. RecordOK(m, os, snap, srvIdx')
    BY <1>0, <2>6, <2>7, <2>8, <2>9, <2>10 DEF RecordOK, Looking, list, then
  <2>12. ASSUME NEW q \in Dials PROVE RecordOK(d'[q], os, snap, srvIdx') /\ d'[q] \in Records
    <3>1. CASE q = p
      BY <2>1, <2>7, <2>11, <3>1
    <3>2. CASE q # p
      <4>1. d'[q] = [d[q] EXCEPT !.steady = FALSE] /\ RecordOK(d[q], os, snap, srvIdx)
        BY <2>1, <3>2 DEF OutboundInv
      <4> QED
        BY <4>1, NoLongerSteady
    <3> QED
      BY <3>1, <3>2
  <2>13. d' \in [Dials -> Records]
    BY <2>1, <2>12
  <2> QED
    BY <1>0, <2>1, <2>5, <2>12, <2>13 DEF OutboundInv
<1>4. CASE Control(p)
  <2>1. r.pc = "control" /\ UNCHANGED <<os, snap, cache, srvIdx>>
        /\ d' = [d EXCEPT ![p] = IF snap = NoExit THEN AttemptFails(r)
                                 ELSE [r EXCEPT !.pc = "asked", !.loose = ~Bound(snap)]]
    BY <1>4 DEF Control
  <2>2. CASE snap = NoExit
    BY <1>0, <2>1, <2>2, AttemptType, OneMoves
  <2>3. CASE snap # NoExit
    <3> DEFINE m == [r EXCEPT !.pc = "asked", !.loose = ~Bound(snap)]
    <3>1. m \in Records
      BY <1>0 DEF Records, Looking
    <3>2. m.loose => ~m.calm
      BY <1>0, <2>3 DEF RecordOK, Bound, Records
    <3>3. RecordOK(m, os, snap, srvIdx)
      BY <1>0, <2>1, <3>1, <3>2 DEF RecordOK, Records, Looking, AskedInTurn
    <3> QED
      BY <1>0, <2>1, <2>3, <3>3, OneMoves
  <2> QED
    BY <2>2, <2>3
<1>5. CASE QueryFails(p)
  <2>1. r.pc = "asked" /\ UNCHANGED <<os, snap, cache, srvIdx>>
        /\ d' = [d EXCEPT ![p] = AttemptFails(r)]
    BY <1>5 DEF QueryFails
  <2> QED
    BY <1>0, <2>1, AttemptType, OneMoves
<1>6. CASE Answered(p)
  <2>1. r.pc = "asked" /\ UNCHANGED <<os, snap, cache, srvIdx>>
    BY <1>6 DEF Answered
  <2>2. PICK fam \in Families :
          d' = [d EXCEPT ![p] = [Idle EXCEPT !.pc = "store", !.kind = r.kind,
                                             !.held = r.held, !.fam = fam]]
    <3>1. \A addrs : Pick(addrs) \in Families
      BY DEF Pick, Families
    <3> QED
      BY <1>6, <3>1 DEF Answered
  <2> DEFINE m == [Idle EXCEPT !.pc = "store", !.kind = r.kind, !.held = r.held, !.fam = fam]
  <2>3. m \in Records
    BY <1>0, IdleType DEF Records, Idle
  <2>4. r.kind = "connect" => r.held # NoExit
    BY <1>0, <2>1 DEF RecordOK, Looking
  <2>5. RecordOK(m, os, snap, srvIdx)
    BY <2>3, <2>4 DEF RecordOK, Idle, Looking
  <2> QED
    BY <1>0, <2>1, <2>2, <2>5, OneMoves
<1>7. CASE StoreAnswer(p)
  <2>1. r.pc = "store" /\ UNCHANGED <<os, snap, srvIdx>>
        /\ cache' = [fam |-> r.fam, age |-> 0, left |-> TTL]
        /\ d' = [d EXCEPT ![p] = WithAddress(r, r.fam, 0)]
    BY <1>7 DEF StoreAnswer
  <2>2. r.fam \in Families /\ ~r.loose /\ (r.kind = "connect" => r.held # NoExit)
    BY <1>0, <2>1 DEF RecordOK
  <2>3. cache' \in Entries /\ cache'.age + cache'.left = TTL /\ 0 \in 0..(TTL - 1)
    BY <2>1, <2>2, TTLAssumption DEF Entries
  <2>4. RecordOK(WithAddress(r, r.fam, 0), os, snap, srvIdx)
    BY <1>0, <2>2, <2>3, AddressType
  <2> QED
    BY <2>1, <2>3, <2>4, OneMoves
<1>8. CASE LookupFails(p)
  <2>1. UNCHANGED <<os, snap, cache, srvIdx>> /\ d' = [d EXCEPT ![p] = Failed(r)]
    BY <1>8 DEF LookupFails
  <2> QED
    BY <1>0, <2>1, FailedType, OneMoves
<1> QED
  BY <1>1, <1>2, <1>3, <1>4, <1>5, <1>6, <1>7, <1>8 DEF Resolver

(* A dial or an egress socket is begun, bound and over (main.go:149-189).  *)
LEMMA BeginStep ==
  ASSUME OutboundInv, NEW p \in Dials,
         BeginDial(p) \/ BeginEgress(p) \/ BeginResolve(p)
  PROVE  OutboundInv'
<1>0. cache \in Entries \cup {NoEntry} /\ (cache # NoEntry => cache.age + cache.left = TTL)
      /\ {os, snap} \subseteq Exits \cup {NoExit}
  BY DEF OutboundInv
<1>1. ASSUME NEW r, Begins(p, r), RecordOK(r, os, snap, srvIdx)
      PROVE  OutboundInv'
  BY <1>0, <1>1, OneMoves DEF Begins
<1>2. CASE BeginDial(p)
  <2> DEFINE r == [Idle EXCEPT !.kind = "connect", !.held = snap]
  <2>1. PICK host \in {"name"} \cup Families :
          Begins(p, IF snap = NoExit THEN Failed(r)
                    ELSE IF host = "name" THEN [r EXCEPT !.pc = "look"]
                    ELSE WithAddress(r, host, 0))
    BY <1>2 DEF BeginDial
  <2>2. r \in Records /\ [r EXCEPT !.pc = "look"] \in Records
    BY <1>0, IdleType DEF Records, Idle
  <2>3. CASE snap = NoExit
    BY <1>1, <2>1, <2>3, FailedType
  <2>4. CASE snap # NoExit /\ host = "name"
    <3>1. RecordOK([r EXCEPT !.pc = "look"], os, snap, srvIdx)
      BY <2>2, <2>4 DEF RecordOK, Idle, Looking
    <3> QED
      BY <1>1, <2>1, <2>4, <3>1
  <2>5. CASE snap # NoExit /\ host # "name"
    <3>1. host \in Families /\ 0 \in 0..(TTL - 1) /\ ~r.loose /\ r.held # NoExit
      BY <2>5, TTLAssumption DEF Idle
    <3>2. RecordOK(WithAddress(r, host, 0), os, snap, srvIdx)
      BY <2>2, <3>1, AddressType
    <3> QED
      BY <1>1, <2>1, <2>5, <3>2
  <2> QED
    BY <2>3, <2>4, <2>5
<1>3. CASE BeginEgress(p)
  <2> DEFINE r == [Idle EXCEPT !.pc = "bind", !.kind = "egress", !.held = snap,
                               !.calm = snap = os]
  <2>1. Begins(p, IF snap = NoExit THEN Failed(r) ELSE r)
    BY <1>3 DEF BeginEgress
  <2>2. CASE snap = NoExit
    BY <1>1, <2>1, <2>2, FailedType
  <2>3. CASE snap # NoExit
    <3>1. r \in Records
      BY <1>0, IdleType DEF Records, Idle
    <3>2. /\ r.pc = "bind" /\ r.kind = "egress" /\ r.held = snap /\ r.age = 0
          /\ (r.calm <=> snap = os) /\ r.loose = FALSE /\ r.steady = FALSE
      BY DEF Idle
    <3> HIDE DEF r
    <3>3. RecordOK(r, os, snap, srvIdx)
      BY <2>3, <3>1, <3>2, TTLAssumption DEF RecordOK, Looking
    <3> QED
      BY <1>1, <2>1, <2>3, <3>3 DEF r
  <2> QED
    BY <2>2, <2>3
<1>4. CASE BeginResolve(p)
  <2> DEFINE r == [Idle EXCEPT !.pc = "look", !.kind = "resolve"]
  <2>1. r \in Records
    BY IdleType DEF Records, Idle
  <2>2. RecordOK(r, os, snap, srvIdx)
    BY <2>1 DEF RecordOK, Idle, Looking
  <2> QED
    BY <1>1, <1>4, <2>2 DEF BeginResolve
<1> QED
  BY <1>2, <1>3, <1>4

LEMMA SocketStep ==
  ASSUME OutboundInv, NEW p \in Dials,
         BindDial(p) \/ DialEnds(p) \/ BindEgress(p) \/ Over(p)
  PROVE  OutboundInv'
<1> DEFINE r == d[p]
<1>0. r \in Records /\ RecordOK(r, os, snap, srvIdx)
      /\ cache \in Entries \cup {NoEntry} /\ (cache # NoEntry => cache.age + cache.left = TTL)
  BY DEF OutboundInv
<1>1. ASSUME NEW m, RecordOK(m, os, snap, srvIdx), d' = [d EXCEPT ![p] = m],
             UNCHANGED <<os, snap, cache, srvIdx>>
      PROVE  OutboundInv'
  BY <1>0, <1>1, OneMoves
<1>2. CASE BindDial(p)
  <2>1. UNCHANGED <<os, snap, cache, srvIdx>>
    BY <1>2 DEF BindDial
  <2>2. CASE Owned(r.held) /\ r.fam = "v4"
    <3> DEFINE m == [Idle EXCEPT !.pc = "dialling", !.kind = r.kind, !.loose = FALSE]
    <3>1. Ended([r EXCEPT !.loose = FALSE], "dialling") = m
      BY <1>0 DEF Ended, Records
    <3>2. d' = [d EXCEPT ![p] = m]
      BY <1>2, <2>2, <3>1 DEF BindDial
    <3>3. m \in Records
      BY <1>0, IdleType DEF Records, Idle
    <3>4. RecordOK(m, os, snap, srvIdx)
      BY <3>3 DEF RecordOK, Idle, Looking
    <3> QED
      BY <1>1, <2>1, <3>2, <3>4
  <2>3. CASE ~(Owned(r.held) /\ r.fam = "v4")
    <3>1. d' = [d EXCEPT ![p] = Failed(r)]
      BY <1>2, <2>3 DEF BindDial
    <3> QED
      BY <1>1, <2>1, <3>1, FailedType
  <2> QED
    BY <2>2, <2>3
<1>3. CASE DialEnds(p)
  <2>1. PICK pc \in {"open", "failed"} : d' = [d EXCEPT ![p] = [r EXCEPT !.pc = pc]]
    BY <1>3 DEF DialEnds
  <2> DEFINE m == [r EXCEPT !.pc = pc]
  <2>2. m \in Records /\ m.pc = pc /\ m.calm = r.calm /\ m.loose = r.loose
    BY <1>0 DEF Records
  <2>3. ~r.loose
    BY <1>0, <1>3 DEF DialEnds, RecordOK
  <2> HIDE DEF m
  <2>4. RecordOK(m, os, snap, srvIdx)
    BY <1>0, <2>2, <2>3 DEF RecordOK, Looking
  <2> QED
    BY <1>1, <1>3, <2>1, <2>4 DEF DialEnds, m
<1>4. CASE BindEgress(p)
  <2> DEFINE m == [r EXCEPT !.pc = "open", !.held = NoExit, !.loose = ~Bound(r.held)]
  <2>1. r.pc = "bind" /\ r.kind = "egress" /\ d' = [d EXCEPT ![p] = m]
        /\ UNCHANGED <<os, snap, cache, srvIdx>>
    BY <1>4 DEF BindEgress
  <2>2. m \in Records
    BY <1>0 DEF Records
  <2>3. m.pc = "open" /\ m.kind = "egress" /\ m.calm = r.calm
        /\ (m.loose <=> ~Bound(r.held))
    BY <1>0, <2>1 DEF Records
  <2>4. m.loose => ~m.calm
    BY <1>0, <2>1, <2>3 DEF RecordOK, Bound
  <2> HIDE DEF m
  <2>5. RecordOK(m, os, snap, srvIdx)
    BY <1>0, <2>1, <2>2, <2>3, <2>4 DEF RecordOK, Looking
  <2> QED
    BY <1>1, <2>1, <2>5
<1>5. CASE Over(p)
  <2>1. RecordOK(Idle, os, snap, srvIdx)
    BY IdleType DEF RecordOK, Idle, Looking
  <2> QED
    BY <1>1, <1>5, <2>1 DEF Over
<1> QED
  BY <1>2, <1>3, <1>4, <1>5

(* The exit changes, the monitor polls, addresses grow old.                *)
LEMMA EnvironmentStep ==
  ASSUME OutboundInv, Redial \/ Poll \/ Tick
  PROVE  OutboundInv'
<1>1. CASE Redial
  <2>1. /\ d' = [p \in Dials |-> [d[p] EXCEPT !.calm = FALSE]]
        /\ UNCHANGED <<snap, cache, srvIdx>> /\ os' \in Exits \cup {NoExit}
    BY <1>1 DEF Redial
  <2>2. ASSUME NEW p \in Dials
        PROVE  d'[p] \in Records /\ RecordOK(d'[p], os', snap', srvIdx')
    BY <2>1, NoLongerCalm DEF OutboundInv
  <2>3. d' \in [Dials -> Records]
    BY <2>1, <2>2
  <2> QED
    BY <2>1, <2>2, <2>3 DEF OutboundInv
<1>2. CASE Poll
  <2>1. /\ d' = [p \in Dials |-> [d[p] EXCEPT !.steady = FALSE]]
        /\ UNCHANGED <<os, cache, srvIdx>> /\ snap' = os /\ snap # os
    BY <1>2 DEF Poll
  <2>2. ASSUME NEW p \in Dials
        PROVE  d'[p] \in Records /\ RecordOK(d'[p], os', snap', srvIdx')
    <3>1. RecordOK(d[p], os, snap, srvIdx)
      BY DEF OutboundInv
    <3>2. ~d[p].calm
      BY <2>1, <3>1 DEF RecordOK
    <3> QED
      BY <2>1, <3>1, <3>2, NoLongerSteady
  <2>3. d' \in [Dials -> Records]
    BY <2>1, <2>2
  <2> QED
    BY <2>1, <2>2, <2>3 DEF OutboundInv
<1>3. CASE Tick
  <2>1. /\ UNCHANGED <<os, snap, srvIdx, d>> /\ cache # NoEntry /\ cache.left > 0
        /\ cache' = [cache EXCEPT !.age = @ + 1, !.left = @ - 1]
    BY <1>3 DEF Tick
  <2>2. cache \in Entries /\ cache.age + cache.left = TTL
    BY <2>1 DEF OutboundInv
  <2>3. cache.age \in 0..TTL /\ cache.left \in 0..TTL
    BY <2>2 DEF Entries
  <2>4. cache.age + 1 \in 0..TTL /\ cache.left - 1 \in 0..TTL
        /\ (cache.age + 1) + (cache.left - 1) = TTL
    BY <2>1, <2>2, <2>3, TTLAssumption
  <2>5. cache' \in Entries /\ cache'.age + cache'.left = TTL
    BY <2>1, <2>2, <2>4 DEF Entries
  <2> QED
    BY <2>1, <2>5 DEF OutboundInv
<1> QED
  BY <1>1, <1>2, <1>3

LEMMA StutterStep ==
  ASSUME OutboundInv, UNCHANGED vars
  PROVE  OutboundInv'
BY DEF OutboundInv, vars

-----------------------------------------------------------------------------
(* What holds of the goroutines that dial, of the cache they share and of  *)
(* the counter they draw their servers with, whatever their number         *)
(* (main.go:149-189, resolver.go).                                         *)
THEOREM OutboundInvariant == Spec => []OutboundInv
<1>1. Init => OutboundInv
  <2>1. SUFFICES ASSUME Init PROVE OutboundInv
    OBVIOUS
  <2>2. RecordOK(Idle, os, snap, srvIdx)
    BY IdleType DEF RecordOK, Idle, Looking
  <2>3. srvIdx \in 0..(Cycle - 1)
    BY <2>1, ServersAssumption DEF Init
  <2> QED
    BY <2>1, <2>2, <2>3, IdleType DEF Init, OutboundInv
<1>2. OutboundInv /\ [Next]_vars => OutboundInv'
  <2>1. SUFFICES ASSUME OutboundInv, [Next]_vars PROVE OutboundInv'
    OBVIOUS
  <2>2. CASE Redial \/ Poll \/ Tick
    BY <2>1, <2>2, EnvironmentStep
  <2>3. ASSUME NEW p \in Handlers, BeginDial(p) PROVE OutboundInv'
    BY <2>1, <2>3, BeginStep DEF Dials
  <2>4. ASSUME NEW p \in Sessions, BeginEgress(p) \/ BeginResolve(p) PROVE OutboundInv'
    BY <2>1, <2>4, BeginStep DEF Dials
  <2>5. ASSUME NEW p \in Dials, Proceed(p) PROVE OutboundInv'
    BY <2>1, <2>5, ResolverStep, SocketStep DEF Proceed
  <2>6. CASE UNCHANGED vars
    BY <2>1, <2>6, StutterStep
  <2> QED
    BY <2>1, <2>2, <2>3, <2>4, <2>5, <2>6 DEF Next
<1> QED
  BY <1>1, <1>2, PTL DEF Spec

(* Goroutines, cache and counter are what the code's types and the order   *)
(* of its steps allow; a socket is bound to the exit only with a snapshot  *)
(* that has one (main.go:149-189, resolver.go).                            *)
THEOREM OutboundTypes == Spec => []TypeOK
<1>1. OutboundInv => TypeOK
  BY DEF OutboundInv, RecordOK, TypeOK
<1> QED
  BY <1>1, OutboundInvariant, PTL

(* A TCP connection is made from the exit only; the sockets of sessions    *)
(* and queries are loose only if the exit changed during their attempt, or *)
(* had changed before it without the monitor having seen it (main.go:      *)
(* 149-189, bind_windows.go:32-46).                                        *)
THEOREM SocketsStayOnExit == Spec => []StaysOnExit
<1>1. OutboundInv => StaysOnExit
  BY DEF OutboundInv, RecordOK, StaysOnExit
<1> QED
  BY <1>1, OutboundInvariant, PTL

(* No address older than 60 s is used, however lookups overwrite each      *)
(* other's entries (resolver.go:93-118).                                   *)
THEOREM CachedAddressesAreRecent == Spec => []AddressesAreRecent
<1>1. OutboundInv => AddressesAreRecent
  BY DEF OutboundInv, RecordOK, AddressesAreRecent
<1> QED
  BY <1>1, OutboundInvariant, PTL

(* With lists of any length, an undisturbed lookup whose attempts go round *)
(* has asked every server when it gives up (resolver.go:67-74).            *)
THEOREM RotationReachesEveryServer == Spec => []EveryServerIsAsked
<1>1. OutboundInv => EveryServerIsAsked
  <2>1. SUFFICES ASSUME OutboundInv, NEW p \in Dials,
                        d[p].pc = "unanswered", d[p].steady,
                        Len(ServersOf(snap)) <= Attempts
                 PROVE  d[p].asked = Range(ServersOf(snap))
    BY DEF EveryServerIsAsked
  <2> DEFINE list == ServersOf(snap)
             next == srvIdx % Len(list)
             asked == d[p].asked
  <2>2. RecordOK(d[p], os, snap, srvIdx)
    BY <2>1 DEF OutboundInv
  <2>3. AskedInTurn(d[p], list, next)
    BY <2>1, <2>2 DEF RecordOK
  <2>4. d[p].left = 0
    BY <2>1, <2>2 DEF RecordOK
  <2>5. /\ list \in Seq(Servers) /\ Len(list) \in Nat \ {0} /\ Len(list) <= Attempts
        /\ srvIdx \in Nat /\ Attempts \in Nat /\ Attempts - 0 = Attempts
    BY <2>1, ServerListType, ServersAssumption DEF OutboundInv
  <2>6. next \in 0..(Len(list) - 1)
    BY <2>5, SuccMod
  <2>7. asked \in SUBSET Range(list) /\ \A i \in Drawn(list, next, Attempts) : list[i] \in asked
    BY <2>3, <2>4, <2>5 DEF AskedInTurn
  <2> HIDE DEF list, next, asked
  <2>8. asked = Range(list)
    <3>1. Attempts >= Len(list) /\ Attempts \in Nat
      BY <2>5
    <3> QED
      BY <2>5, <2>6, <2>7, <3>1, FullRound
  <2> QED
    BY <2>8 DEF list, asked
<1> QED
  BY <1>1, OutboundInvariant, PTL
=============================================================================
