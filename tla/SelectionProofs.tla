--------------------------- MODULE SelectionProofs ---------------------------
(***************************************************************************)
(* Proofs about the selection of module Adapters, for every machine, every *)
(* order of its adapters and every configuration.                          *)
(***************************************************************************)
EXTENDS Selection, WellFoundedInduction, TLAPS

(* A set of naturals has a least member.                                   *)
LEMMA Least ==
  ASSUME NEW T \in SUBSET Nat, T # {}
  PROVE  \E x \in T : \A y \in T : x =< y
<1> DEFINE R == {ss \in Nat \X Nat : ss[1] < ss[2]}
<1>1. IsWellFoundedOn(R, Nat)
  BY NatLessThanWellFounded DEF OpToRel
<1>2. PICK x \in T : \A y \in T : ~ (<<y, x>> \in R)
  <2> HIDE DEF R
  <2> QED
    BY <1>1, WFMin
<1>3. \A y \in T : ~ (y < x)
  BY <1>2
<1> QED
  BY <1>3

-----------------------------------------------------------------------------
(* The first element, if there is one, and none is before it.              *)
LEMMA FirstInFinds ==
  ASSUME NEW s, DOMAIN s \subseteq Nat, NEW T, NEW none, NEW i \in DOMAIN s, s[i] \in T
  PROVE  \E k \in DOMAIN s : /\ s[k] \in T /\ FirstIn(s, T, none) = s[k]
                             /\ \A j \in DOMAIN s : s[j] \in T => k =< j
<1> DEFINE hits == {j \in DOMAIN s : s[j] \in T}
           first == CHOOSE k \in hits : \A j \in hits : k =< j
<1>1. hits # {} /\ hits \in SUBSET Nat
  OBVIOUS
<1>2. first \in hits /\ \A j \in hits : first =< j
  <2>1. \E k \in hits : \A j \in hits : k =< j
    <3> HIDE DEF hits
    <3> QED
      BY <1>1, Least
  <2> QED
    BY <2>1
<1>3. FirstIn(s, T, none) = s[first]
  BY <1>1 DEF FirstIn
<1> HIDE DEF first
<1> QED
  BY <1>2, <1>3

LEMMA FirstInIs ==
  ASSUME NEW s, DOMAIN s \subseteq Nat, NEW T, NEW none, NEW k \in DOMAIN s, s[k] \in T,
         \A j \in DOMAIN s : s[j] \in T => k =< j
  PROVE  FirstIn(s, T, none) = s[k]
<1>1. PICK m \in DOMAIN s : /\ s[m] \in T /\ FirstIn(s, T, none) = s[m]
                            /\ \A j \in DOMAIN s : s[j] \in T => m =< j
  BY FirstInFinds
<1>2. m =< k /\ k =< m /\ m \in Nat /\ k \in Nat
  BY <1>1
<1>3. m = k
  BY <1>2
<1> QED
  BY <1>1, <1>3

LEMMA FirstInNone ==
  ASSUME NEW s, NEW T, NEW none, \A i \in DOMAIN s : s[i] \notin T
  PROVE  FirstIn(s, T, none) = none
BY DEF FirstIn

LEMMA FirstInType ==
  ASSUME NEW s, DOMAIN s \subseteq Nat, NEW T, NEW none
  PROVE  FirstIn(s, T, none) = none \/ FirstIn(s, T, none) \in ToSet(s) \intersect T
<1>1. CASE \A i \in DOMAIN s : s[i] \notin T
  BY <1>1, FirstInNone
<1>2. ASSUME NEW i \in DOMAIN s, s[i] \in T
      PROVE  FirstIn(s, T, none) \in ToSet(s) \intersect T
  <2>1. PICK k \in DOMAIN s : s[k] \in T /\ FirstIn(s, T, none) = s[k]
    BY <1>2, FirstInFinds
  <2> QED
    BY <2>1 DEF ToSet
<1> QED
  BY <1>1, <1>2

(* The only element there is, is the first one.                            *)
LEMMA FirstInUnique ==
  ASSUME NEW s, DOMAIN s \subseteq Nat, NEW T, NEW none, NEW x \in ToSet(s), x \in T,
         \A y \in T : y = x
  PROVE  FirstIn(s, T, none) = x
<1>1. PICK i \in DOMAIN s : s[i] = x
  BY DEF ToSet
<1>2. PICK k \in DOMAIN s : s[k] \in T /\ FirstIn(s, T, none) = s[k]
  BY <1>1, FirstInFinds
<1> QED
  BY <1>2

(* Adapters with a usable address have an index of their own.              *)
LEMMA PoolFields ==
  ASSUME NEW a \in Pool
  PROVE  a.index \in Nat /\ a.wifi \in BOOLEAN /\ a.ppp \in BOOLEAN
BY PoolAssumption DEF AdapterType

Usable(a) == a.up /\ UsableV4(a) # NoIP

LEMMA UsableHasIndex ==
  ASSUME NEW a \in Pool, UsableV4(a) # NoIP
  PROVE  /\ a.index # 0
         /\ \A b \in Pool : b.index = a.index => b = a
<1>1. ASSUME a.v4 = <<>> PROVE UsableV4(a) = NoIP
  BY <1>1, FirstInNone DEF UsableV4
<1> QED
  BY <1>1, PoolAssumption

-----------------------------------------------------------------------------
Only(S, x)   == S = {x}
Values(s, P) == {s[i] : i \in P}

LEMMA OnlyOne ==
  ASSUME NEW S, NEW x, NEW y, Only(S, x), Only(S, y)
  PROVE  x = y
BY DEF Only

(* What sort.Slice puts first.  Best: nothing is less, and no tie.         *)
Best(C, x, w) ==
  x \in C /\ \A y \in C : ~Less(y, x, w) /\ (y = x \/ Less(x, y, w))

LEMMA HeadsAre ==
  ASSUME NEW s, NEW P \in SUBSET DOMAIN s, NEW w, NEW x, Best(Values(s, P), x, w)
  PROVE  Only(Heads(s, P, w), x)
<1>1. PICK i \in P : s[i] = x
  BY DEF Best, Values
<1>2. \A k \in P : ~Less(s[k], s[i], w)
  BY <1>1 DEF Best, Values
<1>3. ASSUME NEW j \in P, \A k \in P : ~Less(s[k], s[j], w) PROVE s[j] = x
  BY <1>1, <1>3 DEF Best, Values
<1> QED
  BY <1>1, <1>2, <1>3 DEF Heads, Only

(* Adapters with indexes of their own have a best one, wherever they stand *)
(* in the slice.                                                           *)
LEMMA BestExists ==
  ASSUME NEW C \in SUBSET Pool, C # {}, NEW w \in BOOLEAN, \A a \in C : UsableV4(a) # NoIP
  PROVE  \E x \in C : Best(C, x, w)
<1> DEFINE W == {a \in C : a.wifi}
           D == IF w /\ W # {} THEN W ELSE C
           indexes == {a.index : a \in D}
<1>1. D \subseteq C /\ D # {}
  OBVIOUS
<1>2. indexes \in SUBSET Nat /\ indexes # {}
  BY <1>1, PoolFields
<1>3. PICK n \in indexes : \A m \in indexes : n =< m
  BY <1>2, Least
<1>4. PICK x \in D : x.index = n
  BY <1>3
<1>5. ASSUME NEW y \in C PROVE ~Less(y, x, w) /\ (y = x \/ Less(x, y, w))
  <2>1. /\ x \in C /\ x.index \in Nat /\ y.index \in Nat
        /\ x.wifi \in BOOLEAN /\ y.wifi \in BOOLEAN
        /\ y.index = x.index => y = x
    BY <1>1, PoolFields, UsableHasIndex
  <2>2. CASE y \in D
    <3>1. x.index =< y.index
      BY <1>3, <1>4, <2>2
    <3>2. ASSUME w PROVE x.wifi = y.wifi
      <4>1. CASE W # {}
        BY <2>1, <2>2, <3>2, <4>1
      <4>2. CASE W = {}
        <5>1. ~x.wifi /\ ~y.wifi
          BY <2>1, <4>2
        <5> QED
          BY <2>1, <5>1
      <4> QED
        BY <4>1, <4>2
    <3>3. w => x.wifi = y.wifi
      BY <3>2
    <3> QED
      BY <2>1, <3>1, <3>3 DEF Less
  <2>3. CASE y \notin D
    <3>1. w /\ x.wifi /\ ~y.wifi
      BY <2>3
    <3> QED
      BY <2>1, <3>1 DEF Less
  <2> QED
    BY <2>2, <2>3
<1> QED
  BY <1>1, <1>5 DEF Best

(* The best one stays the best when others go.                             *)
LEMMA BestKept ==
  ASSUME NEW C, NEW C2 \in SUBSET C, NEW w, NEW x \in C2, Best(C, x, w)
  PROVE  Best(C2, x, w)
BY DEF Best

-----------------------------------------------------------------------------
(* What findByCfg returns.                                                 *)
LEMMA PassType ==
  ASSUME NEW cfg, NEW a
  PROVE  Pass(cfg, a) \in 1..5
BY DEF Pass

LEMMA HitsExist ==
  ASSUME NEW s, NEW cfg, NEW a \in ToSet(s), Pass(cfg, a) < 5
  PROVE  \E b \in ToSet(s) : b \in Hits(s, cfg)
<1> DEFINE passes == {Pass(cfg, b) : b \in ToSet(s)}
<1>1. passes \in SUBSET Nat /\ passes # {}
  BY PassType
<1>2. PICK n \in passes : \A m \in passes : n =< m
  BY <1>1, Least
<1>3. PICK b \in ToSet(s) : Pass(cfg, b) = n
  BY <1>2
<1>4. Pass(cfg, b) =< Pass(cfg, a)
  BY <1>2, <1>3
<1>5. Pass(cfg, b) < 5
  BY <1>4, PassType
<1> QED
  BY <1>2, <1>3, <1>5 DEF Hits

LEMMA FindByCfgType ==
  ASSUME NEW s \in Seq(Pool), NEW cfg
  PROVE  FindByCfg(s, cfg) \in ToSet(s) \cup {NoAdapter}
<1>1. DOMAIN s \subseteq Nat
  OBVIOUS
<1>2. FirstIn(s, Hits(s, cfg), NoAdapter) \in ToSet(s) \cup {NoAdapter}
  BY <1>1, FirstInType
<1> QED
  BY <1>2 DEF FindByCfg

LEMMA Listed ==
  ASSUME NEW s \in Seq(Pool)
  PROVE  ToSet(s) \subseteq Pool /\ NoAdapter \notin ToSet(s)
BY PoolAssumption DEF ToSet

-----------------------------------------------------------------------------
(* pickLAN and pickWAN as functions of the set of adapters listed.         *)
LANSet(s)      == {a \in ToSet(s) : LANFit(a)}
WANSet(s, lan) == {a \in ToSet(s) : WANFit(a, lan)}

LEMMA LANSetType ==
  ASSUME NEW s \in Seq(Pool)
  PROVE  /\ LANSet(s) \in SUBSET Pool /\ LANSet(s) \subseteq ToSet(s)
         /\ \A a \in LANSet(s) : Usable(a) /\ ~a.ppp
<1>1. ASSUME NEW a, RoutablePrivate(a) # NoIP PROVE UsableV4(a) # NoIP
  BY <1>1 DEF RoutablePrivate, NoIP
<1> QED
  BY <1>1, Listed DEF LANSet, LANFit, Usable

LEMMA WANSetType ==
  ASSUME NEW s \in Seq(Pool), NEW lan
  PROVE  /\ WANSet(s, lan) \in SUBSET Pool /\ WANSet(s, lan) \subseteq ToSet(s)
         /\ \A a \in WANSet(s, lan) : Usable(a)
BY Listed DEF WANSet, WANFit, Usable

LEMMA PickLANNamed ==
  ASSUME NEW s, NEW cfg, FindByCfg(s, cfg) # NoAdapter
  PROVE  Only(PickLAN(s, cfg), TakeExplicit(FindByCfg(s, cfg)))
BY DEF PickLAN, Only

LEMMA PickLANIs ==
  ASSUME NEW s \in Seq(Pool), NEW cfg, FindByCfg(s, cfg) = NoAdapter
  PROVE  /\ LANSet(s) = {} => Only(PickLAN(s, cfg), NoAdapter)
         /\ \A x : Best(LANSet(s), x, TRUE) => Only(PickLAN(s, cfg), x)
<1> DEFINE cands == {i \in DOMAIN s : LANFit(s[i])}
<1>1. Values(s, cands) = LANSet(s)
  BY DEF LANSet, ToSet, Values
<1>2. PickLAN(s, cfg) = IF cands = {} THEN {NoAdapter} ELSE Heads(s, cands, TRUE)
  BY DEF PickLAN
<1>3. cands \in SUBSET DOMAIN s
  OBVIOUS
<1> HIDE DEF cands
<1>4. ASSUME NEW x, Best(LANSet(s), x, TRUE) PROVE Only(PickLAN(s, cfg), x)
  <2>1. Only(Heads(s, cands, TRUE), x)
    BY <1>1, <1>3, <1>4, HeadsAre
  <2>2. cands # {}
    BY <1>1, <1>4 DEF Best, Values
  <2> QED
    BY <1>2, <2>1, <2>2
<1>5. ASSUME LANSet(s) = {} PROVE Only(PickLAN(s, cfg), NoAdapter)
  <2>1. cands = {}
    BY <1>1, <1>5 DEF Values
  <2> QED
    BY <1>2, <2>1 DEF Only
<1> QED
  BY <1>4, <1>5

LEMMA PickLANExists ==
  ASSUME NEW s \in Seq(Pool), NEW cfg
  PROVE  \E x : /\ Only(PickLAN(s, cfg), x)
                /\ x # NoAdapter => x \in ToSet(s) /\ Usable(x)
                /\ FindByCfg(s, cfg) = NoAdapter /\ x # NoAdapter => Best(LANSet(s), x, TRUE)
<1>1. CASE FindByCfg(s, cfg) # NoAdapter
  <2>1. FindByCfg(s, cfg) \in ToSet(s)
    BY <1>1, FindByCfgType
  <2> QED
    BY <1>1, <2>1, PickLANNamed DEF TakeExplicit, Usable
<1>2. CASE FindByCfg(s, cfg) = NoAdapter /\ LANSet(s) = {}
  BY <1>2, PickLANIs
<1>3. CASE FindByCfg(s, cfg) = NoAdapter /\ LANSet(s) # {}
  <2>1. \A a \in LANSet(s) : UsableV4(a) # NoIP
    BY LANSetType DEF Usable
  <2>2. PICK x \in LANSet(s) : Best(LANSet(s), x, TRUE)
    BY <1>3, <2>1, LANSetType, BestExists
  <2> QED
    BY <1>3, <2>2, PickLANIs, LANSetType
<1> QED
  BY <1>1, <1>2, <1>3

LEMMA PickLANType ==
  ASSUME NEW s \in Seq(Pool), NEW cfg, NEW x, Only(PickLAN(s, cfg), x)
  PROVE  /\ x # NoAdapter => x \in ToSet(s) /\ Usable(x)
         /\ FindByCfg(s, cfg) = NoAdapter /\ x # NoAdapter => Best(LANSet(s), x, TRUE)
<1>1. PICK y : /\ Only(PickLAN(s, cfg), y)
               /\ y # NoAdapter => y \in ToSet(s) /\ Usable(y)
               /\ FindByCfg(s, cfg) = NoAdapter /\ y # NoAdapter => Best(LANSet(s), y, TRUE)
  BY PickLANExists
<1>2. x = y
  BY <1>1, OnlyOne
<1> QED
  BY <1>1, <1>2

LEMMA PickWANNamed ==
  ASSUME NEW s, NEW cfg, NEW lan, FindByCfg(s, cfg) # NoAdapter
  PROVE  Only(PickWAN(s, cfg, lan), TakeExplicit(FindByCfg(s, cfg)))
BY DEF PickWAN, Only

Single(C) == \E x : Only(C, x)

LEMMA PickWANIs ==
  ASSUME NEW s \in Seq(Pool), IsInjective(s), NEW cfg, NEW lan,
         FindByCfg(s, cfg) = NoAdapter
  PROVE  LET all == WANSet(s, lan)
             ppp == {a \in all : a.ppp}
             dns == {a \in all : a.dns}
         IN  /\ \A x : Best(ppp, x, FALSE) => Only(PickWAN(s, cfg, lan), x)
             /\ ppp = {} =>
                  /\ Single(all) => PickWAN(s, cfg, lan) = all
                  /\ ~Single(all) =>
                       /\ \A x : Best(dns, x, FALSE) => Only(PickWAN(s, cfg, lan), x)
                       /\ dns = {} => Only(PickWAN(s, cfg, lan), NoAdapter)
<1> DEFINE all  == WANSet(s, lan)
           ppp  == {a \in all : a.ppp}
           dns  == {a \in all : a.dns}
           allI == {i \in DOMAIN s : WANFit(s[i], lan)}
           pppI == {i \in allI : s[i].ppp}
           dnsI == {i \in allI : s[i].dns}
           wan  == PickWAN(s, cfg, lan)
<1>1. Values(s, allI) = all
  BY DEF WANSet, ToSet, Values
<1>2. Values(s, pppI) = ppp /\ Values(s, dnsI) = dns
  BY <1>1 DEF Values
<1>3. pppI \in SUBSET DOMAIN s /\ dnsI \in SUBSET DOMAIN s /\ allI \in SUBSET DOMAIN s
  OBVIOUS
<1>4. wan = IF pppI # {} THEN Heads(s, pppI, FALSE)
            ELSE IF \E i \in allI : allI = {i} THEN Values(s, allI)
            ELSE IF dnsI # {} THEN Heads(s, dnsI, FALSE) ELSE {NoAdapter}
  BY DEF PickWAN, Values
<1>5. (\E i \in allI : allI = {i}) <=> Single(all)
  <2>1. ASSUME NEW i \in allI, allI = {i} PROVE Single(all)
    <3>1. Only(Values(s, allI), s[i])
      BY <2>1 DEF Values, Only
    <3> QED
      BY <1>1, <3>1 DEF Single
  <2>2. ASSUME NEW x, Only(all, x) PROVE \E i \in allI : allI = {i}
    <3>1. PICK i \in allI : s[i] = x
      BY <1>1, <2>2 DEF Values, Only
    <3>2. \A j \in allI : s[j] = x
      BY <1>1, <2>2 DEF Values, Only
    <3>3. \A j \in allI : j = i
      BY <1>3, <3>1, <3>2 DEF IsInjective
    <3> QED
      BY <3>1, <3>3
  <2> QED
    BY <2>1, <2>2 DEF Single
<1>6. (pppI = {} <=> ppp = {}) /\ (dnsI = {} <=> dns = {})
  BY <1>2 DEF Values
<1> HIDE DEF all, ppp, dns, allI, pppI, dnsI, wan
<1>7. ASSUME NEW x, Best(ppp, x, FALSE) PROVE Only(wan, x)
  <2>1. Only(Heads(s, pppI, FALSE), x)
    BY <1>2, <1>3, <1>7, HeadsAre
  <2>2. pppI # {}
    BY <1>6, <1>7 DEF Best
  <2> QED
    BY <1>4, <2>1, <2>2
<1>8. ASSUME ppp = {}, ~Single(all), NEW x, Best(dns, x, FALSE) PROVE Only(wan, x)
  <2>1. Only(Heads(s, dnsI, FALSE), x)
    BY <1>2, <1>3, <1>8, HeadsAre
  <2>2. dnsI # {}
    BY <1>6, <1>8 DEF Best
  <2> QED
    BY <1>4, <1>5, <1>6, <1>8, <2>1, <2>2
<1>9. ppp = {} /\ Single(all) => wan = all
  BY <1>1, <1>4, <1>5, <1>6
<1>10. ppp = {} /\ ~Single(all) /\ dns = {} => Only(wan, NoAdapter)
  BY <1>4, <1>5, <1>6 DEF Only
<1> QED
  BY <1>7, <1>8, <1>9, <1>10 DEF wan, all, ppp, dns

(* On auto the outbound adapter is the best dial-up, else the only         *)
(* candidate, else the best one with DNS servers, else none.               *)
WANChoice(C, x) ==
  LET ppp == {a \in C : a.ppp}
      dns == {a \in C : a.dns}
  IN  \/ Best(ppp, x, FALSE)
      \/ ppp = {} /\ Only(C, x)
      \/ ppp = {} /\ ~Single(C) /\ Best(dns, x, FALSE)
      \/ ppp = {} /\ ~Single(C) /\ dns = {} /\ x = NoAdapter

LEMMA PickWANChoice ==
  ASSUME NEW s \in Seq(Pool), IsInjective(s), NEW cfg, NEW lan, NEW x,
         FindByCfg(s, cfg) = NoAdapter, WANChoice(WANSet(s, lan), x)
  PROVE  Only(PickWAN(s, cfg, lan), x)
<1> DEFINE all == WANSet(s, lan)
           ppp == {a \in all : a.ppp}
           dns == {a \in all : a.dns}
           wan == PickWAN(s, cfg, lan)
<1>1. /\ \A y : Best(ppp, y, FALSE) => Only(wan, y)
      /\ ppp = {} /\ Single(all) => wan = all
      /\ ppp = {} /\ ~Single(all) => \A y : Best(dns, y, FALSE) => Only(wan, y)
      /\ ppp = {} /\ ~Single(all) /\ dns = {} => Only(wan, NoAdapter)
  BY PickWANIs
<1>2. \/ Best(ppp, x, FALSE)
      \/ ppp = {} /\ Only(all, x)
      \/ ppp = {} /\ ~Single(all) /\ Best(dns, x, FALSE)
      \/ ppp = {} /\ ~Single(all) /\ dns = {} /\ x = NoAdapter
  BY DEF WANChoice
<1>3. Only(all, x) => Single(all)
  BY DEF Single
<1> HIDE DEF all, ppp, dns, wan
<1>4. Only(wan, x)
  BY <1>1, <1>2, <1>3
<1> QED
  BY <1>4 DEF wan

LEMMA WANChoiceExists ==
  ASSUME NEW C \in SUBSET Pool, \A a \in C : UsableV4(a) # NoIP
  PROVE  \E x \in C \cup {NoAdapter} : WANChoice(C, x)
<1> DEFINE ppp == {a \in C : a.ppp}
           dns == {a \in C : a.dns}
<1>1. CASE ppp # {}
  <2>1. PICK x \in ppp : Best(ppp, x, FALSE)
    BY <1>1, BestExists
  <2> QED
    BY <2>1 DEF WANChoice
<1>2. CASE ppp = {} /\ Single(C)
  <2>1. PICK x : Only(C, x)
    BY <1>2 DEF Single
  <2>2. x \in C
    BY <2>1 DEF Only
  <2> QED
    BY <1>2, <2>1, <2>2 DEF WANChoice
<1>3. CASE ppp = {} /\ ~Single(C) /\ dns # {}
  <2>1. PICK x \in dns : Best(dns, x, FALSE)
    BY <1>3, BestExists
  <2> QED
    BY <1>3, <2>1 DEF WANChoice
<1>4. CASE ppp = {} /\ ~Single(C) /\ dns = {}
  BY <1>4 DEF WANChoice
<1> QED
  BY <1>1, <1>2, <1>3, <1>4

LEMMA PickWANExists ==
  ASSUME NEW s \in Seq(Pool), IsInjective(s), NEW cfg, NEW lan
  PROVE  \E x : /\ Only(PickWAN(s, cfg, lan), x)
                /\ x # NoAdapter => x \in ToSet(s) /\ Usable(x)
                /\ FindByCfg(s, cfg) = NoAdapter =>
                     /\ WANChoice(WANSet(s, lan), x)
                     /\ x \in WANSet(s, lan) \cup {NoAdapter}
<1>1. CASE FindByCfg(s, cfg) # NoAdapter
  <2>1. FindByCfg(s, cfg) \in ToSet(s)
    BY <1>1, FindByCfgType
  <2> QED
    BY <1>1, <2>1, PickWANNamed DEF TakeExplicit, Usable
<1>2. CASE FindByCfg(s, cfg) = NoAdapter
  <2>1. \A a \in WANSet(s, lan) : UsableV4(a) # NoIP
    BY WANSetType DEF Usable
  <2>2. PICK x \in WANSet(s, lan) \cup {NoAdapter} : WANChoice(WANSet(s, lan), x)
    BY <2>1, WANSetType, WANChoiceExists
  <2> QED
    BY <1>2, <2>2, PickWANChoice, WANSetType
<1> QED
  BY <1>1, <1>2

LEMMA PickWANType ==
  ASSUME NEW s \in Seq(Pool), IsInjective(s), NEW cfg, NEW lan, NEW x,
         Only(PickWAN(s, cfg, lan), x)
  PROVE  /\ x # NoAdapter => x \in ToSet(s) /\ Usable(x)
         /\ FindByCfg(s, cfg) = NoAdapter =>
              /\ WANChoice(WANSet(s, lan), x)
              /\ x \in WANSet(s, lan) \cup {NoAdapter}
<1>1. PICK y : /\ Only(PickWAN(s, cfg, lan), y)
               /\ y # NoAdapter => y \in ToSet(s) /\ Usable(y)
               /\ FindByCfg(s, cfg) = NoAdapter =>
                    /\ WANChoice(WANSet(s, lan), y)
                    /\ y \in WANSet(s, lan) \cup {NoAdapter}
  BY PickWANExists
<1>2. x = y
  BY <1>1, OnlyOne
<1> QED
  BY <1>1, <1>2

(* What one poll makes of an enumeration is one snapshot.                  *)
LEMMA SnapshotsAre ==
  ASSUME NEW s, NEW c1, NEW c2, NEW lan, NEW wan,
         Only(PickLAN(s, c1), lan), Only(PickWAN(s, c2, lan), wan)
  PROVE  Only(Snapshots(s, c1, c2), [lan |-> lan, wan |-> wan])
<1>1. \A x : x \in Snapshots(s, c1, c2) <=>
           \E l \in PickLAN(s, c1) : \E w \in PickWAN(s, c2, l) : x = [lan |-> l, wan |-> w]
  BY DEF Snapshots
<1> QED
  BY <1>1 DEF Only

LEMMA OneSnapshot ==
  ASSUME NEW s \in Seq(Pool), IsInjective(s), NEW c1, NEW c2
  PROVE  \E lan, wan : /\ Only(PickLAN(s, c1), lan) /\ Only(PickWAN(s, c2, lan), wan)
                       /\ Only(Snapshots(s, c1, c2), [lan |-> lan, wan |-> wan])
<1>1. PICK lan : Only(PickLAN(s, c1), lan)
  BY PickLANExists
<1>2. PICK wan : Only(PickWAN(s, c2, lan), wan)
  BY PickWANExists
<1> QED
  BY <1>1, <1>2, SnapshotsAre

-----------------------------------------------------------------------------
(* Enumerations list adapters of the machine, each once                    *)
(* (fetch_windows.go:36-63).                                               *)
THEOREM SelectionTypes == Spec => []TypeOK
<1>1. Init => TypeOK
  <2>1. ASSUME Init PROVE ads \in Seq(Pool) /\ DOMAIN ads = {}
    BY <2>1 DEF Init
  <2> QED
    BY <2>1 DEF Init, TypeOK, IsInjective
<1>2. TypeOK /\ [Next]_vars => TypeOK'
  <2>1. SUFFICES ASSUME TypeOK, [Next]_vars PROVE TypeOK'
    OBVIOUS
  <2>2. ASSUME NEW a \in Pool, a \notin ToSet(ads), ads' = Append(ads, a),
               UNCHANGED <<cfgListen, cfgWAN>>
        PROVE  TypeOK'
    <3>1. /\ ads' \in Seq(Pool) /\ Len(ads) \in Nat
          /\ DOMAIN ads' = 1..Len(ads) + 1 /\ DOMAIN ads = 1..Len(ads)
          /\ ads'[Len(ads) + 1] = a /\ \A i \in DOMAIN ads : ads'[i] = ads[i]
      BY <2>1, <2>2 DEF TypeOK
    <3>2. \A i \in DOMAIN ads' : i \in DOMAIN ads \/ i = Len(ads) + 1
      BY <3>1
    <3>3. \A i \in DOMAIN ads : ads'[i] # a
      BY <2>2, <3>1 DEF ToSet
    <3>4. \A i, j \in DOMAIN ads : ads[i] = ads[j] => i = j
      BY <2>1 DEF TypeOK, IsInjective
    <3>5. IsInjective(ads)'
      BY <3>1, <3>2, <3>3, <3>4 DEF IsInjective
    <3> QED
      BY <2>1, <2>2, <3>1, <3>5 DEF TypeOK
  <2>3. CASE UNCHANGED vars
    BY <2>1, <2>3 DEF TypeOK, vars
  <2> QED
    BY <2>1, <2>2, <2>3 DEF Next, FetchOne, FetchDone
<1> QED
  BY <1>1, <1>2, PTL DEF Spec

(* Whatever machine and configuration, the adapters a poll chooses are     *)
(* connected and have an address to talk from (netmon.go, pickLAN and      *)
(* pickWAN).                                                               *)
THEOREM ChoiceIsUsable == Spec => []ChosenIsUsable
<1>1. TypeOK => ChosenIsUsable
  <2>1. SUFFICES ASSUME ads \in Seq(Pool), IsInjective(ads)
                 PROVE  \A s \in Polled : \A a \in {s.lan, s.wan} \ {NoAdapter} :
                          a \in ToSet(ads) /\ Usable(a)
    BY DEF TypeOK, ChosenIsUsable, Usable
  <2>2. PICK lan, wan : /\ Only(PickLAN(ads, cfgListen), lan)
                        /\ Only(PickWAN(ads, cfgWAN, lan), wan)
                        /\ Only(Polled, [lan |-> lan, wan |-> wan])
    BY <2>1, OneSnapshot DEF Polled
  <2>3. lan # NoAdapter => lan \in ToSet(ads) /\ Usable(lan)
    BY <2>1, <2>2, PickLANType
  <2>4. wan # NoAdapter => wan \in ToSet(ads) /\ Usable(wan)
    BY <2>1, <2>2, PickWANType
  <2> QED
    BY <2>2, <2>3, <2>4 DEF Only
<1> QED
  BY <1>1, SelectionTypes, PTL

(* On auto, a connected dial-up adapter carries the traffic, and traffic   *)
(* never goes out where the relay listens (netmon.go, pickLAN and pickWAN).*)
THEOREM DialUpCarries == Spec => []DialUpCarriesTraffic
<1>1. TypeOK => DialUpCarriesTraffic
  <2>1. SUFFICES ASSUME ads \in Seq(Pool), IsInjective(ads), cfgListen.auto, cfgWAN.auto,
                        NEW s \in Polled
                 PROVE  /\ (\E a \in ToSet(ads) : /\ a.ppp /\ a.up /\ UsableV4(a) # NoIP
                                                    /\ FirstV4(a.v4).kind # "loopback") => s.wan.ppp
                        /\ Ready(s) => s.lan # s.wan
    BY DEF TypeOK, DialUpCarriesTraffic
  <2>2. PICK lan, wan : /\ Only(PickLAN(ads, cfgListen), lan)
                        /\ Only(PickWAN(ads, cfgWAN, lan), wan)
                        /\ Only(Polled, [lan |-> lan, wan |-> wan])
    BY <2>1, OneSnapshot DEF Polled
  <2>3. s.lan = lan /\ s.wan = wan
    BY <2>1, <2>2 DEF Only
  <2>4. FindByCfg(ads, cfgListen) = NoAdapter /\ FindByCfg(ads, cfgWAN) = NoAdapter
    BY <2>1 DEF FindByCfg
  <2>5. lan # NoAdapter => lan \in LANSet(ads)
    BY <2>1, <2>2, <2>4, PickLANType DEF Best
  <2>6. /\ WANChoice(WANSet(ads, lan), wan)
        /\ wan \in WANSet(ads, lan) \cup {NoAdapter}
    BY <2>1, <2>2, <2>4, PickWANType
  <2>7. ASSUME NEW a \in ToSet(ads), a.ppp, a.up, UsableV4(a) # NoIP,
               FirstV4(a.v4).kind # "loopback"
        PROVE  wan.ppp
    <3>1. lan # NoAdapter => a # lan /\ lan \in Pool
      BY <2>1, <2>5, <2>7, LANSetType
    <3>2. lan # NoAdapter => a.index # lan.index
      BY <2>1, <2>7, <3>1, Listed, UsableHasIndex
    <3>3. a \in WANSet(ads, lan)
      BY <2>7, <3>2 DEF WANSet, WANFit
    <3>4. Best({b \in WANSet(ads, lan) : b.ppp}, wan, FALSE)
      BY <2>6, <2>7, <3>3 DEF WANChoice
    <3> QED
      BY <3>4 DEF Best
  <2>8. lan # NoAdapter /\ wan # NoAdapter => lan # wan
    BY <2>6 DEF WANSet, WANFit
  <2> QED
    BY <2>3, <2>7, <2>8 DEF Ready
<1> QED
  BY <1>1, SelectionTypes, PTL

-----------------------------------------------------------------------------
(* The same adapters in another order.                                     *)
LEMMA PermutedIs ==
  ASSUME NEW s \in Seq(Pool), IsInjective(s), NEW p \in Bijection(DOMAIN s, DOMAIN s)
  PROVE  LET t == [i \in DOMAIN s |-> s[p[i]]]
         IN  t \in Seq(Pool) /\ IsInjective(t) /\ ToSet(t) = ToSet(s)
<1> DEFINE t == [i \in DOMAIN s |-> s[p[i]]]
<1>1. /\ \A i \in DOMAIN s : p[i] \in DOMAIN s
      /\ \A i \in DOMAIN s : \E j \in DOMAIN s : p[j] = i
      /\ \A i, j \in DOMAIN s : p[i] = p[j] => i = j
  BY DEF Bijection, Surjection, Injection, IsInjective
<1>2. t \in Seq(Pool)
  <2>1. DOMAIN s = 1..Len(s) /\ Len(s) \in Nat
    OBVIOUS
  <2>2. \A i \in 1..Len(s) : s[p[i]] \in Pool
    BY <1>1, <2>1
  <2> QED
    BY <2>1, <2>2
<1>3. IsInjective(t)
  BY <1>1 DEF IsInjective
<1>4. ToSet(t) = ToSet(s)
  <2>1. ASSUME NEW i \in DOMAIN s PROVE t[i] \in ToSet(s)
    BY <1>1 DEF ToSet
  <2>2. ASSUME NEW i \in DOMAIN s PROVE s[i] \in ToSet(t)
    <3>1. PICK j \in DOMAIN s : p[j] = i
      BY <1>1
    <3>2. t[j] = s[i] /\ j \in DOMAIN t
      BY <3>1
    <3> QED
      BY <3>2 DEF ToSet
  <2>3. DOMAIN t = DOMAIN s
    OBVIOUS
  <2> QED
    BY <2>1, <2>2, <2>3 DEF ToSet
<1> QED
  BY <1>2, <1>3, <1>4

LEMMA FindByCfgPermuted ==
  ASSUME NEW s \in Seq(Pool), NEW t \in Seq(Pool), ToSet(t) = ToSet(s), NEW cfg,
         cfg.auto \/ \A a, b \in Hits(s, cfg) : a = b
  PROVE  FindByCfg(t, cfg) = FindByCfg(s, cfg)
<1>1. Hits(t, cfg) = Hits(s, cfg)
  BY DEF Hits
<1>2. DOMAIN s \subseteq Nat /\ DOMAIN t \subseteq Nat
  OBVIOUS
<1>3. CASE cfg.auto
  BY <1>3 DEF FindByCfg
<1>4. ASSUME ~cfg.auto, NEW x \in Hits(s, cfg)
      PROVE  FindByCfg(t, cfg) = FindByCfg(s, cfg)
  <2>1. x \in ToSet(s) /\ \A y \in Hits(s, cfg) : y = x
    BY <1>4 DEF Hits
  <2> QED
    BY <1>1, <1>2, <1>4, <2>1, FirstInUnique DEF FindByCfg
<1>5. CASE Hits(s, cfg) = {}
  BY <1>1, <1>5, FirstInNone DEF FindByCfg
<1> QED
  BY <1>3, <1>4, <1>5

(* The order of the enumeration and the ties of an unstable sort make no   *)
(* difference, as long as the configuration is not ambiguous itself        *)
(* (netmon.go:121-249).                                                    *)
THEOREM OrderIsIgnored == Spec => []SelectionIgnoresOrder
<1>1. TypeOK => SelectionIgnoresOrder
  <2>1. SUFFICES ASSUME ads \in Seq(Pool), IsInjective(ads),
                        Unambiguous(cfgListen), Unambiguous(cfgWAN)
                 PROVE  \E s \in Polled : \A p \in Bijection(DOMAIN ads, DOMAIN ads) :
                          Snapshots([i \in DOMAIN ads |-> ads[p[i]]], cfgListen, cfgWAN) = {s}
    BY DEF TypeOK, SelectionIgnoresOrder
  <2>2. PICK lan, wan : /\ Only(PickLAN(ads, cfgListen), lan)
                        /\ Only(PickWAN(ads, cfgWAN, lan), wan)
                        /\ Only(Polled, [lan |-> lan, wan |-> wan])
    BY <2>1, OneSnapshot DEF Polled
  <2>3. ASSUME NEW p \in Bijection(DOMAIN ads, DOMAIN ads)
        PROVE  Snapshots([i \in DOMAIN ads |-> ads[p[i]]], cfgListen, cfgWAN)
                 = {[lan |-> lan, wan |-> wan]}
    <3> DEFINE t == [i \in DOMAIN ads |-> ads[p[i]]]
    <3>1. t \in Seq(Pool) /\ IsInjective(t) /\ ToSet(t) = ToSet(ads)
      BY <2>1, PermutedIs
    <3> HIDE DEF t
    <3>2. /\ FindByCfg(t, cfgListen) = FindByCfg(ads, cfgListen)
          /\ FindByCfg(t, cfgWAN) = FindByCfg(ads, cfgWAN)
      BY <2>1, <3>1, FindByCfgPermuted DEF Unambiguous
    <3>3. LANSet(t) = LANSet(ads) /\ WANSet(t, lan) = WANSet(ads, lan)
      BY <3>1 DEF LANSet, WANSet
    <3>4. Only(PickLAN(t, cfgListen), lan)
      <4>1. CASE FindByCfg(ads, cfgListen) # NoAdapter
        <5>1. /\ Only(PickLAN(ads, cfgListen), TakeExplicit(FindByCfg(ads, cfgListen)))
              /\ Only(PickLAN(t, cfgListen), TakeExplicit(FindByCfg(ads, cfgListen)))
          BY <3>2, <4>1, PickLANNamed
        <5> QED
          BY <2>2, <5>1, OnlyOne
      <4>2. CASE FindByCfg(ads, cfgListen) = NoAdapter /\ lan # NoAdapter
        <5>1. Best(LANSet(ads), lan, TRUE)
          BY <2>1, <2>2, <4>2, PickLANType
        <5> QED
          BY <3>1, <3>2, <3>3, <4>2, <5>1, PickLANIs
      <4>3. CASE FindByCfg(ads, cfgListen) = NoAdapter /\ lan = NoAdapter
        <5>1. LANSet(ads) = {}
          <6>1. ASSUME LANSet(ads) # {} PROVE FALSE
            <7>1. \A a \in LANSet(ads) : UsableV4(a) # NoIP
              BY <2>1, LANSetType DEF Usable
            <7>2. PICK x \in LANSet(ads) : Best(LANSet(ads), x, TRUE)
              BY <2>1, <6>1, <7>1, LANSetType, BestExists
            <7>3. Only(PickLAN(ads, cfgListen), x)
              BY <2>1, <4>3, <7>2, PickLANIs
            <7>4. x = lan
              BY <2>2, <7>3 DEF Only
            <7> QED
              BY <2>1, <4>3, <7>2, <7>4, LANSetType, Listed
          <6> QED
            BY <6>1
        <5> QED
          BY <3>1, <3>2, <3>3, <4>3, <5>1, PickLANIs
      <4> QED
        BY <4>1, <4>2, <4>3
    <3>5. Only(PickWAN(t, cfgWAN, lan), wan)
      <4>1. CASE FindByCfg(ads, cfgWAN) # NoAdapter
        <5>1. /\ Only(PickWAN(ads, cfgWAN, lan), TakeExplicit(FindByCfg(ads, cfgWAN)))
              /\ Only(PickWAN(t, cfgWAN, lan), TakeExplicit(FindByCfg(ads, cfgWAN)))
          BY <3>2, <4>1, PickWANNamed
        <5> QED
          BY <2>2, <5>1, OnlyOne
      <4>2. CASE FindByCfg(ads, cfgWAN) = NoAdapter
        <5>1. WANChoice(WANSet(ads, lan), wan)
          BY <2>1, <2>2, <4>2, PickWANType
        <5> QED
          BY <3>1, <3>2, <3>3, <4>2, <5>1, PickWANChoice
      <4> QED
        BY <4>1, <4>2
    <3>6. Only(Snapshots(t, cfgListen, cfgWAN), [lan |-> lan, wan |-> wan])
      BY <3>4, <3>5, SnapshotsAre
    <3> QED
      BY <3>6 DEF t, Only
  <2> QED
    BY <2>2, <2>3 DEF Only
<1> QED
  BY <1>1, SelectionTypes, PTL

-----------------------------------------------------------------------------
(* An enumeration without its i-th adapter.                                *)
LEMMA RemoveAtIs ==
  ASSUME NEW S, NEW s \in Seq(S), NEW i \in DOMAIN s
  PROVE  /\ RemoveAt(s, i) \in Seq(S)
         /\ DOMAIN RemoveAt(s, i) = 1..(Len(s) - 1)
         /\ \A j \in 1..(Len(s) - 1) : RemoveAt(s, i)[j] = s[IF j < i THEN j ELSE j + 1]
<1> DEFINE before == SubSeq(s, 1, i - 1)
           after  == SubSeq(s, i + 1, Len(s))
<1>1. i \in 1..Len(s) /\ Len(s) \in Nat
  OBVIOUS
<1>2. before \in Seq(S) /\ Len(before) = i - 1 /\ \A j \in 1..(i - 1) : before[j] = s[j]
  BY <1>1
<1>3. after \in Seq(S) /\ Len(after) = Len(s) - i
      /\ \A j \in 1..(Len(s) - i) : after[j] = s[j + i]
  BY <1>1
<1>4. RemoveAt(s, i) = before \o after
  BY DEF RemoveAt
<1> HIDE DEF before, after
<1>5. before \o after \in Seq(S) /\ Len(before \o after) = Len(s) - 1
  BY <1>1, <1>2, <1>3
<1>6. ASSUME NEW j \in 1..(Len(s) - 1)
      PROVE  (before \o after)[j] = s[IF j < i THEN j ELSE j + 1]
  <2>1. CASE j < i
    BY <1>1, <1>2, <1>3, <2>1
  <2>2. CASE ~(j < i)
    <3>1. (before \o after)[j] = after[j - (i - 1)]
      BY <1>1, <1>2, <1>3, <2>2
    <3>2. j - (i - 1) \in 1..(Len(s) - i) /\ (j - (i - 1)) + i = j + 1
      BY <1>1, <2>2
    <3> QED
      BY <1>3, <2>2, <3>1, <3>2
  <2> QED
    BY <2>1, <2>2
<1> QED
  BY <1>4, <1>5, <1>6

LEMMA RemoveAtKeeps ==
  ASSUME NEW S, NEW s \in Seq(S), NEW i \in DOMAIN s
  PROVE  /\ ToSet(RemoveAt(s, i)) \subseteq ToSet(s)
         /\ \A x \in ToSet(s) : x # s[i] => x \in ToSet(RemoveAt(s, i))
<1> DEFINE r == RemoveAt(s, i)
<1>1. /\ DOMAIN r = 1..(Len(s) - 1)
      /\ \A j \in 1..(Len(s) - 1) : r[j] = s[IF j < i THEN j ELSE j + 1]
  BY RemoveAtIs
<1>2. i \in 1..Len(s) /\ DOMAIN s = 1..Len(s) /\ Len(s) \in Nat
  OBVIOUS
<1> HIDE DEF r
<1>3. ASSUME NEW j \in DOMAIN r PROVE r[j] \in ToSet(s)
  <2>1. (IF j < i THEN j ELSE j + 1) \in DOMAIN s
    BY <1>1, <1>2
  <2> QED
    BY <1>1, <2>1 DEF ToSet
<1>4. ASSUME NEW m \in DOMAIN s, m # i PROVE s[m] \in ToSet(r)
  <2>1. CASE m < i
    <3>1. m \in 1..(Len(s) - 1) /\ r[m] = s[m]
      BY <1>1, <1>2, <2>1
    <3> QED
      BY <1>1, <3>1 DEF ToSet
  <2>2. CASE m > i
    <3>1. m - 1 \in 1..(Len(s) - 1) /\ ~(m - 1 < i) /\ (m - 1) + 1 = m
      BY <1>2, <2>2
    <3>2. r[m - 1] = s[m]
      BY <1>1, <3>1
    <3> QED
      BY <1>1, <3>1, <3>2 DEF ToSet
  <2> QED
    BY <1>2, <1>4, <2>1, <2>2
<1> QED
  BY <1>3, <1>4 DEF ToSet, r

(* Removing another element does not change which one is first.            *)
LEMMA FirstInRemoved ==
  ASSUME NEW S, NEW s \in Seq(S), NEW i \in DOMAIN s, NEW T, NEW T2, NEW none, NEW none2,
         \A x \in ToSet(RemoveAt(s, i)) : x \in T <=> x \in T2,
         none # s[i] => none2 = none,
         FirstIn(s, T, none) # s[i]
  PROVE  FirstIn(RemoveAt(s, i), T2, none2) = FirstIn(s, T, none)
<1> DEFINE r == RemoveAt(s, i)
<1>1. /\ DOMAIN r = 1..(Len(s) - 1)
      /\ \A j \in 1..(Len(s) - 1) : r[j] = s[IF j < i THEN j ELSE j + 1]
  BY RemoveAtIs
<1>2. /\ i \in 1..Len(s) /\ DOMAIN s = 1..Len(s) /\ Len(s) \in Nat
      /\ DOMAIN s \subseteq Nat
  OBVIOUS
<1>3. \A j \in DOMAIN r : r[j] \in T <=> r[j] \in T2
  BY DEF ToSet
<1> HIDE DEF r
<1>4. \A j \in DOMAIN r : (IF j < i THEN j ELSE j + 1) \in DOMAIN s
  BY <1>1, <1>2
<1>5. CASE \A m \in DOMAIN s : s[m] \notin T
  <2>1. FirstIn(s, T, none) = none
    BY <1>5, FirstInNone
  <2>2. \A j \in DOMAIN r : r[j] \notin T2
    BY <1>1, <1>3, <1>4, <1>5
  <2>3. FirstIn(r, T2, none2) = none2
    BY <2>2, FirstInNone
  <2> QED
    BY <2>1, <2>3 DEF r
<1>6. CASE \E m \in DOMAIN s : s[m] \in T
  <2>1. PICK k \in DOMAIN s : /\ s[k] \in T /\ FirstIn(s, T, none) = s[k]
                              /\ \A m \in DOMAIN s : s[m] \in T => k =< m
    BY <1>2, <1>6, FirstInFinds
  <2> DEFINE h == IF k < i THEN k ELSE k - 1
  <2>2. k # i
    BY <2>1
  <2>3. h \in DOMAIN r /\ (IF h < i THEN h ELSE h + 1) = k
    BY <1>1, <1>2, <2>2
  <2>4. r[h] = s[k] /\ r[h] \in T2
    BY <1>1, <1>3, <2>1, <2>3
  <2>5. ASSUME NEW j \in DOMAIN r, r[j] \in T2 PROVE h =< j
    <3>1. k =< (IF j < i THEN j ELSE j + 1)
      BY <1>1, <1>3, <1>4, <2>1, <2>5
    <3> QED
      BY <1>1, <1>2, <2>2, <3>1
  <2> HIDE DEF h
  <2>6. FirstIn(r, T2, none2) = r[h]
    <3>1. DOMAIN r \subseteq Nat
      BY <1>1, <1>2
    <3> QED
      BY <2>3, <2>4, <2>5, <3>1, FirstInIs
  <2> QED
    BY <2>1, <2>4, <2>6 DEF r
<1> QED
  BY <1>5, <1>6

LEMMA FindByCfgRemoved ==
  ASSUME NEW s \in Seq(Pool), NEW i \in DOMAIN s, NEW cfg, FindByCfg(s, cfg) # s[i]
  PROVE  FindByCfg(RemoveAt(s, i), cfg) = FindByCfg(s, cfg)
<1> DEFINE r == RemoveAt(s, i)
           T == Hits(s, cfg)
           U == Hits(r, cfg)
           named == FirstIn(s, T, NoAdapter)
<1>1. ToSet(r) \subseteq ToSet(s) /\ \A x \in ToSet(s) : x # s[i] => x \in ToSet(r)
  BY RemoveAtKeeps
<1>2. DOMAIN s \subseteq Nat
  OBVIOUS
<1>3. CASE cfg.auto
  BY <1>3 DEF FindByCfg
<1>4. CASE ~cfg.auto
  <2>1. named = FindByCfg(s, cfg) /\ FindByCfg(r, cfg) = FirstIn(r, U, NoAdapter)
    BY <1>4 DEF FindByCfg
  <2>2. \A x \in ToSet(r) : x \in T => x \in U
    BY <1>1 DEF Hits
  <2>3. ASSUME NEW x \in ToSet(r), x \in U PROVE x \in T
    <3>1. x \in ToSet(s) /\ Pass(cfg, x) < 5
      BY <1>1, <2>3 DEF Hits
    <3>2. PICK b \in ToSet(s) : b \in T
      BY <3>1, HitsExist
    <3>3. named \in T
      <4>1. PICK j \in DOMAIN s : s[j] = b
        BY <3>2 DEF ToSet
      <4> QED
        BY <1>2, <3>2, <4>1, FirstInFinds
    <3>4. named \in ToSet(r)
      BY <1>1, <2>1, <3>3 DEF Hits
    <3>5. Pass(cfg, x) =< Pass(cfg, named)
      BY <2>3, <3>4 DEF Hits
    <3>6. \A y \in ToSet(s) : Pass(cfg, named) =< Pass(cfg, y)
      BY <3>3 DEF Hits
    <3>7. \A y \in ToSet(s) : Pass(cfg, x) =< Pass(cfg, y)
      BY <3>5, <3>6, PassType
    <3> QED
      BY <3>1, <3>7 DEF Hits
  <2>4. named # s[i]
    BY <2>1
  <2> HIDE DEF T, U
  <2>5. FirstIn(RemoveAt(s, i), U, NoAdapter) = FirstIn(s, T, NoAdapter)
    BY <2>2, <2>3, <2>4, FirstInRemoved
  <2> QED
    BY <2>1, <2>5
<1> QED
  BY <1>3, <1>4

LEMMA RemovedIs ==
  ASSUME NEW s \in Seq(Pool), IsInjective(s), NEW i \in DOMAIN s
  PROVE  RemoveAt(s, i) \in Seq(Pool) /\ IsInjective(RemoveAt(s, i))
<1> DEFINE r == RemoveAt(s, i)
           old(j) == IF j < i THEN j ELSE j + 1
<1>1. /\ r \in Seq(Pool) /\ DOMAIN r = 1..(Len(s) - 1)
      /\ \A j \in 1..(Len(s) - 1) : r[j] = s[old(j)]
  BY RemoveAtIs
<1>2. i \in 1..Len(s) /\ DOMAIN s = 1..Len(s) /\ Len(s) \in Nat
  OBVIOUS
<1>3. \A j \in 1..(Len(s) - 1) : old(j) \in DOMAIN s
  BY <1>2
<1>4. \A j, k \in 1..(Len(s) - 1) : old(j) = old(k) => j = k
  BY <1>2
<1> HIDE DEF r, old
<1>5. \A j, k \in DOMAIN r : r[j] = r[k] => j = k
  BY <1>1, <1>3, <1>4 DEF IsInjective
<1> QED
  BY <1>1, <1>5 DEF IsInjective, r

(* A choice that was made stays when an adapter it did not fall on goes.   *)
LEMMA PickLANRemoved ==
  ASSUME NEW s \in Seq(Pool), IsInjective(s), NEW i \in DOMAIN s, NEW cfg, NEW lan,
         Only(PickLAN(s, cfg), lan), lan # NoAdapter, lan # s[i]
  PROVE  Only(PickLAN(RemoveAt(s, i), cfg), lan)
<1> DEFINE r == RemoveAt(s, i)
           named == FindByCfg(s, cfg)
<1>1. s[i] # NoAdapter
  BY Listed DEF ToSet
<1>2. named # s[i] => FindByCfg(r, cfg) = named
  BY FindByCfgRemoved
<1>3. r \in Seq(Pool)
  BY RemovedIs
<1> HIDE DEF r
<1>4. CASE named # NoAdapter
  <2>1. lan = named
    BY <1>4, PickLANNamed DEF TakeExplicit, Only
  <2> QED
    BY <1>2, <1>4, <2>1, PickLANNamed DEF r, Only
<1>5. CASE named = NoAdapter
  <2>1. Best(LANSet(s), lan, TRUE)
    BY <1>5, PickLANType
  <2>2. LANSet(r) \in SUBSET LANSet(s) /\ lan \in LANSet(r)
    BY <2>1, RemoveAtKeeps DEF LANSet, Best, r
  <2>3. Best(LANSet(r), lan, TRUE)
    BY <2>1, <2>2, BestKept
  <2> QED
    BY <1>1, <1>2, <1>3, <1>5, <2>3, PickLANIs DEF r
<1> QED
  BY <1>4, <1>5

LEMMA PickWANRemoved ==
  ASSUME NEW s \in Seq(Pool), IsInjective(s), NEW i \in DOMAIN s, NEW cfg, NEW lan, NEW wan,
         Only(PickWAN(s, cfg, lan), wan), wan # NoAdapter, wan # s[i]
  PROVE  Only(PickWAN(RemoveAt(s, i), cfg, lan), wan)
<1> DEFINE r == RemoveAt(s, i)
           named == FindByCfg(s, cfg)
           all  == WANSet(s, lan)
           all2 == WANSet(r, lan)
           ppp  == {a \in all : a.ppp}
           ppp2 == {a \in all2 : a.ppp}
           dns  == {a \in all : a.dns}
           dns2 == {a \in all2 : a.dns}
<1>1. s[i] # NoAdapter
  BY Listed DEF ToSet
<1>2. named # s[i] => FindByCfg(r, cfg) = named
  BY FindByCfgRemoved
<1>3. r \in Seq(Pool) /\ IsInjective(r)
  BY RemovedIs
<1>4. all2 \subseteq all /\ \A a \in all : a # s[i] => a \in all2
  BY RemoveAtKeeps DEF WANSet
<1> HIDE DEF r, named, all, all2
<1>5. CASE named # NoAdapter
  <2>1. wan = named
    BY <1>5, PickWANNamed DEF TakeExplicit, named, Only
  <2> QED
    BY <1>2, <1>5, <2>1, PickWANNamed DEF r, named, Only
<1>6. CASE named = NoAdapter
  <2>1. WANChoice(all, wan)
    BY <1>6, PickWANType DEF named, all
  <2>2. WANChoice(all2, wan)
    <3>1. CASE Best(ppp, wan, FALSE)
      <4>1. ppp2 \in SUBSET ppp /\ wan \in ppp2
        BY <1>4, <3>1 DEF Best
      <4>2. Best(ppp2, wan, FALSE)
        BY <3>1, <4>1, BestKept
      <4> QED
        BY <4>2 DEF WANChoice
    <3>2. CASE ppp = {} /\ Only(all, wan)
      <4>1. Only(all2, wan) /\ ppp2 = {}
        BY <1>4, <3>2 DEF Only
      <4> QED
        BY <4>1 DEF WANChoice
    <3>3. CASE ppp = {} /\ ~Single(all) /\ Best(dns, wan, FALSE)
      <4>1. dns2 \in SUBSET dns /\ wan \in dns2 /\ ppp2 = {} /\ wan \in all2
        BY <1>4, <3>3 DEF Best
      <4>2. Best(dns2, wan, FALSE)
        BY <3>3, <4>1, BestKept
      <4>3. Single(all2) => Only(all2, wan)
        BY <4>1 DEF Single, Only
      <4> QED
        BY <4>1, <4>2, <4>3 DEF WANChoice
    <3> QED
      BY <2>1, <3>1, <3>2, <3>3 DEF WANChoice
  <2>3. FindByCfg(r, cfg) = NoAdapter
    BY <1>1, <1>2, <1>6
  <2> QED
    BY <1>3, <2>2, <2>3, PickWANChoice DEF r, all2
<1> QED
  BY <1>5, <1>6

(* Once both sides are chosen, no other adapter matters: when one that was *)
(* not chosen vanishes, the next poll chooses the same two (netmon.go,     *)
(* pickLAN, pickWAN, findByCfg).                                           *)
THEOREM OthersDoNotMatter == Spec => []OnlyTheChosenMatter
<1>1. TypeOK => OnlyTheChosenMatter
  <2>1. SUFFICES ASSUME ads \in Seq(Pool), IsInjective(ads), NEW s \in Polled, Ready(s),
                        NEW i \in DOMAIN ads, ads[i] \notin {s.lan, s.wan}
                 PROVE  Snapshots(RemoveAt(ads, i), cfgListen, cfgWAN) = {s}
    BY DEF TypeOK, OnlyTheChosenMatter
  <2>2. PICK lan, wan : /\ Only(PickLAN(ads, cfgListen), lan)
                        /\ Only(PickWAN(ads, cfgWAN, lan), wan)
                        /\ Only(Polled, [lan |-> lan, wan |-> wan])
    BY <2>1, OneSnapshot DEF Polled
  <2>3. s = [lan |-> lan, wan |-> wan]
    BY <2>1, <2>2 DEF Only
  <2>4. lan # NoAdapter /\ lan # ads[i] /\ wan # NoAdapter /\ wan # ads[i]
    BY <2>1, <2>3 DEF Ready
  <2>5. Only(PickLAN(RemoveAt(ads, i), cfgListen), lan)
    BY <2>1, <2>2, <2>4, PickLANRemoved
  <2>6. Only(PickWAN(RemoveAt(ads, i), cfgWAN, lan), wan)
    BY <2>1, <2>2, <2>4, PickWANRemoved
  <2>7. Only(Snapshots(RemoveAt(ads, i), cfgListen, cfgWAN), [lan |-> lan, wan |-> wan])
    BY <2>5, <2>6, SnapshotsAre
  <2> QED
    BY <2>3, <2>7 DEF Only
<1> QED
  BY <1>1, SelectionTypes, PTL
=============================================================================
