------------------------------ MODULE Adapters ------------------------------
(***************************************************************************)
(* The adapter selection of internal/netmon: which adapter the relay       *)
(* listens on (LAN), which one carries its outbound traffic (WAN), and     *)
(* when two snapshots count as different.                                  *)
(*                                                                         *)
(* Everything here is a pure operator over one enumeration `ads`, the      *)
(* sequence of adapters the operating system reports.  An address is a     *)
(* record [id, kind]: the code looks at its bytes only to tell the kinds   *)
(* apart.  A name is a value; the verdicts of the two name expressions     *)
(* (reWiFiName, reExclude) are the fields `wifi` and `excluded`, and a     *)
(* configuration string is the record of what it matches (see CfgType).    *)
(***************************************************************************)
EXTENDS Naturals, Sequences, FiniteSets, SequencesExt

(* 0.0.0.0 is "unspecified", 127/8 "loopback", 169.254/16 "apipa", the     *)
(* RFC 1918 blocks "private", everything else "public".                    *)
AddressKinds == {"private", "public", "apipa", "loopback", "unspecified"}

(* A nil net.IP.                                                           *)
NoIP == [id |-> "none", kind |-> "none"]

(* A nil *Adapter: the accessors of Snapshot return the zero values below  *)
(* for it (LANIP nil, WANIndex 0, lanName "").                             *)
NoAdapter == [name |-> "", index |-> 0, ppp |-> FALSE, up |-> FALSE,
              v4 |-> <<>>, v6 |-> FALSE, dns |-> FALSE,
              wifi |-> FALSE, excluded |-> FALSE]

AdapterType(Names, IPs) ==
  [name : Names, index : Nat, ppp : BOOLEAN, up : BOOLEAN, v4 : Seq(IPs),
   v6 : BOOLEAN, dns : BOOLEAN, wifi : BOOLEAN, excluded : BOOLEAN]

(* A configuration string after TrimSpace: `auto` for "" and "auto"; the   *)
(* interface index it prints as (0: none); the address it parses as (NoIP: *)
(* none), or `ip6` for an IPv6 literal; the names it equals ignoring case; *)
(* the names that contain it.                                              *)
CfgType(Names, IPs) ==
  [auto : BOOLEAN, index : Nat, ip : IPs \cup {NoIP}, ip6 : BOOLEAN,
   same : SUBSET Names, within : SUBSET Names]

-----------------------------------------------------------------------------
(* The first element of s that is in T, or none.                           *)
FirstIn(s, T, none) ==
  LET hits == {i \in DOMAIN s : s[i] \in T}
  IN  IF hits = {} THEN none ELSE s[CHOOSE i \in hits : \A j \in hits : i =< j]

FirstV4(ips) == FirstIn(ips, {ip \in ToSet(ips) : ip.kind # "unspecified"}, NoIP)

UsableV4(a) ==
  FirstIn(a.v4, {ip \in ToSet(a.v4) : ip.kind \in {"private", "public"}}, NoIP)

(* The first usable address, and only if that one is private.              *)
RoutablePrivate(a) ==
  IF UsableV4(a).kind = "private" THEN UsableV4(a) ELSE NoIP

-----------------------------------------------------------------------------
(* The four passes of findByCfg: index, address, equal name, name that     *)
(* contains the string.  Pass is the first one that takes the adapter, 5   *)
(* if none does.                                                           *)
ByIndex(cfg, a)  == cfg.index # 0 /\ a.index = cfg.index
ByAddr(cfg, a)   == \/ cfg.ip # NoIP /\ cfg.ip \in ToSet(a.v4)
                    \/ cfg.ip6 /\ a.v6
BySame(cfg, a)   == a.name \in cfg.same
ByWithin(cfg, a) == a.name \in cfg.within

Pass(cfg, a) == IF ByIndex(cfg, a) THEN 1 ELSE IF ByAddr(cfg, a) THEN 2
                ELSE IF BySame(cfg, a) THEN 3 ELSE IF ByWithin(cfg, a) THEN 4 ELSE 5

(* Faulty variant: a string that fits several adapters counts for nothing. *)
HitsAlone(ads, cfg) ==
  {a \in ToSet(ads) : /\ Pass(cfg, a) < 5
                      /\ \A b \in ToSet(ads) \ {a} : Pass(cfg, a) < Pass(cfg, b)}

(* What the configuration string can mean: an earlier pass that takes an   *)
(* adapter hides the later ones.                                           *)
Hits(ads, cfg) ==
  {a \in ToSet(ads) : /\ Pass(cfg, a) < 5
                      /\ \A b \in ToSet(ads) : Pass(cfg, a) =< Pass(cfg, b)}

FindByCfg(ads, cfg) ==
  IF cfg.auto THEN NoAdapter ELSE FirstIn(ads, Hits(ads, cfg), NoAdapter)

(* Faulty variant: the checks on a named adapter are forgotten.            *)
TakeUnchecked(a) == a

(* An adapter the configuration names is taken as it is or not at all.     *)
TakeExplicit(a) == IF a.up /\ UsableV4(a) # NoIP THEN a ELSE NoAdapter

-----------------------------------------------------------------------------
(* A slice that the code collects from the enumeration is the set of the   *)
(* positions it took, in the enumeration's order; cands[0] after a         *)
(* sort.Slice is an element that no other one is less than.  The sort is   *)
(* not stable: of several such elements each may come first.               *)

(* Faulty variant: equally wireless adapters are not told apart.           *)
LessLoosely(a, b, wifiFirst) ==
  IF wifiFirst THEN a.wifi /\ ~b.wifi ELSE a.index < b.index

(* The comparison functions: by index, on the listening side wireless      *)
(* cards first.                                                            *)
Less(a, b, wifiFirst) ==
  IF wifiFirst /\ a.wifi # b.wifi THEN a.wifi ELSE a.index < b.index

Heads(ads, positions, wifiFirst) ==
  {ads[i] : i \in {j \in positions :
                     \A k \in positions : ~Less(ads[k], ads[j], wifiFirst)}}

-----------------------------------------------------------------------------
(* Faulty variant: the dial-up adapter counts as a listening candidate.    *)
LANFitWithPPP(a) == a.up /\ RoutablePrivate(a) # NoIP /\ ~a.excluded

(* Candidates for the listening side in auto mode.                         *)
LANFit(a) == a.up /\ ~a.ppp /\ RoutablePrivate(a) # NoIP /\ ~a.excluded

(* The adapters pickLAN can return for this enumeration.                   *)
PickLAN(ads, cfg) ==
  LET named == FindByCfg(ads, cfg)
      cands == {i \in DOMAIN ads : LANFit(ads[i])}
  IN  IF named # NoAdapter THEN {TakeExplicit(named)}
      ELSE IF cands = {} THEN {NoAdapter}
      ELSE Heads(ads, cands, TRUE)

-----------------------------------------------------------------------------
(* Candidates for the outbound side in auto mode.  The name filter of the  *)
(* listening side does not apply here.                                     *)
WANFit(a, lan) ==
  /\ a.up /\ UsableV4(a) # NoIP
  /\ FirstV4(a.v4).kind # "loopback"
  /\ ~(lan # NoAdapter /\ a.index = lan.index)

(* The adapters pickWAN can return for this enumeration.                   *)
PickWAN(ads, cfg, lan) ==
  LET named   == FindByCfg(ads, cfg)
      all     == {i \in DOMAIN ads : WANFit(ads[i], lan)}
      ppp     == {i \in all : ads[i].ppp}
      withDNS == {i \in all : ads[i].dns}
  IN  IF named # NoAdapter THEN {TakeExplicit(named)}
      ELSE IF ppp # {} THEN Heads(ads, ppp, FALSE)
      ELSE IF \E i \in all : all = {i} THEN {ads[i] : i \in all}
      ELSE IF withDNS # {} THEN Heads(ads, withDNS, FALSE)
      ELSE {NoAdapter}            \* ambiguous, or nothing to choose from

-----------------------------------------------------------------------------
(* A snapshot and its accessors.                                           *)
NoSnapshot == [lan |-> NoAdapter, wan |-> NoAdapter]

(* What one poll can make of the enumeration.                              *)
Snapshots(ads, cfgListen, cfgWAN) ==
  UNION { {[lan |-> lan, wan |-> wan] : wan \in PickWAN(ads, cfgWAN, lan)} :
          lan \in PickLAN(ads, cfgListen) }

Ready(s)    == s.lan # NoAdapter /\ s.wan # NoAdapter
LANIP(s)    == FirstV4(s.lan.v4)
WANIP(s)    == FirstV4(s.wan.v4)
WANIndex(s) == s.wan.index

(* What the monitor's callbacks are called for.                            *)
Changed(a, b) ==
  \/ LANIP(a) # LANIP(b)
  \/ a.lan.name # b.lan.name
  \/ WANIndex(a) # WANIndex(b)
  \/ WANIP(a) # WANIP(b)
=============================================================================
