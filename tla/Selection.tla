------------------------------ MODULE Selection -----------------------------
(***************************************************************************)
(* Every enumeration the operating system can hand to the selection of     *)
(* module Adapters, built the way FetchAdapters builds its result: one     *)
(* adapter appended after the other, in any order.  The properties compare *)
(* what is selected from related enumerations.                             *)
(***************************************************************************)
EXTENDS Adapters

CONSTANTS Pool,         \* the adapters a machine can have
          Configs,      \* the configuration values of `listen` and `wan`
          MaxAdapters   \* bound on the length of an enumeration

MachineNames == {a.name : a \in Pool}
MachineIPs   == UNION {ToSet(a.v4) : a \in Pool}

(* IfIndex numbers the IPv4 interfaces: an index of its own for an adapter *)
(* that has one, 0 for all the others.                                     *)
ASSUME PoolAssumption ==
  /\ NoAdapter \notin Pool
  /\ Pool \subseteq AdapterType(MachineNames, MachineIPs)
  /\ \A a, b \in Pool : a.index = b.index => a = b \/ a.index = 0
  /\ \A a \in Pool : a.index = 0 => a.v4 = <<>>
ASSUME MaxAssumption == MaxAdapters \in Nat

VARIABLES ads, cfgListen, cfgWAN

vars == <<ads, cfgListen, cfgWAN>>

(* What one poll can make of the enumeration.                              *)
Polled == Snapshots(ads, cfgListen, cfgWAN)

Init == ads = <<>> /\ cfgListen \in Configs /\ cfgWAN \in Configs

(* Faulty variant: an adapter is listed once per address.                  *)
FetchTwice ==
  /\ Len(ads) < MaxAdapters
  /\ \E a \in Pool : ads' = Append(ads, a)
  /\ UNCHANGED <<cfgListen, cfgWAN>>

(* One turn of FetchAdapters' loop over the system's list.                 *)
FetchOne ==
  /\ Len(ads) < MaxAdapters
  /\ \E a \in Pool : a \notin ToSet(ads) /\ ads' = Append(ads, a)
  /\ UNCHANGED <<cfgListen, cfgWAN>>

(* The list ends here: the loop stops.                                     *)
FetchDone == UNCHANGED vars

Next == FetchOne \/ FetchDone

Spec == Init /\ [][Next]_vars

-----------------------------------------------------------------------------
(* The enumeration lists adapters of the machine, each once.               *)
TypeOK ==
  /\ ads \in Seq(Pool)
  /\ IsInjective(ads)
  /\ cfgListen \in Configs /\ cfgWAN \in Configs

(* netmon.go:158-249.  Whatever pickLAN and pickWAN return is an adapter   *)
(* of this enumeration that is connected and has an address it can talk    *)
(* from: a poll never hands the listeners or the dialers a dead adapter,   *)
(* named or found.  (They then use its first address, which may be another *)
(* one: netmon.go:51 does not look for a usable one.)                      *)
ChosenIsUsable ==
  \A s \in Polled : \A a \in {s.lan, s.wan} \ {NoAdapter} :
     a \in ToSet(ads) /\ a.up /\ UsableV4(a) # NoIP

(* The configuration leaves the choice to the program, or the pass of      *)
(* findByCfg that decides takes one adapter only.                          *)
Unambiguous(cfg) == cfg.auto \/ \A a, b \in Hits(ads, cfg) : a = b

(* netmon.go:192, 236, 241.  Windows promises no order, and sort.Slice is  *)
(* not stable: whatever order the adapters are listed in and whichever of  *)
(* equal elements the sort puts first, a poll of the same machine chooses  *)
(* the same two adapters, so that two polls never look like a change.      *)
SelectionIgnoresOrder ==
  Unambiguous(cfgListen) /\ Unambiguous(cfgWAN) =>
    \E s \in Polled : \A p \in Bijection(DOMAIN ads, DOMAIN ads) :
       Snapshots([i \in DOMAIN ads |-> ads[p[i]]], cfgListen, cfgWAN) = {s}

(* netmon.go:121-249.  Once both sides are chosen, an adapter that was not *)
(* chosen can vanish without moving either side: unplugging something else *)
(* never rebuilds the listeners nor redirects the outbound traffic.        *)
OnlyTheChosenMatter ==
  \A s \in Polled : Ready(s) =>
    \A i \in DOMAIN ads :
       ads[i] \notin {s.lan, s.wan} =>
         Snapshots(RemoveAt(ads, i), cfgListen, cfgWAN) = {s}

(* netmon.go:170, 215-237.  With both sides on auto the dial-up adapter    *)
(* carries the traffic as soon as one is connected, because the listening  *)
(* side never takes it, not even when the provider hands out a private     *)
(* address; and the relay never sends traffic back out of the adapter it   *)
(* listens on.                                                             *)
DialUpCarriesTraffic ==
  cfgListen.auto /\ cfgWAN.auto => \A s \in Polled :
    /\ (\E a \in ToSet(ads) : /\ a.ppp /\ a.up /\ UsableV4(a) # NoIP
                              /\ FirstV4(a.v4).kind # "loopback") => s.wan.ppp
    /\ Ready(s) => s.lan # s.wan
=============================================================================
