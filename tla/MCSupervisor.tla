---------------------------- MODULE MCSupervisor ----------------------------
(* A small machine for Supervisor: the enumerations around a dial-up and a *)
(* wireless adapter, which change their address and their index.           *)
EXTENDS Supervisor

IP(id, kind) == [id |-> id, kind |-> kind]

Card(name, index, addresses) ==
  [NoAdapter EXCEPT !.name = name, !.index = index, !.v4 = addresses, !.up = TRUE]

Wlan(addresses)  == [Card("WLAN", 12, addresses) EXCEPT !.wifi = TRUE]
DialUp(index)    == [Card("Campus", index, <<IP("p", "public")>>) EXCEPT !.ppp = TRUE]

WlanA == Wlan(<<IP("a", "private")>>)
WlanB == Wlan(<<IP("b", "private")>>)

(* At home; another lease; the dial-up redialled with a new index on top.  *)
MCTables == { <<WlanA, DialUp(70)>>, <<WlanB, DialUp(70)>>, <<WlanB, DialUp(71)>> }

Auto == [auto |-> TRUE, index |-> 0, ip |-> NoIP, ip6 |-> FALSE,
         same |-> {}, within |-> {}]
=============================================================================
