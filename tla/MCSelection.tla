---------------------------- MODULE MCSelection -----------------------------
(* A small machine for Selection: the adapters of netmon_test.go (a        *)
(* wireless card, a wired one without DHCP lease, the dial-up connection   *)
(* with a private address) plus a second dial-up, a virtual switch, a wired *)
(* uplink whose self-assigned address is listed first, a second wired card,*)
(* and two tunnels without IPv4, which share the index 0.                  *)
EXTENDS Selection

IP(id, kind) == [id |-> id, kind |-> kind]

Card(name, index, addresses) ==
  [NoAdapter EXCEPT !.name = name, !.index = index, !.v4 = addresses, !.up = TRUE]

Wlan    == [Card("WLAN", 12, <<IP("w", "private")>>) EXCEPT !.wifi = TRUE, !.dns = TRUE]
Wired   == Card("Ethernet", 2, <<IP("e", "apipa")>>)
Uplink  == [Card("Ethernet 2", 3, <<IP("s", "apipa"), IP("u", "private")>>)
              EXCEPT !.dns = TRUE, !.v6 = TRUE]
DialUp  == [Card("Campus", 70, <<IP("p", "private")>>) EXCEPT !.ppp = TRUE, !.dns = TRUE]
DialUp2 == [Card("Campus 2", 71, <<IP("q", "public")>>) EXCEPT !.ppp = TRUE]
Virtual == [Card("vEthernet", 5, <<IP("v", "private")>>) EXCEPT !.excluded = TRUE]
Down    == [Card("Spare", 9, <<IP("d", "private")>>) EXCEPT !.up = FALSE]
Local   == Card("Local", 1, <<IP("l", "loopback"), IP("m", "public")>>)

Office  == Card("Office", 6, <<IP("o", "private")>>)
Teredo  == [Card("Teredo", 0, <<>>) EXCEPT !.v6 = TRUE]
Tunnel6 == [Card("6to4", 0, <<>>) EXCEPT !.v6 = TRUE]

MCPool == {Wlan, Wired, Uplink, DialUp, DialUp2, Virtual, Down, Local, Office,
           Teredo, Tunnel6}

Auto == [auto |-> TRUE, index |-> 0, ip |-> NoIP, ip6 |-> FALSE,
         same |-> {}, within |-> {}]
Named(names, parts) == [Auto EXCEPT !.auto = FALSE, !.same = names, !.within = parts]

MCConfigs ==
  { Auto,
    Named({"Campus"}, {"Campus", "Campus 2"}),
    Named({"Ethernet"}, {"Ethernet", "Ethernet 2", "vEthernet"}),
    Named({}, {"Ethernet", "Ethernet 2", "vEthernet"}),
    [Named({}, {}) EXCEPT !.index = 9],
    [Named({}, {}) EXCEPT !.ip = IP("w", "private")],
    [Named({}, {}) EXCEPT !.ip6 = TRUE] }
=============================================================================
