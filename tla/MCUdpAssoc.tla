----------------------------- MODULE MCUdpAssoc -----------------------------
(* A small session for UdpAssoc: two senders on the port, and 15 s and     *)
(* 120 s scaled to 1 and 2 ticks, which keeps their order.                 *)
EXTENDS UdpAssoc, TLC

CONSTANTS c1, c2, h1, h2

MCClients == {c1, c2}
MCHosts   == {h1, h2}

(* One host is enough: the filter treats hosts one by one, and a host is a *)
(* stranger until it is asked for.  One sender is enough for how a session *)
(* ends: who sent a datagram decides only whether it goes on.              *)
OneHost   == {h1}
OneClient == {c1}

(* Senders and hosts are interchangeable, in runs without liveness.        *)
Senders  == Permutations(MCClients)
Symmetry == Senders \cup Permutations(MCHosts)
=============================================================================
