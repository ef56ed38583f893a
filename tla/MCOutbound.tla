----------------------------- MODULE MCOutbound -----------------------------
(* A small instance of Outbound: a TCP dial beside a UDP session, and an   *)
(* exit that is lost and dialled again, with the same address under        *)
(* another index: the case in which only one of the two bindings fails.    *)
(* 60 s are two ticks.                                                     *)
EXTENDS Outbound

CONSTANTS p1, p2, a, s1, s2, g1

MCHandlers == {p1}
MCSessions == {p2}
MCExits  == {[idx |-> 1, ip |-> a, dns |-> <<s1, s2>>],
             [idx |-> 2, ip |-> a, dns |-> <<>>]}
MCPublic == <<g1>>
MCServers == {s1, s2, g1}
Unset    == <<>>
=============================================================================
