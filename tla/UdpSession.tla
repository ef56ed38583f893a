----------------------------- MODULE UdpSession -----------------------------
(***************************************************************************)
(* What a UDP ASSOCIATE session promises, whatever goroutines, sockets and *)
(* channels it is made of: it opens or is refused; the first sender owns   *)
(* it; only the owner's datagrams go out, only to hosts that were asked    *)
(* for; only asked hosts are passed on to the owner; and once it is over   *)
(* nothing goes out or comes in.  UdpAssoc implements it.                  *)
(***************************************************************************)
CONSTANTS Clients, Hosts, NoClient

VARIABLES phase,   \* "opening", "open", "closing", "over"
          owner,   \* the client of the session
          asked,   \* hosts the owner's datagrams are addressed to
          sent,    \* hosts a datagram went out to
          served,  \* clients a datagram went out for
          passed   \* hosts a datagram was passed on from

vars == <<phase, owner, asked, sent, served, passed>>

Init == /\ phase = "opening" /\ owner = NoClient
        /\ asked = {} /\ sent = {} /\ served = {} /\ passed = {}

Enter(from, to) == /\ phase \in from /\ phase' = to
                   /\ UNCHANGED <<owner, asked, sent, served, passed>>

Open   == Enter({"opening"}, "open")
Refuse == Enter({"opening"}, "over")
Close  == Enter({"open"}, "closing")
End    == Enter({"closing"}, "over")

(* The first datagram settles whose session it is, once and for all; it    *)
(* may be the last one, the session being over by then.                    *)
Pin(c) ==
  /\ phase # "opening" /\ owner = NoClient
  /\ owner' = c
  /\ UNCHANGED <<phase, asked, sent, served, passed>>

Ask(h) ==
  /\ phase # "opening" /\ owner # NoClient
  /\ asked' = asked \cup {h}
  /\ UNCHANGED <<phase, owner, sent, served, passed>>

Live == phase \in {"open", "closing"}

Forward(h) ==
  /\ Live /\ owner # NoClient /\ h \in asked
  /\ sent' = sent \cup {h} /\ served' = served \cup {owner}
  /\ UNCHANGED <<phase, owner, asked, passed>>

Deliver(h) ==
  /\ Live /\ owner # NoClient /\ h \in asked
  /\ passed' = passed \cup {h}
  /\ UNCHANGED <<phase, owner, asked, sent, served>>

Next == \/ Open \/ Refuse \/ Close \/ End
        \/ \E c \in Clients : Pin(c)
        \/ \E h \in Hosts : Ask(h) \/ Forward(h) \/ Deliver(h)

Spec == Init /\ [][Next]_vars
=============================================================================
