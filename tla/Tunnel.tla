------------------------------- MODULE Tunnel -------------------------------
(***************************************************************************)
(* What relay.Pipe promises of a connection it relays: in each direction   *)
(* the bytes come out as they went in, none twice and none before it was   *)
(* sent, until the tunnel is over; a tunnel that is over stays so.         *)
(* A stream is represented by its length: the order of bytes is TCP's.     *)
(***************************************************************************)
EXTENDS Naturals

CONSTANTS Directions, MaxBytes

VARIABLES sent, got, over

Init == /\ sent = [d \in Directions |-> 0]
        /\ got = [d \in Directions |-> 0]
        /\ over = FALSE

Send(d) == /\ sent[d] < MaxBytes
           /\ sent' = [sent EXCEPT ![d] = @ + 1]
           /\ UNCHANGED <<got, over>>

Deliver(d) == /\ ~over
              /\ \E n \in 1..(sent[d] - got[d]) : got' = [got EXCEPT ![d] = @ + n]
              /\ UNCHANGED <<sent, over>>

End == ~over /\ over' = TRUE /\ UNCHANGED <<sent, got>>

Next == (\E d \in Directions : Send(d) \/ Deliver(d)) \/ End

Spec == Init /\ [][Next]_<<sent, got, over>>
=============================================================================
