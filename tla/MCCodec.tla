------------------------------ MODULE MCCodec -------------------------------
(* Every datagram of up to ten bytes below six, the least radix that has   *)
(* the protocol's codes, with RSV as RFC 1928 has it.  Addresses have one  *)
(* byte, or two if IPv6, of which <<2, x>> is the mapped form of x; the    *)
(* name <<4, 4>> spells the IPv4 address <<4>>, <<5, 5>> the IPv6 address  *)
(* <<1, 5>>, <<5>> a mapped one.  Ten bytes leave room for a payload.      *)
EXTENDS Codec

MCMappedPrefix == <<2>>
MCReserved     == {0}
MCSpelling     == [s \in {<<4, 4>>, <<5, 5>>, <<5>>} |->
                     CASE s = <<4, 4>> -> <<4>> [] s = <<5, 5>> -> <<1, 5>>
                       [] OTHER -> <<2, 5>>]
=============================================================================
