------------------------------- MODULE Codec --------------------------------
(***************************************************************************)
(* The SOCKS5 codec: readTarget, writeTarget and writeReply (protocol.go), *)
(* unwrapUDP and wrapUDP (server.go), and the probe's own versions of them *)
(* (cmd/relayprobe).  Datagrams are byte sequences, read and written byte  *)
(* by byte; what is scaled down is the radix of a byte, and that an IPv4   *)
(* address has V4Len bytes and an IPv6 address V4Len more than its mapped  *)
(* prefix.                                                                 *)
(*                                                                         *)
(* A host is what Go's string of it denotes: an IPv4 address (an IPv6      *)
(* address that is mapped prints as one), an IPv6 address, or a name; a    *)
(* name that spells an address denotes the address.                        *)
(***************************************************************************)
EXTENDS Naturals, Sequences

CONSTANTS Radix,        \* a byte is below Radix (256)
          V4Len,        \* length of an IPv4 address (4)
          MappedPrefix, \* first bytes of a mapped address (twelve of them)
          Spelling,     \* names that spell an address, and which
          Reserved,     \* what clients put into the two bytes of RSV
          MaxLen        \* bound on the length of a datagram

ASSUME RadixAssumption == Radix \in Nat /\ Radix > 5
ASSUME ReservedAssumption == Reserved \subseteq 0..(Radix - 1)
ASSUME LengthAssumption == V4Len \in Nat \ {0} /\ MaxLen \in Nat

VARIABLE b   \* the bytes of a datagram that have come in

Bytes == 0..(Radix - 1)
V6Len == Len(MappedPrefix) + V4Len

(* An address has one of the two lengths, however it is spelt.             *)
ASSUME PrefixAssumption == MappedPrefix \in Seq(Bytes)
ASSUME SpellingAssumption ==
  \A s \in DOMAIN Spelling : /\ Spelling[s] \in Seq(Bytes)
                             /\ Len(Spelling[s]) \in {V4Len, V6Len}

atypIPv4 == 1
atypDomain == 3
atypIPv6 == 4
verSocks5 == 5

(* The datagram grows byte by byte: every state is a datagram of its own   *)
(* and the beginning of longer ones.                                       *)
Init == b = <<>>
Grow == /\ Len(b) < MaxLen
        /\ \E x \in IF Len(b) < 2 THEN Reserved ELSE Bytes : b' = Append(b, x)
Full == Len(b) = MaxLen /\ UNCHANGED b
Next == Grow \/ Full
Spec == Init /\ [][Next]_b

-----------------------------------------------------------------------------
Drop(s, n)  == SubSeq(s, n + 1, Len(s))
Front(s, n) == SubSeq(s, 1, n)

V4(a)   == [kind |-> "v4", bytes |-> a]
V6(a)   == IF Front(a, Len(MappedPrefix)) = MappedPrefix
           THEN V4(Drop(a, Len(MappedPrefix))) ELSE [kind |-> "v6", bytes |-> a]
Name(s) == IF s \notin DOMAIN Spelling THEN [kind |-> "name", bytes |-> s]
           ELSE IF Len(Spelling[s]) = V4Len THEN V4(Spelling[s]) ELSE V6(Spelling[s])

Host(atyp, a) == CASE atyp = atypIPv4 -> V4(a) [] atyp = atypIPv6 -> V6(a)
                   [] OTHER -> Name(a)

Error == [ok |-> FALSE]

(* Big-endian, two bytes.                                                  *)
PortOf(s) == s[1] * Radix + s[2]
PortBytes(p) == <<(p \div Radix) % Radix, p % Radix>>

-----------------------------------------------------------------------------
(* The server.                                                             *)

(* io.ReadFull of n bytes of s succeeds.                                   *)
ReadFull(s, n) == Len(s) >= n

(* Faulty variant: the buffer is not cut to what was asked for.            *)
BufferUncut(s, n) == s

Buffer(s, n) == Front(s, n)

(* An address of n bytes at the start of s and the port behind it.         *)
AddressPort(s, atyp, n) ==
  LET rest == Drop(s, n)
  IN  IF ReadFull(s, n) /\ ReadFull(rest, 2)
      THEN [ok |-> TRUE, host |-> Host(atyp, Buffer(s, n)), port |-> PortOf(Buffer(rest, 2))]
      ELSE Error

readTarget(s, atyp) ==
  CASE atyp = atypIPv4 -> AddressPort(s, atyp, V4Len)
    [] atyp = atypIPv6 -> AddressPort(s, atyp, V6Len)
    [] atyp = atypDomain ->
         IF s = <<>> \/ Head(s) = 0 THEN Error ELSE AddressPort(Tail(s), atyp, Head(s))
    [] OTHER -> Error

(* A mapped address is written as IPv4, a name that spells an address as   *)
(* that address.                                                           *)
writeTarget(host, port) ==
  (CASE host.kind = "v6" -> <<atypIPv6>> \o host.bytes
     [] host.kind = "v4" -> <<atypIPv4>> \o host.bytes
     [] OTHER -> <<atypDomain, Len(host.bytes) % Radix>> \o host.bytes)
    \o PortBytes(port)

(* Faulty variant: without the byte of a name's length.                    *)
PayloadOffsetShort(d) ==
  4 + 2 + (CASE d[4] = atypIPv4 -> V4Len
             [] d[4] = atypIPv6 -> V6Len
             [] OTHER -> d[5])

(* unwrapUDP computes where the payload starts on its own, without asking  *)
(* readTarget how much it has read.                                        *)
PayloadOffset(d) ==
  4 + 2 + (CASE d[4] = atypIPv4 -> V4Len
             [] d[4] = atypIPv6 -> V6Len
             [] OTHER -> 1 + d[5])

(* RSV is not looked at, FRAG has to be 0.                                 *)
unwrapUDP(d) ==
  IF Len(d) < 4 \/ d[3] # 0 THEN Error
  ELSE LET t == readTarget(Drop(d, 4), d[4])
       IN  IF ~t.ok \/ PayloadOffset(d) > Len(d) THEN Error
           ELSE [ok |-> TRUE, host |-> t.host, port |-> t.port,
                 payload |-> Drop(d, PayloadOffset(d))]

wrapUDP(host, port, payload) == <<0, 0, 0>> \o writeTarget(host, port) \o payload

(* A refusal carries the zero address and port.                            *)
writeReply(code, host, port) ==
  <<verSocks5, code, 0>> \o
    (IF code # 0 THEN writeTarget(V4([i \in 1..V4Len |-> 0]), 0)
     ELSE writeTarget(host, port))

-----------------------------------------------------------------------------
(* The probe.                                                              *)

(* readReply: what follows the head, and a name may be empty.              *)
readReply(s) ==
  IF Len(s) < 4 \/ s[1] # verSocks5 THEN Error
  ELSE LET rest == Drop(s, 4)
           t == CASE s[4] = atypIPv4 -> AddressPort(rest, s[4], V4Len)
                  [] s[4] = atypIPv6 -> AddressPort(rest, s[4], V6Len)
                  [] s[4] = atypDomain /\ rest # <<>> ->
                       AddressPort(Tail(rest), s[4], Head(rest))
                  [] OTHER -> Error
       IN  IF t.ok THEN [ok |-> TRUE, code |-> s[2], host |-> t.host, port |-> t.port]
           ELSE Error

(* Faulty variant: a name is not stepped over before the port.             *)
probeTargetShort(d, off, n) ==
  IF Len(d) < off + n + 2 THEN Error
  ELSE [ok |-> TRUE, host |-> Host(d[4], SubSeq(d, off + 1, off + n)),
        port |-> PortOf(SubSeq(d, off + 1, off + 2)), payload |-> Drop(d, off + n + 2)]

(* The host is cut from the packet at off, and off is moved along.         *)
probeTarget(d, off, n) ==
  IF Len(d) < off + n + 2 THEN Error
  ELSE [ok |-> TRUE, host |-> Host(d[4], SubSeq(d, off + 1, off + n)),
        port |-> PortOf(SubSeq(d, off + n + 1, off + n + 2)),
        payload |-> Drop(d, off + n + 2)]

unwrapProbe(d) ==
  IF Len(d) < 4 \/ d[3] # 0 THEN Error
  ELSE CASE d[4] = atypIPv4 -> probeTarget(d, 4, V4Len)
         [] d[4] = atypIPv6 -> probeTarget(d, 4, V6Len)
         [] d[4] = atypDomain /\ Len(d) > 4 -> probeTarget(d, 5, d[5])
         [] OTHER -> Error

-----------------------------------------------------------------------------
(* What came in means the same when it is sent on: the reply to a client   *)
(* is wrapped by the codec that unwrapped its question.                    *)
Decoded == unwrapUDP(b)

(* server.go:393-434, protocol.go:52-108.  The payload starts right behind *)
(* the port, although its offset is computed apart from the reading of the *)
(* target: wrapping host, port and payload of any datagram and unwrapping  *)
(* the result gives all three of them back, whatever form they came in     *)
(* (mapped addresses and names that spell an address included).            *)
RoundTrip ==
  Decoded.ok =>
    unwrapUDP(wrapUDP(Decoded.host, Decoded.port, Decoded.payload)) = Decoded

(* server.go:401, protocol.go:53-90.  A datagram that was cut off is        *)
(* dropped or goes where the whole one goes: once a target has been read,  *)
(* further bytes are payload, and nothing is read as 0 because it did not  *)
(* come in.                                                                *)
CutOffKeepsTarget ==
  [][ Decoded.ok => /\ Decoded'.ok
                    /\ Decoded'.host = Decoded.host /\ Decoded'.port = Decoded.port
                    /\ Decoded'.payload = Append(Decoded.payload, b'[Len(b')])
    ]_b

(* cmd/relayprobe/main.go:89-135, 240-283.  The probe, which has a codec   *)
(* of its own, sees what the relay means: it takes apart a datagram as the *)
(* relay does (only an empty name, which the relay refuses, passes), and   *)
(* reads code, address and port out of a reply.                            *)
ProbeAgrees ==
  /\ LET p == unwrapProbe(b)
         emptyName == Len(b) > 4 /\ b[4] = atypDomain /\ b[5] = 0
     IN  IF emptyName THEN ~Decoded.ok ELSE p = Decoded
  /\ Decoded.ok =>
       LET port == Decoded.port
           host == Decoded.host
       IN /\ readReply(writeReply(0, host, port))
               = [ok |-> TRUE, code |-> 0, host |-> host, port |-> port]
          /\ \A code \in 1..2 :
               readReply(writeReply(code, host, port))
                 = [ok |-> TRUE, code |-> code,
                    host |-> V4([i \in 1..V4Len |-> 0]), port |-> 0]
=============================================================================
