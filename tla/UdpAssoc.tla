------------------------------ MODULE UdpAssoc ------------------------------
(***************************************************************************)
(* One SOCKS5 UDP ASSOCIATE session (internal/socks5/server.go): the       *)
(* handler goroutine that opens the two sockets and waits, the reader of   *)
(* the TCP control connection, the idle watchdog and the two pumps.        *)
(*                                                                         *)
(* They share the two sockets, the pinned client address, the set of       *)
(* remotes that may answer, the time of the last activity and the channel  *)
(* `closed`: each access to one of them is a step of its own, save that    *)
(* reading the clock and storing it (touch) are one.                       *)
(* The network delivers any datagram at any time, so that loss,            *)
(* duplication and reordering need no action of their own.  A remote is an *)
(* endpoint [host, form]: the same IPv4 endpoint has a 4-byte and a        *)
(* 16-byte (mapped) form in Go, and only the latter is what ParseIP gives. *)
(***************************************************************************)
EXTENDS Naturals, FiniteSets

CONSTANTS Clients,    \* UDP source addresses seen on the client-side socket
          Hosts,      \* IPv4 endpoints on the internet
          QUICBlock,  \* configuration quic_block
          Handshake,  \* handshakeTimeout, in ticks of the watchdog
          Idle,       \* udpIdleTimeout, in ticks of the watchdog
          MaxTime,    \* bound on the monotonic clock
          MaxUp,      \* bound on the datagrams from clients
          MaxDown,    \* bound on the datagrams from the internet
          NoClient    \* the nil clientAddr

ASSUME TimeAssumption == /\ Handshake \in Nat /\ Idle \in Nat /\ MaxTime \in Nat
                         /\ 0 < Handshake /\ Handshake < Idle
ASSUME BoundAssumption == /\ MaxUp \in Nat /\ MaxDown \in Nat
                          /\ QUICBlock \in BOOLEAN /\ NoClient \notin Clients

VARIABLES
  now,         \* the monotonic clock
  skew,        \* wall clock minus monotonic clock
  peer,        \* the control connection as the client left it: "open", "gone"
  deadline,    \* the read deadline of the control connection
  hPC,         \* the goroutine of ServeConn and handleUDPAssociate
  ctlPC,       \* the goroutine that reads the control connection
  dogPC,       \* the watchdog
  upPC, up,    \* clientToEgress and the datagram it holds
  downPC, down, \* egressToClient and the datagram it holds
  client, egress, \* the two sockets: "none", "open", "closed"
  clientAddr, targets, lastActive,  \* fields of udpAssoc
  closed,      \* the channel `closed` is closed
  sent,        \* history: hosts a datagram was sent to
  servedClients,  \* history: clients a datagram was forwarded for
  lost,        \* history: hosts whose answer the filter threw away
  passed,      \* history: hosts whose datagram was passed to the client
  lateUp, lateDown, \* history: datagrams sent, passed on after closed was closed
  ups, downs   \* datagrams read so far

timeVars == <<now, skew>>
ctlVars  == <<peer, deadline>>
sockVars == <<client, egress>>
upVars   == <<upPC, up, ups>>
downVars == <<downPC, down, downs>>
assocVars == <<clientAddr, targets, lastActive>>
upHist   == <<sent, servedClients, lateUp>>
downHist == <<lost, passed, lateDown>>
histVars == <<upHist, downHist>>
vars == <<timeVars, ctlVars, hPC, ctlPC, dogPC, upVars, downVars, sockVars,
          assocVars, closed, histVars>>

(* What the steps of each goroutine leave alone.                           *)
envRest  == <<hPC, ctlPC, dogPC, upVars, downVars, sockVars, assocVars,
              closed, histVars>>
hRest    == <<timeVars, ctlPC, dogPC, upVars, downVars, histVars>>
ctlRest  == <<timeVars, ctlVars, hPC, upVars, downVars, assocVars, histVars>>
upRest   == <<timeVars, ctlVars, hPC, ctlPC, dogPC, downVars, sockVars, closed>>
downRest == <<timeVars, ctlVars, hPC, ctlPC, dogPC, upVars, sockVars, closed>>

Mapped(h)  == [host |-> h, form |-> "mapped"]
FourByte(h) == [host |-> h, form |-> "four"]
Endpoints  == {Mapped(h) : h \in Hosts} \cup {FourByte(h) : h \in Hosts}

(* What a client can send: a datagram for a target given as an address     *)
(* (which ParseIP gives in mapped form) or a name, or for port 443; or one *)
(* that goes nowhere, because it does not unwrap or its target is IPv6.    *)
UpDatagrams ==
  [from : Clients, kind : {"addr", "name", "quic"}, to : {Mapped(h) : h \in Hosts}]
    \cup [from : Clients, kind : {"useless"}]

(* From the internet, in any form the kernel reports the source in.        *)
DownDatagrams == [from : Endpoints]

NoDatagram == [kind |-> "none"]

(* time.Unix strips the monotonic reading: idleness is wall-clock time.    *)
(* The wall clock is far from the Unix epoch, the zero of lastActive.      *)
Wall == Idle + 1 + now + skew

-----------------------------------------------------------------------------
Init ==
  /\ now = 0 /\ skew = 0
  /\ peer = "open" /\ deadline = Handshake
  /\ hPC = "client" /\ ctlPC = "none" /\ dogPC = "none"
  /\ upPC = "none" /\ up = NoDatagram /\ ups = 0
  /\ downPC = "none" /\ down = NoDatagram /\ downs = 0
  /\ client = "none" /\ egress = "none"
  /\ clientAddr = NoClient /\ targets = {} /\ lastActive = 0
  /\ closed = FALSE
  /\ sent = {} /\ servedClients = {} /\ lost = {} /\ passed = {}
  /\ lateUp = 0 /\ lateDown = 0

-----------------------------------------------------------------------------
(* The environment.                                                        *)

Tick ==
  /\ now < MaxTime
  /\ now' = now + 1
  /\ UNCHANGED <<envRest, skew, ctlVars>>

(* The system clock is set forward, once.                                  *)
ClockStep ==
  /\ skew = 0
  /\ skew' = Idle + 1
  /\ UNCHANGED <<envRest, now, ctlVars>>

(* The client closes or loses the control connection.                      *)
PeerLeaves ==
  /\ peer = "open"
  /\ peer' = "gone"
  /\ UNCHANGED <<envRest, timeVars, deadline>>

Environment == Tick \/ ClockStep \/ PeerLeaves

-----------------------------------------------------------------------------
Close(s) == IF s = "open" THEN "closed" ELSE s

(* The handler: ServeConn has set the deadline and read the request.  Its  *)
(* deferred calls close the egress socket, then the client's.              *)

(* net.ListenPacket on the address the client reached us at.               *)
OpenClient ==
  /\ hPC = "client"
  /\ \/ client' = "open" /\ hPC' = "egress"
     \/ hPC' = "returned" /\ UNCHANGED client
  /\ UNCHANGED <<hRest, ctlVars, egress, assocVars, closed>>

(* Faulty variant: nothing is deferred before the second socket is there.  *)
OpenEgressForgetting ==
  /\ hPC = "egress"
  /\ \/ egress' = "open" /\ hPC' = "reply"
     \/ hPC' = "returned" /\ UNCHANGED egress
  /\ UNCHANGED <<hRest, ctlVars, client, assocVars, closed>>

(* NewEgress fails when the WAN adapter is not ready, for instance.        *)
OpenEgress ==
  /\ hPC = "egress"
  /\ \/ egress' = "open" /\ hPC' = "reply"
     \/ hPC' = "closeClient" /\ UNCHANGED egress
  /\ UNCHANGED <<hRest, ctlVars, client, assocVars, closed>>

(* The success reply carries the port.  A write past the deadline, or to a *)
(* client that has left, fails.                                            *)
ReplyFails ==
  /\ hPC = "reply" /\ (peer = "gone" \/ now >= deadline)
  /\ hPC' = "closeEgress"
  /\ UNCHANGED <<hRest, ctlVars, sockVars, assocVars, closed>>

(* Faulty variant: the session starts with no activity on record.          *)
StartUntouched ==
  /\ hPC = "reply" /\ now < deadline
  /\ hPC' = "wait"
  /\ ctlPC' = "copy" /\ dogPC' = "watch" /\ upPC' = "read" /\ downPC' = "read"
  /\ UNCHANGED <<timeVars, ctlVars, up, ups, down, downs, sockVars, assocVars,
                 closed, histVars>>

(* The reply went out (the kernel takes it even if the client has just     *)
(* left): run touches, and starts the four goroutines.                     *)
Start ==
  /\ hPC = "reply" /\ now < deadline
  /\ hPC' = "wait"
  /\ lastActive' = Wall
  /\ ctlPC' = "copy" /\ dogPC' = "watch" /\ upPC' = "read" /\ downPC' = "read"
  /\ UNCHANGED <<timeVars, ctlVars, up, ups, down, downs, sockVars, clientAddr,
                 targets, closed, histVars>>

(* Both pumps are done: closeOnce.Do(close(closed)), which closes the      *)
(* channel unless it is closed, ...                                        *)
RunEnds ==
  /\ hPC = "wait" /\ upPC = "done" /\ downPC = "done"
  /\ closed' = TRUE
  /\ hPC' = "expire"
  /\ UNCHANGED <<hRest, ctlVars, sockVars, assocVars>>

(* ... and the control connection's deadline is over, for its reader.      *)
ExpireControl ==
  /\ hPC = "expire"
  /\ deadline' = now
  /\ hPC' = "closeEgress"
  /\ UNCHANGED <<hRest, peer, sockVars, assocVars, closed>>

CloseEgress ==
  /\ hPC = "closeEgress"
  /\ egress' = Close(egress)
  /\ hPC' = "closeClient"
  /\ UNCHANGED <<hRest, ctlVars, client, assocVars, closed>>

(* ... and ServeConn closes the connection.                                *)
CloseClient ==
  /\ hPC = "closeClient"
  /\ client' = Close(client)
  /\ hPC' = "returned"
  /\ UNCHANGED <<hRest, ctlVars, egress, assocVars, closed>>

Handler == \/ OpenClient \/ OpenEgress \/ ReplyFails \/ Start
           \/ RunEnds \/ ExpireControl \/ CloseEgress \/ CloseClient

-----------------------------------------------------------------------------
(* The control reader: io.Copy ends when the client leaves, when the       *)
(* deadline passes or when ServeConn has closed the connection.            *)
ControlEnds ==
  /\ ctlPC = "copy"
  /\ peer = "gone" \/ now >= deadline \/ hPC = "returned"
  /\ closed' = TRUE
  /\ ctlPC' = "closeClient"
  /\ UNCHANGED <<ctlRest, dogPC, sockVars>>

(* Faulty variant: the sockets are left to the pumps.                      *)
ControlLeavesSockets ==
  /\ ctlPC = "closeClient"
  /\ ctlPC' = "done"
  /\ UNCHANGED <<ctlRest, dogPC, sockVars, closed>>

ControlClosesClient ==
  /\ ctlPC = "closeClient"
  /\ client' = Close(client)
  /\ ctlPC' = "closeEgress"
  /\ UNCHANGED <<ctlRest, dogPC, egress, closed>>

ControlClosesEgress ==
  /\ ctlPC = "closeEgress"
  /\ egress' = Close(egress)
  /\ ctlPC' = "done"
  /\ UNCHANGED <<ctlRest, dogPC, client, closed>>

(* The watchdog's ticker may tick at any time.  A tick within the idle     *)
(* time is a stuttering step.                                              *)
WatchdogFindsIdle ==
  /\ dogPC = "watch"
  /\ Wall > lastActive + Idle
  /\ dogPC' = "close"
  /\ UNCHANGED <<ctlRest, ctlPC, sockVars, closed>>

(* It logs and closes, whatever the pumps have touched meanwhile.          *)
WatchdogCloses ==
  /\ dogPC = "close"
  /\ closed' = TRUE
  /\ dogPC' = "closeClient"
  /\ UNCHANGED <<ctlRest, ctlPC, sockVars>>

WatchdogClosesClient ==
  /\ dogPC = "closeClient"
  /\ client' = Close(client)
  /\ dogPC' = "closeEgress"
  /\ UNCHANGED <<ctlRest, ctlPC, egress, closed>>

WatchdogClosesEgress ==
  /\ dogPC = "closeEgress"
  /\ egress' = Close(egress)
  /\ dogPC' = "done"
  /\ UNCHANGED <<ctlRest, ctlPC, client, closed>>

WatchdogEnds ==
  /\ dogPC = "watch" /\ closed
  /\ dogPC' = "done"
  /\ UNCHANGED <<ctlRest, ctlPC, sockVars, closed>>

Control  == ControlEnds \/ ControlClosesClient \/ ControlClosesEgress
Watchdog == \/ WatchdogFindsIdle \/ WatchdogCloses \/ WatchdogClosesClient
            \/ WatchdogClosesEgress \/ WatchdogEnds

-----------------------------------------------------------------------------
(* clientToEgress.                                                         *)
UpReceives ==
  /\ upPC = "read" /\ client = "open" /\ ups < MaxUp
  /\ up' \in UpDatagrams
  /\ ups' = ups + 1
  /\ upPC' = "check"
  /\ UNCHANGED <<upRest, assocVars, histVars>>

(* ReadFrom fails once the socket is closed, and may fail before, when the *)
(* network is down for instance: the pump gives up in both cases.          *)
UpReadFails ==
  /\ upPC = "read"
  /\ upPC' = "done"
  /\ UNCHANGED <<upRest, up, ups, assocVars, histVars>>

(* A datagram that came in while the session was closing.                  *)
UpSeesClosed ==
  /\ upPC = "check" /\ closed
  /\ upPC' = "done" /\ up' = NoDatagram
  /\ UNCHANGED <<upRest, ups, assocVars, histVars>>

(* Faulty variant: the channel is not looked at.                           *)
UpLooksAway ==
  /\ upPC = "check"
  /\ upPC' = "touch"
  /\ UNCHANGED <<upRest, up, ups, assocVars, histVars>>

(* From here on the datagram goes its way, wherever the tear-down is.      *)
UpSeesOpen ==
  /\ upPC = "check" /\ ~closed
  /\ upPC' = "touch"
  /\ UNCHANGED <<upRest, up, ups, assocVars, histVars>>

UpTouches ==
  /\ upPC = "touch"
  /\ lastActive' = Wall
  /\ upPC' = "pin"
  /\ UNCHANGED <<upRest, up, ups, clientAddr, targets, histVars>>

(* Only the client that started the session is served.                     *)
Pinned(c) == clientAddr \in {NoClient, c}

(* Faulty variant: the address check is forgotten.                         *)
AnyClient(c) == TRUE

FromPinned(c) == Pinned(c)

Forwardable(d) == d.kind \in {"addr", "name"} \/ (d.kind = "quic" /\ ~QUICBlock)

(* Pin the first sender (only this pump stores clientAddr), then drop the  *)
(* datagram or go on to its target.                                        *)
UpPins ==
  /\ upPC = "pin"
  /\ clientAddr' = IF clientAddr = NoClient THEN up.from ELSE clientAddr
  /\ IF FromPinned(up.from) /\ Forwardable(up)
     THEN /\ upPC' = IF up.kind = "name" THEN "resolve" ELSE "store"
          /\ UNCHANGED up
     ELSE upPC' = "read" /\ up' = NoDatagram
  /\ UNCHANGED <<upRest, ups, targets, lastActive, histVars>>

(* Resolve blocks this pump only; it may fail or give an IPv6 address,     *)
(* which drops the datagram, or either form of an IPv4 address.            *)
UpResolves ==
  /\ upPC = "resolve"
  /\ \/ \E e \in Endpoints : up' = [up EXCEPT !.to = e] /\ upPC' = "store"
     \/ upPC' = "read" /\ up' = NoDatagram
  /\ UNCHANGED <<upRest, ups, assocVars, histVars>>

(* Faulty variant: the key keeps the form of the address.                  *)
AddrPortKeepingForm(e) == e

(* netip.Addr.Unmap: both forms are one key.                               *)
UdpAddrPort(e) == e.host

UpStores ==
  /\ upPC = "store"
  /\ targets' = targets \cup {UdpAddrPort(up.to)}
  /\ upPC' = "send"
  /\ UNCHANGED <<upRest, up, ups, clientAddr, lastActive, histVars>>

UpSends ==
  /\ upPC = "send" /\ egress = "open"
  /\ sent' = sent \cup {up.to.host}
  /\ servedClients' = servedClients \cup {up.from}
  /\ lateUp' = IF closed THEN lateUp + 1 ELSE lateUp
  /\ upPC' = "read" /\ up' = NoDatagram
  /\ UNCHANGED <<upRest, ups, assocVars, downHist>>

(* WriteTo fails on the closed socket, or for want of a route; the pump    *)
(* gives up without closing anything.                                      *)
UpSendFails ==
  /\ upPC = "send"
  /\ upPC' = "done" /\ up' = NoDatagram
  /\ UNCHANGED <<upRest, ups, assocVars, histVars>>

(* What the pump owes: a read owes nothing while the socket is open.       *)
UpPump == \/ client = "closed" /\ UpReadFails
          \/ UpSeesClosed \/ UpSeesOpen \/ UpTouches \/ UpPins
          \/ UpResolves \/ UpStores \/ UpSends \/ UpSendFails

-----------------------------------------------------------------------------
(* egressToClient.                                                         *)
(* Hosts answer what was sent to them, and anyone may send anything; the   *)
(* kernel reports the source in either form.                               *)
DownReceives ==
  /\ downPC = "read" /\ egress = "open" /\ downs < MaxDown
  /\ down' \in DownDatagrams
  /\ downs' = downs + 1
  /\ downPC' = "check"
  /\ UNCHANGED <<downRest, assocVars, histVars>>

DownReadFails ==
  /\ downPC = "read"
  /\ downPC' = "done"
  /\ UNCHANGED <<downRest, down, downs, assocVars, histVars>>

DownSeesClosed ==
  /\ downPC = "check" /\ closed
  /\ downPC' = "done" /\ down' = NoDatagram
  /\ UNCHANGED <<downRest, downs, assocVars, histVars>>

DownSeesOpen ==
  /\ downPC = "check" /\ ~closed
  /\ downPC' = "touch"
  /\ UNCHANGED <<downRest, down, downs, assocVars, histVars>>

DownTouches ==
  /\ downPC = "touch"
  /\ lastActive' = Wall
  /\ downPC' = "filter"
  /\ UNCHANGED <<downRest, down, downs, clientAddr, targets, histVars>>

(* Only remotes that were asked, ...                                       *)
Allowed(d) == UdpAddrPort(d.from) \in targets

DownDrops ==
  /\ downPC' = "read" /\ down' = NoDatagram
  /\ lost' = lost \cup ({down.from.host} \cap sent)

DownFilters ==
  /\ downPC = "filter"
  /\ IF Allowed(down) THEN downPC' = "address" /\ UNCHANGED <<down, lost>>
                      ELSE DownDrops
  /\ UNCHANGED <<downRest, downs, assocVars, upHist, passed, lateDown>>

(* ... and only to a known client.                                         *)
DownAddresses ==
  /\ downPC = "address"
  /\ IF clientAddr # NoClient THEN downPC' = "write" /\ UNCHANGED <<down, lost>>
                              ELSE DownDrops
  /\ UNCHANGED <<downRest, downs, assocVars, upHist, passed, lateDown>>

DownWrites ==
  /\ downPC = "write" /\ client = "open"
  /\ passed' = passed \cup {down.from.host}
  /\ lateDown' = IF closed THEN lateDown + 1 ELSE lateDown
  /\ downPC' = "read" /\ down' = NoDatagram
  /\ UNCHANGED <<downRest, downs, assocVars, upHist, lost>>

DownWriteFails ==
  /\ downPC = "write"
  /\ downPC' = "done" /\ down' = NoDatagram
  /\ UNCHANGED <<downRest, downs, assocVars, histVars>>

DownPump == \/ egress = "closed" /\ DownReadFails
            \/ DownSeesClosed \/ DownSeesOpen \/ DownTouches \/ DownFilters
            \/ DownAddresses \/ DownWrites \/ DownWriteFails

-----------------------------------------------------------------------------
AllDone == /\ hPC = "returned"
           /\ {ctlPC, dogPC, upPC, downPC} \subseteq {"none", "done"}

(* The session is over and its goroutines are gone.                        *)
Over == AllDone /\ UNCHANGED vars

Next == \/ Environment \/ Handler \/ Control \/ Watchdog
        \/ UpReceives \/ UpReadFails \/ UpPump
        \/ DownReceives \/ DownReadFails \/ DownPump \/ Over

Spec == Init /\ [][Next]_vars

(* The scheduler runs every goroutine that can run.  Nobody has to send a  *)
(* datagram, nor to leave, and nothing is assumed of the clocks.           *)
Fairness == /\ WF_vars(Handler) /\ WF_vars(Control) /\ WF_vars(Watchdog)
            /\ WF_vars(UpPump) /\ WF_vars(DownPump)

FairSpec == Spec /\ Fairness

-----------------------------------------------------------------------------
PumpPCs == {"none", "read", "check", "touch", "done"}

TypeOK ==
  /\ now \in 0..MaxTime /\ skew \in {0, Idle + 1}
  /\ peer \in {"open", "gone"} /\ deadline \in Nat
  /\ hPC \in {"client", "egress", "reply", "wait", "expire", "closeEgress", "closeClient",
             "returned"}
  /\ ctlPC \in {"none", "copy", "closeClient", "closeEgress", "done"}
  /\ dogPC \in {"none", "watch", "close", "closeClient", "closeEgress", "done"}
  /\ upPC \in PumpPCs \cup {"pin", "resolve", "store", "send"}
  /\ downPC \in PumpPCs \cup {"filter", "address", "write"}
  /\ ups \in 0..MaxUp /\ downs \in 0..MaxDown
  /\ {client, egress} \subseteq {"none", "open", "closed"}
  /\ clientAddr \in Clients \cup {NoClient} /\ targets \subseteq Hosts
  /\ lastActive \in Nat /\ closed \in BOOLEAN
  /\ (sent \cup lost \cup passed) \subseteq Hosts /\ servedClients \subseteq Clients
  /\ lateUp \in Nat /\ lateDown \in Nat

-----------------------------------------------------------------------------
(* server.go:302-306, 355-359.  The channel is looked at once a datagram,  *)
(* before a lookup that may take seconds, and the sockets are closed some  *)
(* time after it: at the end of a session each pump still lets the         *)
(* datagram through that it had begun with, and no other.                  *)
LateAtMostOnce == lateUp <= 1 /\ lateDown <= 1

(* server.go:201-235.  Whichever step of the set-up or of the session      *)
(* fails, the handler leaves no socket open behind it.                     *)
SocketsReleased == hPC = "returned" => "open" \notin {client, egress}

(* server.go:252-291.  A session is torn down for a reason only: its       *)
(* client left, the deadline of the handshake passed, both pumps stopped,  *)
(* or the watchdog has found it idle, which it cannot before the idle time *)
(* has passed since the session began, unless the wall clock was set.  In  *)
(* particular it spares a session that has just begun and seen no          *)
(* datagram.  (A datagram that comes between its look and its close does   *)
(* not save the session.)                                                  *)
TeardownHasACause ==
  [][ closed' /\ ~closed =>
        \/ peer = "gone" \/ now >= Handshake
        \/ dogPC = "close" /\ (skew # 0 \/ now > Idle)
        \/ upPC = "done" /\ downPC = "done" ]_vars

(* server.go:337-345, 370-380.  The pumps run side by side: an answer may  *)
(* come in as soon as the question is out, and its source address may have *)
(* another form than the target had; no answer is ever dropped for being   *)
(* unknown, nor for want of a client to send it to.                        *)
AnswersPass == lost = {}

(* The session as its clients know it: `opening` up to the success reply,  *)
(* `over` once both sockets are closed; a refused one is over when the     *)
(* handler returns.                                                        *)
Phase == IF ctlPC = "none" THEN IF hPC = "returned" THEN "over" ELSE "opening"
         ELSE IF "open" \notin {client, egress} THEN "over"
         ELSE IF closed THEN "closing" ELSE "open"

Session == INSTANCE UdpSession WITH phase <- Phase, owner <- clientAddr,
             asked <- targets, served <- servedClients

(* server.go:201-387.  Two pumps that share the pinned address and the set *)
(* of targets, and a tear-down that may come between any two of their      *)
(* steps, make a session as UdpSession describes it: only the first sender *)
(* is served, only hosts it asked for are passed on to it, and nothing     *)
(* goes out or comes in once the sockets are closed, late datagrams and    *)
(* lookups that return after the tear-down included.                       *)
SessionSpec == Session!Spec

(* README.md:70 promises that a session ends when the control connection   *)
(* does, or after 120 s without traffic.  The read deadline of the         *)
(* handshake (server.go:48), which handleConnect clears and                *)
(* handleUDPAssociate does not, ends it 15 s after it began.               *)
DocumentedTeardown ==
  [][ closed' /\ ~closed =>
        \/ peer = "gone"
        \/ dogPC = "close"
        \/ upPC = "done" /\ downPC = "done" ]_vars

-----------------------------------------------------------------------------
(* server.go:257-291.  When the client leaves, wherever the session is, or *)
(* when anything else closes `closed`, every goroutine of the session      *)
(* ends: none is left in a read, a tick or a send on `done`.               *)
TeardownCompletes == (peer = "gone" \/ closed) ~> AllDone
=============================================================================
