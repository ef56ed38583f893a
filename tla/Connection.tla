----------------------------- MODULE Connection -----------------------------
(***************************************************************************)
(* One connection to the proxy port, from Accept to the end of its         *)
(* handler: mixed.Handle sniffs the first byte, socks5.Server.ServeConn or *)
(* httpproxy.Server.ServeConn parses the request through the same          *)
(* bufio.Reader, dials, answers and relays.  The client may send ahead of  *)
(* the answers and may leave at any time.  The tunnel itself is the module *)
(* Pipe, a UDP session the module UdpAssoc.                                *)
(*                                                                         *)
(* What the client sends is a sequence of units; a unit is what one        *)
(* parsing step consumes (io.ReadFull and http.ReadRequest wait for all of *)
(* it).  A unit out of its place is read as what its bytes happen to say.  *)
(* A deadline is a timer that counts down to 0.                            *)
(***************************************************************************)
EXTENDS Integers, Sequences

CONSTANTS Scripts,     \* what a client may have to say, sequences of units
          UDPEnabled,  \* configuration `udp`
          Handshake,   \* socks5's handshakeTimeout, in ticks
          Header,      \* httpproxy's headerTimeout, in ticks
          Dial         \* dialTimeout and connectTimeout, in ticks

(* The units.                                                              *)
Greeting(methods)  == [kind |-> "greeting", methods |-> methods]
Credentials(valid) == [kind |-> "credentials", valid |-> valid]
Request(cmd)       == [kind |-> "request", cmd |-> cmd]
HTTPRequest(form)  == [kind |-> "http", form |-> form]
Data(n)            == [kind |-> "data", n |-> n]

Commands == {"connect", "udp", "bind", "badTarget"}

Units == [kind : {"greeting"}, methods : SUBSET {"none", "userpass"}]
           \cup [kind : {"credentials"}, valid : BOOLEAN]
           \cup [kind : {"request"}, cmd : Commands]
           \cup [kind : {"http"}, form : {"connect", "absolute", "origin"}]
           \cup [kind : {"data"}, n : Nat]

ASSUME ScriptsAssumption == Scripts \subseteq Seq(Units)
ASSUME TimerAssumption == {Handshake, Header, Dial} \subseteq Nat \ {0}
ASSUME UDPAssumption == UDPEnabled \in BOOLEAN

VARIABLES
  auth,      \* credentials are configured (AuthUser or AuthPass)
  toSend,    \* what the client has still to send
  arrived,   \* what is in the socket's receive buffer
  br,        \* what is in the bufio.Reader
  peer,      \* the client: "open" or "gone"
  hPC,       \* control of the handler goroutine
  proto,     \* "none" before the sniff, "socks" or "http"
  rTimer, wTimer, \* until the read and the write deadline of the connection
  cTimer,    \* until the deadline of the context of Dial and RoundTrip
  remote,    \* the dialled connection: "none", "open", "gone" or "closed"
  deferred,  \* the handler has deferred closing it
  answers,   \* what was written to the client
  forwarded  \* what was written to the remote

clientVars == <<toSend, peer>>
inVars     == <<arrived, br>>
timers     == <<rTimer, wTimer, cTimer>>
dialVars   == <<remote, deferred>>
vars == <<auth, clientVars, inVars, hPC, proto, timers, dialVars, answers, forwarded>>

NoTimer == -1

(* The unit a parsing step finds in the buffer, if there is one.           *)
HasUnit == br # <<>>
Unit    == Head(br)

-----------------------------------------------------------------------------
Init ==
  /\ auth \in BOOLEAN
  /\ toSend \in Scripts /\ arrived = <<>> /\ br = <<>> /\ peer = "open"
  /\ hPC = "sniff" /\ proto = "none"
  /\ rTimer = NoTimer /\ wTimer = NoTimer /\ cTimer = NoTimer
  /\ remote = "none" /\ deferred = FALSE /\ answers = <<>> /\ forwarded = <<>>

-----------------------------------------------------------------------------
(* The client, the remote and time.                                        *)
ClientSends ==
  /\ peer = "open" /\ toSend # <<>>
  /\ arrived' = Append(arrived, Head(toSend)) /\ toSend' = Tail(toSend)
  /\ UNCHANGED <<auth, peer, br, hPC, proto, timers, dialVars, answers, forwarded>>

ClientLeaves ==
  /\ peer = "open"
  /\ peer' = "gone"
  /\ UNCHANGED <<auth, toSend, inVars, hPC, proto, timers, dialVars, answers, forwarded>>

RemoteLeaves ==
  /\ remote = "open"
  /\ remote' = "gone"
  /\ UNCHANGED <<auth, clientVars, inVars, hPC, proto, timers, deferred, answers,
                 forwarded>>

Less(t) == IF t > 0 THEN t - 1 ELSE t

Tick ==
  /\ \E t \in {rTimer, wTimer, cTimer} : t > 0
  /\ rTimer' = Less(rTimer) /\ wTimer' = Less(wTimer) /\ cTimer' = Less(cTimer)
  /\ UNCHANGED <<auth, clientVars, inVars, hPC, proto, dialVars, answers, forwarded>>

-----------------------------------------------------------------------------
(* A return statement of a handler, wherever it stands, and what the       *)
(* deferred calls do then: those of the three functions that dial close    *)
(* the dialled connection, ServeConn's and Handle's the client's.          *)
Leave == hPC' = "unwind"

Unwind ==
  /\ hPC = "unwind"
  /\ remote' = IF deferred THEN "closed" ELSE remote
  /\ hPC' = "returned"
  /\ UNCHANGED <<auth, clientVars, inVars, proto, timers, deferred, answers, forwarded>>

(* A write to the client, and a write that fails: past the deadline, or    *)
(* because the client has left, which the kernel may not know yet.         *)
Write(a)   == wTimer # 0 /\ answers' = Append(answers, a)
WriteFails == (wTimer = 0 \/ peer = "gone") /\ UNCHANGED answers

(* A last answer, whose failure is ignored.                                *)
Refuse(a) == (Write(a) \/ WriteFails) /\ Leave

Parsing == hPC \in {"sniff", "greeting", "auth", "request", "header"}

(* Faulty variant: the buffer shares its data with the socket.             *)
FillKeeping ==
  /\ Parsing /\ ~HasUnit /\ arrived # <<>> /\ rTimer # 0
  /\ \E n \in DOMAIN arrived : br' = SubSeq(arrived, 1, n)
  /\ UNCHANGED <<auth, arrived, clientVars, hPC, proto, timers, dialVars, answers,
                 forwarded>>

(* An empty bufio.Reader reads once, and gets some of what has arrived.    *)
Fill ==
  /\ Parsing /\ ~HasUnit /\ arrived # <<>> /\ rTimer # 0
  /\ \E n \in DOMAIN arrived :
        /\ br' = SubSeq(arrived, 1, n)
        /\ arrived' = SubSeq(arrived, n + 1, Len(arrived))
  /\ UNCHANGED <<auth, clientVars, hPC, proto, timers, dialVars, answers, forwarded>>

(* The deadline passes, or the client ends or resets the connection.  A    *)
(* request that breaks off in its target is answered.                      *)
ReadFails ==
  /\ Parsing /\ ~HasUnit /\ (rTimer = 0 \/ peer = "gone")
  /\ \/ Leave /\ UNCHANGED answers
     \/ hPC = "request" /\ Refuse("refused")
  /\ UNCHANGED <<auth, clientVars, inVars, proto, timers, dialVars, forwarded>>

(* A SOCKS5 greeting and a SOCKS5 request begin with 5.                    *)
IsSocks5(u) == u.kind \in {"greeting", "request"}

(* Peek(1), without a deadline.  SOCKS5 sets a deadline for reads and      *)
(* writes, HTTP, which gets all else, one for reads.                       *)
Sniff ==
  /\ hPC = "sniff" /\ HasUnit
  /\ \/ /\ IsSocks5(Unit) /\ proto' = "socks" /\ hPC' = "greeting"
        /\ rTimer' = Handshake /\ wTimer' = Handshake
     \/ /\ ~IsSocks5(Unit) /\ proto' = "http" /\ hPC' = "header"
        /\ rTimer' = Header /\ UNCHANGED wTimer
  /\ UNCHANGED <<auth, clientVars, inVars, cTimer, dialVars, answers, forwarded>>

-----------------------------------------------------------------------------
(* socks5.Server.                                                          *)
Required == IF auth THEN "userpass" ELSE "none"

(* Faulty variant: "none" is good enough whatever is configured.           *)
ChosenLeniently(methods) ==
  CASE Required \in methods -> Required [] "none" \in methods -> "none" [] OTHER -> "reject"

Chosen(methods) == IF Required \in methods THEN Required ELSE "reject"

(* A request sent without a greeting is read as one: 5, the number of      *)
(* methods, and as many bytes, of which the first is 0, "none".  What is   *)
(* left of it makes no sense to the next step.                             *)
MethodsRead(u) == IF u.kind = "greeting" THEN {u.methods}
                  ELSE {{"none"}, {"none", "userpass"}}

LeftBy(u) == IF u.kind = "greeting" THEN <<>> ELSE <<Data(0)>>

Negotiate ==
  /\ hPC = "greeting" /\ HasUnit
  /\ br' = LeftBy(Unit) \o Tail(br)
  /\ \E methods \in MethodsRead(Unit) :
       LET method == Chosen(methods)
       IN  \/ /\ method # "reject" /\ Write("method")
              /\ hPC' = IF method = "userpass" THEN "auth" ELSE "request"
           \/ method # "reject" /\ WriteFails /\ Leave
           \/ method = "reject" /\ Refuse("noMethod")
  /\ UNCHANGED <<auth, clientVars, arrived, proto, timers, dialVars, forwarded>>

(* Faulty variant: the request is read after a refusal as well.            *)
AuthenticateGoesOn ==
  /\ hPC = "auth" /\ HasUnit
  /\ br' = Tail(br)
  /\ \/ Unit.kind # "credentials" /\ Leave /\ UNCHANGED answers
     \/ /\ Unit.kind = "credentials"
        /\ Write(IF Unit.valid THEN "granted" ELSE "denied")
        /\ hPC' = "request"
  /\ UNCHANGED <<auth, clientVars, arrived, proto, timers, dialVars, forwarded>>

(* RFC 1929; another first byte than 1 is not answered.                    *)
Authenticate ==
  /\ hPC = "auth" /\ HasUnit
  /\ br' = Tail(br)
  /\ \/ Unit.kind # "credentials" /\ Leave /\ UNCHANGED answers
     \/ /\ Unit.kind = "credentials" /\ Unit.valid /\ Write("granted")
        /\ hPC' = "request"
     \/ Unit.kind = "credentials" /\ Unit.valid /\ WriteFails /\ Leave
     \/ Unit.kind = "credentials" /\ ~Unit.valid /\ Refuse("denied")
  /\ UNCHANGED <<auth, clientVars, arrived, proto, timers, dialVars, forwarded>>

(* Faulty variant: Dial gets a context without a deadline.                 *)
DialAtLeisure(pc) == hPC' = pc /\ UNCHANGED cTimer

(* context.WithTimeout, and on to Dial or RoundTrip.                       *)
DialWithin(pc) == hPC' = pc /\ cTimer' = Dial

(* A greeting in the place of the request begins with 5, too.              *)
CommandsRead(u) == CASE u.kind = "request"  -> {u.cmd}
                     [] u.kind = "greeting" -> Commands
                     [] OTHER               -> {}

(* CONNECT dials, UDP ASSOCIATE goes to its session; BIND, an unknown      *)
(* command and a target that does not parse are refused; what does not     *)
(* begin with 5 is not answered.                                           *)
TakeCommand(cmd) ==
  \/ cmd = "connect" /\ DialWithin("dial") /\ UNCHANGED answers
  \/ cmd = "udp" /\ UDPEnabled /\ hPC' = "udp" /\ UNCHANGED <<answers, cTimer>>
  \/ /\ cmd \in {"bind", "badTarget"} \/ (cmd = "udp" /\ ~UDPEnabled)
     /\ Refuse("refused") /\ UNCHANGED cTimer

TakeRequest ==
  /\ hPC = "request" /\ HasUnit
  /\ br' = Tail(br)
  /\ \/ ~IsSocks5(Unit) /\ Leave /\ UNCHANGED <<answers, cTimer>>
     \/ \E cmd \in CommandsRead(Unit) : TakeCommand(cmd)
  /\ UNCHANGED <<auth, clientVars, arrived, proto, rTimer, wTimer, dialVars, forwarded>>

(* Faulty variant: the deadline of the handshake stays.                    *)
AnswerConnectTimed ==
  /\ hPC = "reply" /\ proto = "socks"
  /\ Write("ok") /\ hPC' = "tunnel"
  /\ UNCHANGED <<auth, clientVars, inVars, proto, timers, dialVars, forwarded>>

(* The reply, and no deadline from here on.                                *)
AnswerConnect ==
  /\ hPC = "reply" /\ proto = "socks"
  /\ Write("ok") /\ hPC' = "tunnel"
  /\ rTimer' = NoTimer /\ wTimer' = NoTimer
  /\ UNCHANGED <<auth, clientVars, inVars, proto, cTimer, dialVars, forwarded>>

-----------------------------------------------------------------------------
(* httpproxy.Server.                                                       *)

(* CONNECT dials, an absolute URL is forwarded, a relative one answered    *)
(* with 400; what http.ReadRequest does not understand is not answered.    *)
TakeHTTPRequest ==
  /\ hPC = "header" /\ HasUnit
  /\ br' = Tail(br)
  /\ \/ /\ Unit.kind = "http" /\ Unit.form \in {"connect", "absolute"}
        /\ DialWithin(IF Unit.form = "connect" THEN "dial" ELSE "roundtrip")
        /\ UNCHANGED answers
     \/ /\ Unit.kind = "http" /\ Unit.form = "origin"
        /\ Refuse("refused")
        /\ UNCHANGED cTimer
     \/ Unit.kind # "http" /\ Leave /\ UNCHANGED <<answers, cTimer>>
  /\ UNCHANGED <<auth, clientVars, arrived, proto, rTimer, wTimer, dialVars, forwarded>>

(* "200 Connection established"; only a read deadline was set.             *)
AnswerEstablished ==
  /\ hPC = "reply" /\ proto = "http"
  /\ Write("ok") /\ hPC' = "tunnel"
  /\ rTimer' = NoTimer
  /\ UNCHANGED <<auth, clientVars, inVars, proto, wTimer, cTimer, dialVars, forwarded>>

(* RoundTrip of a forwarded request, up to the header of the response,     *)
(* whose body, and connection, the handler then has deferred to close.     *)
RoundTrip ==
  /\ hPC = "roundtrip" /\ cTimer # 0
  /\ remote' = "open" /\ deferred' = TRUE
  /\ hPC' = "respond"
  /\ UNCHANGED <<auth, clientVars, inVars, proto, timers, answers, forwarded>>

RoundTripFails ==
  /\ hPC = "roundtrip"
  /\ hPC' = "refuse"
  /\ UNCHANGED <<auth, clientVars, inVars, proto, timers, dialVars, answers, forwarded>>

(* resp.Write copies the body, which the context of the request cuts off;  *)
(* nothing limits a write to a client that does not read.                  *)
Respond ==
  /\ hPC = "respond"
  /\ \/ cTimer # 0 /\ Write("response")
     \/ cTimer = 0 /\ Write("cut")
     \/ remote = "gone" /\ Write("cut")
     \/ WriteFails
  /\ Leave
  /\ UNCHANGED <<auth, clientVars, inVars, proto, timers, dialVars, forwarded>>

-----------------------------------------------------------------------------
(* Common to both handlers.                                                *)

(* Faulty variant: no deferred call closes the connection, because Pipe    *)
(* does.                                                                   *)
DialSucceedsOnly ==
  /\ hPC = "dial" /\ cTimer # 0
  /\ remote' = "open" /\ hPC' = "reply"
  /\ UNCHANGED <<auth, clientVars, inVars, proto, timers, deferred, answers, forwarded>>

DialSucceeds ==
  /\ hPC = "dial" /\ cTimer # 0
  /\ remote' = "open" /\ deferred' = TRUE /\ hPC' = "reply"
  /\ UNCHANGED <<auth, clientVars, inVars, proto, timers, answers, forwarded>>

(* At once, for want of a WAN adapter or an address, after a while, or     *)
(* when the context ends.                                                  *)
DialFails ==
  /\ hPC = "dial"
  /\ hPC' = "refuse"
  /\ UNCHANGED <<auth, clientVars, inVars, proto, timers, dialVars, answers, forwarded>>

(* Faulty variant: the failure is logged and no more.                      *)
RefuseSilently ==
  /\ hPC = "refuse"
  /\ Leave
  /\ UNCHANGED <<auth, clientVars, inVars, proto, timers, dialVars, answers, forwarded>>

(* A SOCKS5 failure reply, or "502 Bad Gateway".                           *)
RefuseDial ==
  /\ hPC = "refuse"
  /\ Refuse("refused")
  /\ UNCHANGED <<auth, clientVars, inVars, proto, timers, dialVars, forwarded>>

(* The success answer cannot be written any more.                          *)
AnswerFails ==
  /\ hPC = "reply"
  /\ WriteFails /\ Leave
  /\ UNCHANGED <<auth, clientVars, inVars, proto, timers, dialVars, forwarded>>

(* relay.Pipe, which reads from the connection and not from br, and closes *)
(* both connections at its end.                                            *)
PipeForwards ==
  /\ hPC = "tunnel" /\ arrived # <<>> /\ rTimer # 0
  /\ forwarded' = Append(forwarded, Head(arrived))
  /\ arrived' = Tail(arrived)
  /\ UNCHANGED <<auth, clientVars, br, hPC, proto, timers, dialVars, answers>>

PipeAnswers ==
  /\ hPC = "tunnel" /\ remote = "open" /\ answers[Len(answers)] # "data"
  /\ Write("data")
  /\ UNCHANGED <<auth, clientVars, inVars, hPC, proto, timers, dialVars, forwarded>>

PipeEnds ==
  /\ hPC = "tunnel"
  /\ peer = "gone" \/ remote = "gone" \/ 0 \in {rTimer, wTimer}
  /\ remote' = "closed"
  /\ Leave
  /\ UNCHANGED <<auth, clientVars, inVars, proto, timers, deferred, answers, forwarded>>

-----------------------------------------------------------------------------
(* What the network makes of a dial, if it makes anything of it.           *)
Dialled == DialSucceeds \/ RoundTrip \/ DialFails \/ RoundTripFails

(* What the handler owes: of a dial, no more than its end at the deadline. *)
SetUp == \/ Fill \/ ReadFails \/ Sniff
         \/ Negotiate \/ Authenticate \/ TakeRequest \/ AnswerConnect
         \/ TakeHTTPRequest \/ AnswerEstablished
         \/ cTimer = 0 /\ (DialFails \/ RoundTripFails)
         \/ RefuseDial \/ AnswerFails \/ Unwind

Relaying == PipeForwards \/ PipeAnswers \/ PipeEnds \/ Respond

Over == hPC \in {"returned", "udp"} /\ UNCHANGED vars

Next == \/ ClientSends \/ ClientLeaves \/ RemoteLeaves \/ Tick
        \/ Dialled \/ SetUp \/ Relaying \/ Over

Spec == Init /\ [][Next]_vars

(* Time passes, and the goroutine runs when it can.  Nobody has to send,   *)
(* to answer or to leave, and a dial need not end before its deadline.     *)
Fairness == WF_vars(Tick) /\ WF_vars(SetUp)

FairSpec == Spec /\ Fairness

-----------------------------------------------------------------------------
Verdicts == {"noMethod", "denied", "refused", "ok", "response", "cut"}

Timer(n) == NoTimer..n

(* The types; and no unit is in two places.                                *)
TypeOK ==
  /\ auth \in BOOLEAN /\ peer \in {"open", "gone"}
  /\ {toSend, arrived, br, forwarded} \subseteq Seq(Units)
  /\ \E s \in Scripts : Len(toSend) + Len(arrived) + Len(br) + Len(forwarded) =< Len(s)
  /\ hPC \in {"sniff", "greeting", "auth", "request", "header", "dial", "roundtrip",
              "reply", "refuse", "respond", "tunnel", "udp", "unwind",
              "returned"}
  /\ proto \in {"none", "socks", "http"}
  /\ rTimer \in Timer(Handshake) \cup Timer(Header)
  /\ wTimer \in Timer(Handshake) /\ cTimer \in Timer(Dial)
  /\ remote \in {"none", "open", "gone", "closed"} /\ deferred \in BOOLEAN
  /\ answers \in Seq(Verdicts \cup {"method", "granted", "data"})

(* socks5/server.go:44-87, httpproxy/server.go:29-97.  A client that talks *)
(* ahead cannot get the answers out of step: there is one verdict on its   *)
(* request, nothing comes after a refusal, the remote's bytes come after   *)
(* the success and the success after the dial.                             *)
OneVerdict ==
  \A i \in DOMAIN answers :
    /\ answers[i] \in Verdicts \ {"ok"} => i = Len(answers)
    /\ answers[i] = "ok" => /\ remote # "none"
                            /\ \A j \in i + 1..Len(answers) : answers[j] = "data"
    /\ answers[i] = "data" => \E j \in 1..i - 1 : answers[j] = "ok"

(* socks5/server.go:102-112, 124-146.  With credentials configured, no     *)
(* SOCKS5 request is dialled for nor handed to a UDP session unless this   *)
(* connection has been granted before, in whatever order the client sends. *)
AdmittedFirst ==
  auth /\ proto = "socks" /\ (cTimer # NoTimer \/ hPC = "udp")
    => \E i \in DOMAIN answers : answers[i] = "granted"

(* socks5/server.go:175, httpproxy/server.go:67, 99.  Each of the three    *)
(* functions that dial defers the close of what it dialled, and of nothing *)
(* that was not: a dialled connection is closed on every way out, also     *)
(* where Pipe, which would close it, is not reached, because the client    *)
(* left or the handshake expired while it was dialled.                     *)
RemoteReleased == hPC = "returned" => remote \in {"none", "closed"}

(* A client that has asked and stays is left without a verdict for one     *)
(* reason only: the SOCKS5 deadline of 15 s, which is shorter than the     *)
(* 20 s of the dial and has passed before the answer was there.            *)
SilentOnlyWhenLate ==
  hPC = "returned" /\ peer = "open" /\ cTimer # NoTimer
    => \/ \E i \in DOMAIN answers : answers[i] \in Verdicts
       \/ proto = "socks" /\ wTimer = 0

(* socks5/server.go:48, 184, httpproxy/server.go:36, 72.  A tunnel ends    *)
(* because one of its ends has left, and never of a deadline that was set  *)
(* for the handshake.                                                      *)
TunnelOutlivesHandshake ==
  [][ hPC = "tunnel" /\ hPC' # "tunnel" => peer = "gone" \/ remote = "gone" ]_vars

(* socks5/server.go:48, 165, httpproxy/server.go:36, 58, 91.  Once it has  *)
(* been sniffed, a connection is set up or given up: a client that falls   *)
(* silent in the middle is cut off by the deadline of its protocol, and a  *)
(* remote that never answers by the context of the dial, also when the     *)
(* client has left by then; none keeps the goroutine for ever.             *)
SetUpEnds ==
  proto # "none" ~> hPC \in {"tunnel", "respond", "udp", "returned"}

(* mixed.go:11 demands that a handler goes on reading from br, which may   *)
(* hold more than the sniff needed.  Then the remote gets what the client  *)
(* sent after its request, from the first byte on.  Both handlers pass the *)
(* bare connection to Pipe, and what is in br by then is lost.             *)
StreamIntact == \A i \in DOMAIN forwarded : forwarded[i] = Data(i)
=============================================================================
