-------------------------- MODULE ConnectionProofs ---------------------------
(***************************************************************************)
(* Proofs about Connection, for all a client may have to say, with any     *)
(* deadlines.                                                              *)
(***************************************************************************)
EXTENDS Connection, TLAPS

Replies == Verdicts \cup {"method", "granted", "data"}

(* What the answers amount to so far.                                      *)
Quiet   == \A i \in DOMAIN answers : answers[i] \in {"method", "granted"}
Granted == \E i \in DOMAIN answers : answers[i] = "granted"
Judged  == \E i \in DOMAIN answers : answers[i] \in Verdicts
Said    == \E i \in DOMAIN answers : answers[i] = "ok"

(* The stream: every unit is in one place at most.                         *)
StreamInv ==
  /\ {toSend, arrived, br, forwarded} \subseteq Seq(Units)
  /\ \E s \in Scripts : Len(toSend) + Len(arrived) + Len(br) + Len(forwarded) =< Len(s)

ControlTypes ==
  /\ auth \in BOOLEAN /\ peer \in {"open", "gone"}
  /\ hPC \in {"sniff", "greeting", "auth", "request", "header", "dial", "roundtrip",
              "reply", "refuse", "respond", "tunnel", "udp", "unwind",
              "returned"}
  /\ proto \in {"none", "socks", "http"}
  /\ rTimer \in Timer(Handshake) \cup Timer(Header)
  /\ wTimer \in Timer(Handshake) /\ cTimer \in Timer(Dial)
  /\ remote \in {"none", "open", "gone", "closed"} /\ deferred \in BOOLEAN

(* Which handler has the connection, and which deadlines it has set.       *)
Deadlines ==
  /\ hPC = "sniff" => proto = "none"
  /\ hPC \in {"greeting", "auth", "request", "udp"} => proto = "socks"
  /\ hPC \in {"header", "roundtrip", "respond"} => proto = "http"
  /\ Parsing => cTimer = NoTimer
  /\ proto # "socks" => wTimer = NoTimer
  /\ hPC = "tunnel" => rTimer = NoTimer /\ wTimer = NoTimer

(* What has been said by then.                                             *)
Answered ==
  /\ answers \in Seq(Replies)
  /\ hPC \notin {"tunnel", "unwind", "returned"} => Quiet
  /\ hPC = "tunnel" => Said
  /\ hPC \in {"reply", "respond", "tunnel"} => remote # "none"
  /\ OneVerdict

Admitted ==
  auth /\ proto = "socks" /\ (cTimer # NoTimer \/ hPC \in {"request", "udp"}) => Granted

(* What was dialled will be closed, or has been.                           *)
Deferred ==
  /\ remote \in {"open", "gone"} => deferred
  /\ RemoteReleased

Silence ==
  hPC \in {"unwind", "returned"} /\ peer = "open" /\ cTimer # NoTimer
    => Judged \/ (proto = "socks" /\ wTimer = 0)

ControlInv ==
  ControlTypes /\ Deadlines /\ Answered /\ Admitted /\ Deferred /\ Silence

ConnectionInv == StreamInv /\ ControlInv

-----------------------------------------------------------------------------
(* Sequences the units pass through.                                       *)
LEMMA Appended ==
  ASSUME NEW S, NEW s \in Seq(S), NEW e \in S
  PROVE  /\ Append(s, e) \in Seq(S) /\ Len(Append(s, e)) = Len(s) + 1
         /\ DOMAIN Append(s, e) = 1..Len(s) + 1 /\ DOMAIN s = 1..Len(s)
         /\ \A i \in DOMAIN s : Append(s, e)[i] = s[i]
         /\ Append(s, e)[Len(s) + 1] = e
OBVIOUS

LEMMA Taken ==
  ASSUME NEW S, NEW s \in Seq(S), s # <<>>
  PROVE  Head(s) \in S /\ Tail(s) \in Seq(S) /\ Len(Tail(s)) = Len(s) - 1 /\ Len(s) \in Nat
OBVIOUS

LEMMA Cut ==
  ASSUME NEW S, NEW s \in Seq(S), NEW n \in DOMAIN s
  PROVE  /\ SubSeq(s, 1, n) \in Seq(S) /\ Len(SubSeq(s, 1, n)) = n
         /\ SubSeq(s, n + 1, Len(s)) \in Seq(S) /\ Len(SubSeq(s, n + 1, Len(s))) = Len(s) - n
         /\ n \in Nat
OBVIOUS

(* Nothing is made up and nothing taken twice.                             *)
LEMMA StreamStep ==
  ASSUME StreamInv, [Next]_vars
  PROVE  StreamInv'
<1> DEFINE total == Len(toSend) + Len(arrived) + Len(br) + Len(forwarded)
<1>1. /\ toSend \in Seq(Units) /\ arrived \in Seq(Units) /\ br \in Seq(Units)
      /\ forwarded \in Seq(Units) /\ Len(toSend) \in Nat /\ Len(arrived) \in Nat
      /\ Len(br) \in Nat /\ Len(forwarded) \in Nat
  BY DEF StreamInv
<1>2. PICK s \in Scripts : total <= Len(s) /\ Len(s) \in Nat
  BY ScriptsAssumption DEF StreamInv
<1>3. ASSUME /\ toSend' \in Seq(Units) /\ arrived' \in Seq(Units) /\ br' \in Seq(Units)
             /\ forwarded' \in Seq(Units)
             /\ Len(toSend') + Len(arrived') + Len(br') + Len(forwarded') <= total
      PROVE  StreamInv'
  <2>1. /\ Len(toSend') \in Nat /\ Len(arrived') \in Nat
        /\ Len(br') \in Nat /\ Len(forwarded') \in Nat
    BY <1>3
  <2>2. Len(toSend') + Len(arrived') + Len(br') + Len(forwarded') <= Len(s)
    BY <1>1, <1>2, <1>3, <2>1
  <2> QED
    BY <1>3, <2>2 DEF StreamInv
<1>4. CASE ClientSends
  <2>1. Head(toSend) \in Units /\ Tail(toSend) \in Seq(Units) /\ Len(Tail(toSend)) = Len(toSend) - 1
    BY <1>1, <1>4, Taken DEF ClientSends
  <2>2. arrived' \in Seq(Units) /\ Len(arrived') = Len(arrived) + 1
    BY <1>1, <1>4, <2>1, Appended DEF ClientSends
  <2>3. toSend' = Tail(toSend) /\ br' = br /\ forwarded' = forwarded
    BY <1>4 DEF ClientSends
  <2> QED
    BY <1>1, <1>3, <2>1, <2>2, <2>3
<1>5. CASE Fill
  <2>1. PICK n \in DOMAIN arrived : /\ br' = SubSeq(arrived, 1, n)
                                    /\ arrived' = SubSeq(arrived, n + 1, Len(arrived))
    BY <1>5 DEF Fill
  <2>2. /\ br' \in Seq(Units) /\ Len(br') = n /\ n \in Nat
        /\ arrived' \in Seq(Units) /\ Len(arrived') = Len(arrived) - n
    BY <1>1, <2>1, Cut
  <2>3. toSend' = toSend /\ forwarded' = forwarded
    BY <1>5 DEF Fill, clientVars
  <2>4. Len(arrived') + Len(br') = Len(arrived) /\ Len(arrived') \in Int /\ Len(br') \in Int
    <3> DEFINE a == Len(arrived)
    <3>1. a \in Nat /\ n \in Nat /\ Len(br') = n /\ Len(arrived') = a - n
      BY <1>1, <2>2
    <3> HIDE DEF a
    <3>2. a - n \in Int /\ (a - n) + n = a
      BY <3>1
    <3> QED
      BY <3>1, <3>2 DEF a
  <2>5. Len(toSend') + Len(arrived') + Len(br') + Len(forwarded') <= total
    BY <1>1, <2>3, <2>4
  <2> QED
    BY <1>1, <1>3, <2>2, <2>3, <2>5
<1>6. CASE Negotiate \/ Authenticate \/ TakeRequest \/ TakeHTTPRequest
  <2>1. /\ br # <<>> /\ toSend' = toSend /\ arrived' = arrived /\ forwarded' = forwarded
        /\ br' = Tail(br) \/ br' = LeftBy(Unit) \o Tail(br)
    <3>1. Negotiate => br # <<>> /\ UNCHANGED <<toSend, arrived, forwarded>>
                         /\ br' = LeftBy(Unit) \o Tail(br)
      BY DEF Negotiate, HasUnit, clientVars
    <3>2. Authenticate \/ TakeRequest \/ TakeHTTPRequest
            => br # <<>> /\ UNCHANGED <<toSend, arrived, forwarded>> /\ br' = Tail(br)
      BY DEF Authenticate, TakeRequest, TakeHTTPRequest, HasUnit, clientVars
    <3> QED
      BY <1>6, <3>1, <3>2
  <2>2. Tail(br) \in Seq(Units) /\ Len(Tail(br)) = Len(br) - 1
    BY <1>1, <2>1, Taken
  <2>3. LeftBy(Unit) = <<>> \/ LeftBy(Unit) = <<Data(0)>>
    BY DEF LeftBy
  <2>4. Data(0) \in Units
    BY DEF Data, Units
  <2>5. /\ <<>> \o Tail(br) = Tail(br)
        /\ <<Data(0)>> \o Tail(br) \in Seq(Units)
        /\ Len(<<Data(0)>> \o Tail(br)) = Len(br)
    <3> DEFINE d == Data(0)
               t == Tail(br)
    <3>1. d \in Units /\ t \in Seq(Units) /\ Len(t) = Len(br) - 1
      BY <2>2, <2>4
    <3> HIDE DEF d, t
    <3>2. <<>> \o t = t
      BY <3>1
    <3>3. <<d>> \o t \in Seq(Units) /\ Len(<<d>> \o t) = 1 + Len(t)
      BY <3>1
    <3> QED
      BY <1>1, <3>1, <3>2, <3>3 DEF d, t
  <2>6. br' \in Seq(Units) /\ Len(br') <= Len(br)
    <3>1. CASE br' = Tail(br)
      BY <1>1, <2>2, <3>1
    <3>2. CASE br' = LeftBy(Unit) \o Tail(br) /\ LeftBy(Unit) = <<>>
      <4>1. br' = Tail(br)
        BY <2>5, <3>2
      <4> QED
        BY <3>1, <4>1
    <3>3. CASE br' = LeftBy(Unit) \o Tail(br) /\ LeftBy(Unit) = <<Data(0)>>
      <4>1. br' = <<Data(0)>> \o Tail(br)
        BY <3>3
      <4>2. br' \in Seq(Units) /\ Len(br') = Len(br)
        BY <2>5, <4>1
      <4> QED
        BY <1>1, <4>2
    <3> QED
      BY <2>1, <2>3, <3>1, <3>2, <3>3
  <2> QED
    BY <1>1, <1>3, <2>1, <2>6
<1>7. CASE PipeForwards
  <2>1. /\ arrived # <<>> /\ forwarded' = Append(forwarded, Head(arrived))
        /\ arrived' = Tail(arrived) /\ toSend' = toSend /\ br' = br
    BY <1>7 DEF PipeForwards, clientVars
  <2>2. Head(arrived) \in Units /\ arrived' \in Seq(Units) /\ Len(arrived') = Len(arrived) - 1
    BY <1>1, <2>1, Taken
  <2>3. forwarded' \in Seq(Units) /\ Len(forwarded') = Len(forwarded) + 1
    BY <1>1, <2>1, <2>2, Appended
  <2> QED
    BY <1>1, <1>3, <2>1, <2>2, <2>3
<1>8. CASE UNCHANGED <<toSend, arrived, br, forwarded>>
  BY <1>1, <1>3, <1>8
<1>9. \/ ClientSends \/ Fill \/ PipeForwards
      \/ Negotiate \/ Authenticate \/ TakeRequest \/ TakeHTTPRequest
      \/ UNCHANGED <<toSend, arrived, br, forwarded>>
  BY DEF Next, Dialled, SetUp, Relaying, Over, Unwind, ClientLeaves, RemoteLeaves, Tick, ReadFails, Sniff,
         AnswerConnect, AnswerEstablished, RoundTrip, RoundTripFails, DialSucceeds, DialFails,
         RefuseDial, AnswerFails, PipeAnswers, PipeEnds, Respond, vars, clientVars, inVars
<1> QED
  BY <1>4, <1>5, <1>6, <1>7, <1>8, <1>9

-----------------------------------------------------------------------------
(* The answers: nothing is said, or one thing more.                        *)
LEMMA Unspoken ==
  ASSUME answers' = answers
  PROVE  /\ Quiet' = Quiet /\ Granted' = Granted /\ Judged' = Judged /\ Said' = Said
         /\ OneVerdict /\ (remote # "none" => remote' # "none") => OneVerdict'
BY DEF Quiet, Granted, Judged, Said, OneVerdict

LEMMA QuietMeansOne ==
  ASSUME Quiet
  PROVE  OneVerdict
BY DEF Quiet, OneVerdict, Verdicts

LEMMA Spoken ==
  ASSUME answers \in Seq(Replies), NEW a \in Replies, answers' = Append(answers, a)
  PROVE  /\ answers' \in Seq(Replies)
         /\ Granted => Granted'
         /\ a = "granted" => Granted'
         /\ a \in Verdicts => Judged'
         /\ a = "ok" => Said'
         /\ Said => Said'
         /\ Quiet /\ a \in {"method", "granted"} => Quiet'
         /\ Quiet /\ a \in Verdicts \ {"ok"} => OneVerdict'
         /\ Quiet /\ a = "ok" /\ remote' # "none" => OneVerdict'
         /\ Said /\ OneVerdict /\ a = "data" /\ remote' # "none" => OneVerdict'
<1> DEFINE n == Len(answers)
<1>1. /\ answers' \in Seq(Replies) /\ n \in Nat
      /\ DOMAIN answers = 1..n /\ DOMAIN answers' = 1..(n + 1) /\ Len(answers') = n + 1
      /\ \A i \in 1..n : answers'[i] = answers[i]
      /\ answers'[n + 1] = a
  BY Appended
<1> HIDE DEF n
<1>2. Granted => Granted'
  BY <1>1 DEF Granted
<1>3. a = "granted" => Granted'
  BY <1>1 DEF Granted
<1>4. a \in Verdicts => Judged'
  BY <1>1 DEF Judged
<1>5. a = "ok" => Said'
  BY <1>1 DEF Said
<1>6. Said => Said'
  BY <1>1 DEF Said
<1>7. Quiet /\ a \in {"method", "granted"} => Quiet'
  BY <1>1 DEF Quiet
<1>8. ASSUME Quiet, a \in Verdicts \ {"ok"} PROVE OneVerdict'
  <2>1. \A i \in 1..n : answers'[i] \in {"method", "granted"}
    BY <1>1, <1>8 DEF Quiet
  <2>2. \A i \in 1..(n + 1) : i \in 1..n \/ i = n + 1
    BY <1>1
  <2> QED
    BY <1>1, <1>8, <2>1, <2>2 DEF OneVerdict, Verdicts
<1>9. ASSUME Quiet, a = "ok", remote' # "none" PROVE OneVerdict'
  <2>1. \A i \in 1..n : answers'[i] \in {"method", "granted"}
    BY <1>1, <1>9 DEF Quiet
  <2>2. \A i \in 1..(n + 1) : i \in 1..n \/ i = n + 1
    BY <1>1
  <2>3. (n + 1) + 1..n + 1 = {}
    BY <1>1
  <2> QED
    BY <1>1, <1>9, <2>1, <2>2, <2>3 DEF OneVerdict, Verdicts
<1>10. ASSUME Said, OneVerdict, a = "data", remote' # "none" PROVE OneVerdict'
  <2>1. PICK k \in 1..n : answers[k] = "ok" /\ \A j \in k + 1..n : answers[j] = "data"
    BY <1>1, <1>10 DEF Said, OneVerdict, n
  <2>2. ASSUME NEW i \in 1..(n + 1)
        PROVE  /\ answers'[i] \notin Verdicts \ {"ok"}
               /\ answers'[i] = "ok" => \A j \in i + 1..n + 1 : answers'[j] = "data"
               /\ answers'[i] = "data" => \E j \in 1..i - 1 : answers'[j] = "ok"
    <3>1. CASE i = n + 1
      <4>1. k \in 1..i - 1 /\ answers'[k] = "ok" /\ i + 1..n + 1 = {}
        BY <1>1, <2>1, <3>1
      <4> QED
        BY <1>1, <1>10, <3>1, <4>1 DEF Verdicts
    <3>2. CASE i # n + 1
      <4>1. i \in 1..n /\ answers'[i] = answers[i]
        BY <1>1, <3>2
      <4>2. answers[i] \notin Verdicts \ {"ok"}
        <5>1. SUFFICES ASSUME answers[i] \in Verdicts \ {"ok"} PROVE FALSE
          OBVIOUS
        <5>2. i = n
          BY <1>1, <1>10, <4>1, <5>1 DEF OneVerdict, n
        <5>3. k # n
          BY <2>1, <5>1, <5>2
        <5>4. n \in k + 1..n
          BY <1>1, <2>1, <5>3
        <5>5. answers[n] = "data"
          BY <2>1, <5>4
        <5> QED
          BY <5>1, <5>2, <5>5 DEF Verdicts
      <4>3. answers[i] = "ok" => \A j \in i + 1..n : answers[j] = "data"
        BY <1>1, <1>10, <4>1 DEF OneVerdict, n
      <4>4. answers[i] = "data" => \E j \in 1..i - 1 : answers[j] = "ok"
        BY <1>1, <1>10, <4>1 DEF OneVerdict
      <4>5. \A j \in i + 1..n + 1 : j = n + 1 \/ j \in i + 1..n
        BY <1>1, <4>1
      <4>6. \A j \in i + 1..n : answers'[j] = answers[j]
        BY <1>1, <4>1
      <4>7. \A j \in 1..i - 1 : answers'[j] = answers[j]
        BY <1>1, <4>1
      <4>8. answers'[i] = "ok" => \A j \in i + 1..n + 1 : answers'[j] = "data"
        BY <1>1, <1>10, <4>1, <4>3, <4>5, <4>6
      <4> QED
        BY <4>1, <4>2, <4>4, <4>7, <4>8
    <3> QED
      BY <3>1, <3>2
  <2> QED
    BY <1>1, <1>10, <2>2 DEF OneVerdict
<1> QED
  BY <1>1, <1>2, <1>3, <1>4, <1>5, <1>6, <1>7, <1>8, <1>9, <1>10

-----------------------------------------------------------------------------
(* The handler's ways out: nobody who asked and stays is left without an   *)
(* answer, except at the deadline of SOCKS5.                               *)
LEMMA Leaving ==
  ASSUME ControlInv, Leave, UNCHANGED <<auth, peer, proto, timers, deferred>>,
         remote' \in {remote, "closed"},
         answers' \in Seq(Replies), OneVerdict', Granted => Granted',
         \/ cTimer = NoTimer \/ peer = "gone" \/ Judged'
         \/ proto = "socks" /\ wTimer = 0
  PROVE  ControlInv'
<1>1. /\ hPC' = "unwind"
      /\ UNCHANGED <<auth, peer, proto, rTimer, wTimer, cTimer, deferred>>
  BY DEF Leave, timers
<1>2. ControlTypes'
  BY <1>1 DEF ControlInv, ControlTypes
<1>3. Deadlines'
  BY <1>1 DEF ControlInv, Deadlines, Parsing
<1>4. Answered'
  BY <1>1 DEF Answered
<1>5. Admitted'
  BY <1>1 DEF ControlInv, Admitted
<1>6. Deferred' /\ Silence'
  BY <1>1 DEF ControlInv, Deferred, RemoteReleased, Silence
<1> QED
  BY <1>2, <1>3, <1>4, <1>5, <1>6 DEF ControlInv

LEMMA LeavingSilently ==
  ASSUME ControlInv, Leave, UNCHANGED <<auth, peer, proto, timers, deferred, answers>>,
         remote' \in {remote, "closed"},
         cTimer = NoTimer \/ wTimer = 0 \/ peer = "gone" \/ Judged
  PROVE  ControlInv'
<1>1. remote # "none" => remote' # "none"
  OBVIOUS
<1>2. OneVerdict' /\ (Granted => Granted') /\ answers' \in Seq(Replies) /\ (Judged => Judged')
  BY <1>1, Unspoken DEF ControlInv, Answered
<1>3. wTimer = 0 => proto = "socks"
  BY DEF ControlInv, Deadlines, NoTimer
<1> QED
  BY <1>2, <1>3, Leaving

LEMMA LeavingWithAnswer ==
  ASSUME ControlInv, Quiet, NEW a \in Verdicts \ {"ok"}, Write(a), Leave,
         UNCHANGED <<auth, peer, proto, timers, dialVars>>
  PROVE  ControlInv'
<1>1. answers' = Append(answers, a) /\ a \in Replies
  BY DEF Write, Replies
<1>2. answers' \in Seq(Replies) /\ OneVerdict' /\ Judged' /\ (Granted => Granted')
  BY <1>1, Spoken DEF ControlInv, Answered
<1> QED
  BY <1>2, Leaving DEF dialVars

LEMMA Refusing ==
  ASSUME ControlInv, Quiet, NEW a \in Verdicts \ {"ok"}, Refuse(a),
         UNCHANGED <<auth, peer, proto, timers, dialVars>>
  PROVE  ControlInv'
<1>1. CASE Write(a)
  BY <1>1, LeavingWithAnswer DEF Refuse
<1>2. CASE WriteFails
  <2>1. (wTimer = 0 \/ peer = "gone") /\ answers' = answers /\ Leave
    BY <1>2 DEF WriteFails, Refuse
  <2> QED
    BY <2>1, LeavingSilently DEF dialVars
<1> QED
  BY <1>1, <1>2 DEF Refuse

-----------------------------------------------------------------------------
(* The client, the remote, time, and bytes on their way.                   *)
LEMMA TimePasses ==
  ASSUME NEW n \in Nat, NEW t \in Timer(n)
  PROVE  /\ Less(t) \in Timer(n) /\ (Less(t) = NoTimer <=> t = NoTimer)
         /\ t = 0 => Less(t) = 0
BY DEF Timer, Less, NoTimer

LEMMA AroundStep ==
  ASSUME ControlInv,
         \/ ClientSends \/ ClientLeaves \/ RemoteLeaves \/ Tick \/ Fill \/ PipeForwards
         \/ UNCHANGED vars
  PROVE  ControlInv'
<1>1. /\ UNCHANGED <<auth, hPC, proto, answers, deferred>> /\ peer' \in {peer, "gone"}
      /\ remote' = remote \/ (remote = "open" /\ remote' = "gone")
  BY DEF ClientSends, ClientLeaves, RemoteLeaves, Tick, Fill, PipeForwards, vars, clientVars, inVars,
         timers, dialVars
<1>2. /\ rTimer' \in Timer(Handshake) \cup Timer(Header)
      /\ wTimer' \in Timer(Handshake) /\ cTimer' \in Timer(Dial)
      /\ rTimer' = NoTimer <=> rTimer = NoTimer
      /\ wTimer' = NoTimer <=> wTimer = NoTimer
      /\ cTimer' = NoTimer <=> cTimer = NoTimer
      /\ wTimer = 0 => wTimer' = 0
  <2>1. CASE Tick
    <3>1. /\ rTimer' = Less(rTimer) /\ wTimer' = Less(wTimer) /\ cTimer' = Less(cTimer)
      BY <2>1 DEF Tick
    <3>2. Handshake \in Nat /\ Header \in Nat /\ Dial \in Nat
      BY TimerAssumption
    <3> QED
      BY <3>1, <3>2, TimePasses DEF ControlInv, ControlTypes
  <2>2. CASE UNCHANGED timers
    BY <2>2 DEF timers, ControlInv, ControlTypes
  <2> QED
    BY <2>1, <2>2 DEF ClientSends, ClientLeaves, RemoteLeaves, Fill, PipeForwards, vars
<1>3. ControlTypes'
  BY <1>1, <1>2 DEF ControlInv, ControlTypes
<1>4. Deadlines'
  BY <1>1, <1>2 DEF ControlInv, Deadlines, Parsing
<1>5. Answered'
  <2>1. OneVerdict' /\ Quiet' = Quiet /\ Said' = Said
    BY <1>1, Unspoken DEF ControlInv, Answered
  <2> QED
    BY <1>1, <2>1 DEF ControlInv, Answered
<1>6. Admitted'
  <2>1. Granted' = Granted
    BY <1>1, Unspoken
  <2> QED
    BY <1>1, <1>2, <2>1 DEF ControlInv, Admitted
<1>7. Deferred' /\ Silence'
  <2>1. Judged' = Judged
    BY <1>1, Unspoken
  <2> QED
    BY <1>1, <1>2, <2>1 DEF ControlInv, Deferred, RemoteReleased, Silence
<1> QED
  BY <1>3, <1>4, <1>5, <1>6, <1>7 DEF ControlInv

(* The handler goes on without a word.                                     *)
LEMMA SetUpQuietly ==
  ASSUME ControlInv, Quiet,
         \/ Sniff \/ RoundTrip \/ RoundTripFails \/ DialSucceeds \/ DialFails
  PROVE  ControlInv'
<1>1. /\ answers' = answers /\ UNCHANGED <<auth, peer, cTimer>>
      /\ hPC \notin {"tunnel", "unwind", "returned"}
      /\ hPC' \notin {"tunnel", "unwind", "returned", "request", "udp"}
      /\ remote' \in {remote, "open"} /\ (hPC' \in {"reply", "respond"} => remote' = "open")
      /\ IF remote' = remote THEN deferred' \in {deferred, TRUE} ELSE deferred' = TRUE
  BY DEF Sniff, RoundTrip, RoundTripFails, DialSucceeds, DialFails, clientVars, timers,
         dialVars
<1>2. ControlTypes'
  <2>1. CASE Sniff
    <3>1. Handshake \in Timer(Handshake) /\ Header \in Timer(Header)
      BY TimerAssumption DEF Timer, NoTimer
    <3> QED
      BY <2>1, <3>1 DEF ControlInv, ControlTypes, Sniff, clientVars, dialVars
  <2>2. CASE RoundTrip \/ RoundTripFails \/ DialSucceeds \/ DialFails
    BY <2>2 DEF ControlInv, ControlTypes, RoundTrip, RoundTripFails, DialSucceeds, DialFails,
                clientVars, timers, dialVars
  <2> QED
    BY <2>1, <2>2
<1>3. Deadlines'
  BY DEF ControlInv, Deadlines, Parsing, Sniff, RoundTrip, RoundTripFails, DialSucceeds,
         DialFails, timers
<1>4. Answered'
  <2>1. Quiet'
    BY <1>1, Unspoken
  <2>2. OneVerdict'
    BY <1>1, Unspoken, QuietMeansOne DEF ControlInv, ControlTypes
  <2> QED
    BY <1>1, <2>1, <2>2 DEF ControlInv, Answered
<1>5. Admitted'
  <2>1. Granted' = Granted
    BY <1>1, Unspoken
  <2>2. cTimer # NoTimer => hPC # "sniff"
    BY DEF ControlInv, Deadlines, Parsing
  <2>3. hPC # "sniff" => proto' = proto
    BY DEF Sniff, RoundTrip, RoundTripFails, DialSucceeds, DialFails
  <2> QED
    BY <1>1, <2>1, <2>2, <2>3 DEF ControlInv, Admitted
<1>6. Deferred' /\ Silence'
  BY <1>1 DEF ControlInv, Deferred, RemoteReleased, Silence
<1> QED
  BY <1>2, <1>3, <1>4, <1>5, <1>6 DEF ControlInv

LEMMA GoingOn ==
  ASSUME ControlInv, hPC' \notin {"tunnel", "unwind", "returned", "reply", "respond"},
         UNCHANGED <<auth, peer, proto, dialVars>>, ControlTypes', Deadlines',
         answers' \in Seq(Replies), Quiet',
         auth /\ proto = "socks" /\ (cTimer' # NoTimer \/ hPC' \in {"request", "udp"}) => Granted'
  PROVE  ControlInv'
<1>1. OneVerdict'
  BY DEF Quiet, OneVerdict, Verdicts
<1>2. Answered' /\ Admitted'
  BY <1>1 DEF Answered, Admitted
<1>3. Deferred' /\ Silence'
  BY DEF ControlInv, Deferred, RemoteReleased, Silence, dialVars
<1> QED
  BY <1>2, <1>3 DEF ControlInv

(* Negotiation: with credentials configured, only "userpass" leads on.     *)
LEMMA NegotiateStep ==
  ASSUME ControlInv, Negotiate
  PROVE  ControlInv'
<1>1. /\ hPC = "greeting" /\ proto = "socks" /\ Quiet /\ cTimer = NoTimer
      /\ UNCHANGED <<auth, peer, proto, timers, dialVars>>
  BY DEF Negotiate, ControlInv, Deadlines, Answered, Parsing, clientVars
<1>2. PICK method :
        /\ method \in {"reject", Required}
        /\ \/ /\ method # "reject" /\ Write("method")
              /\ hPC' = IF method = "userpass" THEN "auth" ELSE "request"
           \/ method # "reject" /\ WriteFails /\ Leave
           \/ method = "reject" /\ Refuse("noMethod")
  <2>1. PICK methods \in MethodsRead(Unit) :
           LET method == Chosen(methods)
           IN  \/ /\ method # "reject" /\ Write("method")
                  /\ hPC' = IF method = "userpass" THEN "auth" ELSE "request"
               \/ method # "reject" /\ WriteFails /\ Leave
               \/ method = "reject" /\ Refuse("noMethod")
    BY DEF Negotiate
  <2>2. Chosen(methods) \in {"reject", Required}
    BY DEF Chosen
  <2> QED
    BY <2>1, <2>2
<1>3. CASE /\ method # "reject" /\ Write("method")
           /\ hPC' = IF method = "userpass" THEN "auth" ELSE "request"
  <2>1. answers' \in Seq(Replies) /\ Quiet'
    <3>1. answers' = Append(answers, "method") /\ "method" \in Replies
      BY <1>3 DEF Write, Replies
    <3> QED
      BY <1>1, <3>1, Spoken DEF ControlInv, Answered
  <2>2. hPC' \in {"auth", "request"} /\ (hPC' = "request" => ~auth)
    BY <1>2, <1>3 DEF Required
  <2>3. ControlTypes' /\ Deadlines'
    BY <1>1, <1>3, <2>2 DEF ControlInv, ControlTypes, Deadlines, Parsing, timers, dialVars
  <2>4. auth => hPC' = "auth" /\ cTimer' = NoTimer
    BY <1>1, <2>2 DEF timers
  <2> QED
    BY <1>1, <1>3, <2>1, <2>2, <2>3, <2>4, GoingOn
<1>4. CASE WriteFails /\ Leave
  BY <1>1, <1>4, LeavingSilently DEF WriteFails, dialVars
<1>5. CASE Refuse("noMethod")
  BY <1>1, <1>5, Refusing DEF Verdicts
<1> QED
  BY <1>2, <1>3, <1>4, <1>5

LEMMA AuthenticateStep ==
  ASSUME ControlInv, Authenticate
  PROVE  ControlInv'
<1>1. /\ hPC = "auth" /\ proto = "socks" /\ Quiet /\ cTimer = NoTimer
      /\ UNCHANGED <<auth, peer, proto, timers, dialVars>>
  BY DEF Authenticate, ControlInv, Deadlines, Answered, Parsing, clientVars
<1>2. CASE Leave /\ UNCHANGED answers
  BY <1>1, <1>2, LeavingSilently DEF dialVars
<1>3. CASE Write("granted") /\ hPC' = "request"
  <2>1. answers' \in Seq(Replies) /\ Quiet' /\ Granted'
    <3>1. answers' = Append(answers, "granted") /\ "granted" \in Replies
      BY <1>3 DEF Write, Replies
    <3> QED
      BY <1>1, <3>1, Spoken DEF ControlInv, Answered
  <2>2. ControlTypes' /\ Deadlines'
    BY <1>1, <1>3 DEF ControlInv, ControlTypes, Deadlines, Parsing, timers, dialVars
  <2> QED
    BY <1>1, <1>3, <2>1, <2>2, GoingOn
<1>4. CASE WriteFails /\ Leave
  BY <1>1, <1>4, LeavingSilently DEF WriteFails, dialVars
<1>5. CASE Refuse("denied")
  BY <1>1, <1>5, Refusing DEF Verdicts
<1> QED
  BY <1>2, <1>3, <1>4, <1>5 DEF Authenticate

(* A request is taken up; a SOCKS5 client has been admitted by then.       *)
LEMMA RequestStep ==
  ASSUME ControlInv, TakeRequest \/ TakeHTTPRequest
  PROVE  ControlInv'
<1>1. /\ hPC \in {"request", "header"} /\ Quiet /\ cTimer = NoTimer
      /\ UNCHANGED <<auth, peer, proto, rTimer, wTimer, dialVars>>
      /\ proto = "socks" => hPC = "request"
      /\ hPC = "request" <=> TakeRequest
  BY DEF TakeRequest, TakeHTTPRequest, ControlInv, Deadlines, Answered, Parsing, clientVars
<1>2. CASE Leave /\ UNCHANGED <<answers, cTimer>>
  BY <1>1, <1>2, LeavingSilently DEF timers, dialVars
<1>3. CASE Refuse("refused") /\ UNCHANGED cTimer
  BY <1>1, <1>3, Refusing DEF timers, Verdicts
<1>4. CASE /\ UNCHANGED answers /\ cTimer' \in {cTimer, Dial}
           /\ \/ hPC' \in {"dial", "roundtrip"} /\ (hPC' = "roundtrip" => TakeHTTPRequest)
              \/ hPC' = "udp" /\ TakeRequest
  <2>1. answers' \in Seq(Replies) /\ Quiet' /\ Granted' = Granted
    BY <1>1, <1>4, Unspoken DEF ControlInv, Answered
  <2>2. auth /\ proto = "socks" => Granted
    BY <1>1 DEF ControlInv, Admitted
  <2>3. cTimer' \in Timer(Dial)
    BY <1>1, <1>4, TimerAssumption DEF Timer, NoTimer
  <2>4. ControlTypes'
    BY <1>1, <1>4, <2>3 DEF ControlInv, ControlTypes, dialVars
  <2>5. Deadlines'
    BY <1>1, <1>4 DEF ControlInv, Deadlines, Parsing, TakeRequest, TakeHTTPRequest
  <2> QED
    BY <1>1, <1>4, <2>1, <2>2, <2>4, <2>5, GoingOn
<1>5. TakeRequest =>
        \/ Leave /\ UNCHANGED <<answers, cTimer>>
        \/ Refuse("refused") /\ UNCHANGED cTimer
        \/ hPC' \in {"dial", "udp"} /\ UNCHANGED answers /\ cTimer' \in {cTimer, Dial}
  BY DEF TakeRequest, TakeCommand, DialWithin
<1>6. TakeHTTPRequest =>
        \/ Leave /\ UNCHANGED <<answers, cTimer>>
        \/ Refuse("refused") /\ UNCHANGED cTimer
        \/ hPC' \in {"dial", "roundtrip"} /\ UNCHANGED answers /\ cTimer' = Dial
  BY DEF TakeHTTPRequest, DialWithin
<1> QED
  BY <1>2, <1>3, <1>4, <1>5, <1>6

(* Success, after which no deadline is left.                               *)
LEMMA SuccessStep ==
  ASSUME ControlInv, AnswerConnect \/ AnswerEstablished
  PROVE  ControlInv'
<1>1. /\ hPC = "reply" /\ hPC' = "tunnel" /\ Quiet /\ remote # "none"
      /\ UNCHANGED <<auth, peer, proto, cTimer, remote, deferred>>
      /\ rTimer' = NoTimer /\ wTimer' = NoTimer
      /\ answers' = Append(answers, "ok") /\ "ok" \in Replies /\ "ok" \in Verdicts
  BY DEF AnswerConnect, AnswerEstablished, ControlInv, Answered, Deadlines, Write, Replies,
         Verdicts, clientVars, dialVars
<1>2. answers' \in Seq(Replies) /\ Said' /\ OneVerdict' /\ (Granted => Granted')
  BY <1>1, Spoken DEF ControlInv, Answered
<1>3. NoTimer \in Timer(Handshake)
  BY TimerAssumption DEF Timer, NoTimer
<1>4. ControlTypes'
  BY <1>1, <1>3 DEF ControlInv, ControlTypes
<1>5. Deadlines'
  BY <1>1 DEF Deadlines, Parsing
<1>6. Answered' /\ Admitted'
  BY <1>1, <1>2 DEF ControlInv, Answered, Admitted
<1>7. Deferred' /\ Silence'
  BY <1>1 DEF ControlInv, Deferred, RemoteReleased, Silence
<1> QED
  BY <1>4, <1>5, <1>6, <1>7 DEF ControlInv

(* The tunnel, and the answer to a forwarded request.                      *)
LEMMA RelayStep ==
  ASSUME ControlInv, PipeAnswers \/ PipeEnds \/ Respond
  PROVE  ControlInv'
<1>1. CASE PipeAnswers
  <2>1. /\ hPC = "tunnel" /\ remote = "open" /\ Said /\ OneVerdict
        /\ UNCHANGED <<auth, peer, hPC, proto, rTimer, wTimer, cTimer, remote, deferred>>
        /\ answers' = Append(answers, "data") /\ "data" \in Replies
    BY <1>1 DEF PipeAnswers, ControlInv, Answered, Write, Replies, clientVars, timers, dialVars
  <2>2. answers' \in Seq(Replies) /\ Said' /\ OneVerdict' /\ (Granted => Granted')
    BY <2>1, Spoken DEF ControlInv, Answered
  <2>3. ControlTypes' /\ Deadlines'
    BY <2>1 DEF ControlInv, ControlTypes, Deadlines, Parsing
  <2>4. Answered' /\ Admitted'
    BY <2>1, <2>2 DEF ControlInv, Answered, Admitted
  <2>5. Deferred' /\ Silence'
    BY <2>1 DEF ControlInv, Deferred, RemoteReleased, Silence
  <2> QED
    BY <2>3, <2>4, <2>5 DEF ControlInv
<1>2. CASE PipeEnds
  <2>1. Judged
    BY <1>2 DEF PipeEnds, ControlInv, Answered, Said, Judged, Verdicts
  <2> QED
    BY <1>2, <2>1, LeavingSilently DEF PipeEnds, clientVars
<1>3. CASE Respond
  <2>1. hPC = "respond" /\ Quiet /\ Leave /\ UNCHANGED <<auth, peer, proto, timers, dialVars>>
    BY <1>3 DEF Respond, ControlInv, Answered, clientVars
  <2>2. CASE Write("response") \/ Write("cut")
    BY <2>1, <2>2, LeavingWithAnswer DEF Verdicts
  <2>3. CASE WriteFails
    BY <2>1, <2>3, LeavingSilently DEF WriteFails, dialVars
  <2> QED
    BY <1>3, <2>2, <2>3 DEF Respond
<1> QED
  BY <1>1, <1>2, <1>3

(* The deferred calls, after the return.                                   *)
LEMMA UnwindStep ==
  ASSUME ControlInv, Unwind
  PROVE  ControlInv'
<1>1. /\ hPC = "unwind" /\ hPC' = "returned"
      /\ remote' = IF deferred THEN "closed" ELSE remote
      /\ UNCHANGED <<auth, peer, proto, rTimer, wTimer, cTimer, deferred, answers>>
  BY DEF Unwind, clientVars, timers
<1>2. OneVerdict' /\ Quiet' = Quiet /\ Judged' = Judged /\ Granted' = Granted
  BY <1>1, Unspoken DEF ControlInv, Answered
<1>3. ControlTypes' /\ Deadlines'
  BY <1>1 DEF ControlInv, ControlTypes, Deadlines, Parsing
<1>4. Answered' /\ Admitted'
  BY <1>1, <1>2 DEF ControlInv, Answered, Admitted
<1>5. Deferred' /\ Silence'
  BY <1>1, <1>2 DEF ControlInv, ControlTypes, Deferred, RemoteReleased, Silence
<1> QED
  BY <1>3, <1>4, <1>5 DEF ControlInv

LEMMA FailureStep ==
  ASSUME ControlInv, ReadFails \/ RefuseDial \/ AnswerFails
  PROVE  ControlInv'
<1>1. CASE ReadFails
  <2>1. /\ cTimer = NoTimer /\ UNCHANGED <<auth, peer, proto, timers, dialVars>> /\ Quiet
        /\ (Leave /\ UNCHANGED answers) \/ Refuse("refused")
    BY <1>1 DEF ReadFails, Parsing, ControlInv, Deadlines, Answered, clientVars
  <2> QED
    BY <2>1, LeavingSilently, Refusing DEF Verdicts, dialVars
<1>2. CASE RefuseDial
  <2>1. Quiet /\ Refuse("refused") /\ UNCHANGED <<auth, peer, proto, timers, dialVars>>
    BY <1>2 DEF RefuseDial, ControlInv, Answered, clientVars
  <2> QED
    BY <2>1, Refusing DEF Verdicts
<1>3. CASE AnswerFails
  <2>1. WriteFails /\ Leave /\ UNCHANGED <<auth, peer, proto, timers, dialVars>>
    BY <1>3 DEF AnswerFails, clientVars
  <2> QED
    BY <2>1, LeavingSilently DEF WriteFails, dialVars
<1> QED
  BY <1>1, <1>2, <1>3

-----------------------------------------------------------------------------
(* What holds of a connection from Accept to the end of its handler, for   *)
(* every client and all deadlines (mixed.go, socks5/server.go:44-187,      *)
(* httpproxy/server.go:29-97).                                             *)
THEOREM ConnectionInvariant == Spec => []ConnectionInv
<1>1. Init => ConnectionInv
  <2>1. SUFFICES ASSUME Init PROVE ConnectionInv
    OBVIOUS
  <2>2. toSend \in Seq(Units) /\ toSend \in Scripts /\ <<>> \in Seq(Units) /\ <<>> \in Seq(Replies)
    BY <2>1, ScriptsAssumption DEF Init
  <2>3. Len(toSend) \in Nat /\ Len(<<>>) = 0
    BY <2>2
  <2>4. Len(toSend) + Len(arrived) + Len(br) + Len(forwarded) <= Len(toSend)
    BY <2>1, <2>3 DEF Init
  <2>5. StreamInv
    BY <2>1, <2>2, <2>4 DEF Init, StreamInv
  <2>6. NoTimer \in Timer(Handshake) /\ NoTimer \in Timer(Dial)
    BY TimerAssumption DEF Timer, NoTimer
  <2>7. DOMAIN answers = {}
    BY <2>1 DEF Init
  <2>8. ControlTypes /\ Deadlines
    BY <2>1, <2>6 DEF Init, ControlTypes, Deadlines, Parsing
  <2>9. Answered
    BY <2>1, <2>2, <2>7 DEF Init, Answered, Quiet, OneVerdict
  <2>10. Admitted /\ Deferred /\ Silence
    BY <2>1 DEF Init, Admitted, Deferred, RemoteReleased, Silence
  <2> QED
    BY <2>5, <2>8, <2>9, <2>10 DEF ConnectionInv, ControlInv
<1>2. ConnectionInv /\ [Next]_vars => ConnectionInv'
  <2>1. SUFFICES ASSUME StreamInv, ControlInv, [Next]_vars PROVE ControlInv'
    BY StreamStep DEF ConnectionInv
  <2>2. CASE \/ ClientSends \/ ClientLeaves \/ RemoteLeaves \/ Tick \/ Fill \/ PipeForwards
             \/ Over \/ UNCHANGED vars
    BY <2>1, <2>2, AroundStep DEF Over
  <2>3. CASE Sniff \/ RoundTrip \/ RoundTripFails \/ DialSucceeds \/ DialFails
    <3>1. Quiet
      BY <2>1, <2>3 DEF ControlInv, Answered, Sniff, RoundTrip, RoundTripFails, DialSucceeds, DialFails
    <3> QED
      BY <2>1, <2>3, <3>1, SetUpQuietly
  <2> QED
    BY <2>1, <2>2, <2>3, NegotiateStep, AuthenticateStep, RequestStep, SuccessStep, RelayStep,
       UnwindStep, FailureStep DEF Next, Dialled, SetUp, Relaying
<1> QED
  BY <1>1, <1>2, PTL DEF Spec

(* The buffers hold units the client has sent, no unit is in two places,   *)
(* and deadlines are within their lengths (mixed.go, protocol.go).         *)
THEOREM ConnectionTypes == Spec => []TypeOK
<1>1. ConnectionInv => TypeOK
  BY DEF ConnectionInv, StreamInv, ControlInv, ControlTypes, Answered, Replies, TypeOK
<1> QED
  BY <1>1, ConnectionInvariant, PTL

(* However a client talks ahead, it gets one verdict, nothing after a      *)
(* refusal and the remote's bytes after the success only                   *)
(* (socks5/server.go:44-87, httpproxy/server.go:29-97).                    *)
THEOREM VerdictsAreSingle == Spec => []OneVerdict
<1>1. ConnectionInv => OneVerdict
  BY DEF ConnectionInv, ControlInv, Answered
<1> QED
  BY <1>1, ConnectionInvariant, PTL

(* With credentials configured no SOCKS5 client is dialled for before it   *)
(* has shown valid ones (socks5/server.go:102-112, 124-146).               *)
THEOREM DialsAreAdmitted == Spec => []AdmittedFirst
<1>1. ConnectionInv => AdmittedFirst
  BY DEF ConnectionInv, ControlInv, Admitted, Granted, AdmittedFirst
<1> QED
  BY <1>1, ConnectionInvariant, PTL

(* Every function that dials has deferred the close by the time it can     *)
(* return, so that no way out leaves the dialled connection open           *)
(* (socks5/server.go:175, httpproxy/server.go:67, 99).                     *)
THEOREM RemotesAreReleased == Spec => []RemoteReleased
<1>1. ConnectionInv => RemoteReleased
  BY DEF ConnectionInv, ControlInv, Deferred
<1> QED
  BY <1>1, ConnectionInvariant, PTL

(* A client that asked and stays gets its answer, unless the handshake's   *)
(* deadline passed before (socks5/server.go:48, 165).                      *)
THEOREM SilenceIsLateness == Spec => []SilentOnlyWhenLate
<1>1. ConnectionInv => SilentOnlyWhenLate
  BY DEF ConnectionInv, ControlInv, Silence, Judged, SilentOnlyWhenLate
<1> QED
  BY <1>1, ConnectionInvariant, PTL

(* No deadline of the handshake ends a tunnel (socks5/server.go:184,       *)
(* httpproxy/server.go:72).                                                *)
THEOREM TunnelsOutliveHandshakes == Spec => TunnelOutlivesHandshake
<1>1. ConnectionInv /\ [Next]_vars
        => [hPC = "tunnel" /\ hPC' # "tunnel" => peer = "gone" \/ remote = "gone"]_vars
  <2>1. SUFFICES ASSUME ConnectionInv, Next, hPC = "tunnel", hPC' # "tunnel"
                 PROVE  peer = "gone" \/ remote = "gone"
    BY DEF vars
  <2>2. PipeEnds
    BY <2>1 DEF Next, Dialled, SetUp, Relaying, Over, ClientSends, ClientLeaves, RemoteLeaves,
                Tick, Fill, ReadFails, Parsing, Sniff, Negotiate, Authenticate, TakeRequest,
                AnswerConnect, TakeHTTPRequest, AnswerEstablished, RoundTrip, RoundTripFails,
                DialSucceeds, DialFails, RefuseDial, AnswerFails, Unwind, PipeForwards,
                PipeAnswers, Respond, vars
  <2>3. rTimer = NoTimer /\ wTimer = NoTimer
    BY <2>1 DEF ConnectionInv, ControlInv, Deadlines
  <2> QED
    BY <2>2, <2>3 DEF PipeEnds, NoTimer
<1> QED
  BY <1>1, ConnectionInvariant, PTL DEF Spec, TunnelOutlivesHandshake
=============================================================================
