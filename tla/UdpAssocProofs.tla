--------------------------- MODULE UdpAssocProofs ---------------------------
(***************************************************************************)
(* Proofs about UdpAssoc, for any senders, hosts, times and numbers of     *)
(* datagrams: its safety properties, and that it implements UdpSession.    *)
(***************************************************************************)
EXTENDS UdpAssoc, TLAPS

(* The datagrams in the hands of the pumps.                                *)
Held == [from : Clients, kind : {"addr", "name", "quic"}, to : Endpoints]

(* How far the session is: the goroutines exist from Start on, the sockets *)
(* are there from then on, and they are closed only after the channel is.  *)
Running == ctlPC # "none"

LifeInv ==
  /\ ~Running => dogPC = "none" /\ upPC = "none" /\ downPC = "none" /\ ~closed
  /\ hPC \in {"client", "egress", "reply"} => ~Running
  /\ hPC \in {"wait", "expire"} => Running
  /\ hPC = "client" => client = "none" /\ egress = "none"
  /\ hPC = "egress" => client = "open" /\ egress = "none"
  /\ hPC = "reply"  => client = "open" /\ egress = "open"
  /\ hPC = "closeClient" => egress # "open"
  /\ hPC = "returned" => client # "open" /\ egress # "open"
  /\ Running => /\ client # "none" /\ egress # "none"
                /\ dogPC # "none" /\ upPC # "none" /\ downPC # "none"
  /\ Running /\ ~closed => /\ hPC = "wait" /\ client = "open" /\ egress = "open"
                           /\ ctlPC = "copy" /\ dogPC \in {"watch", "close"}

(* Why a goroutine may close the channel.                                  *)
CauseInv ==
  /\ ~closed => deadline = Handshake
  /\ Running => lastActive >= Idle + 1
  /\ dogPC = "close" => skew # 0 \/ now > Idle

(* A pump that has let a datagram through since the tear-down began gives  *)
(* up at the next one.                                                     *)
LateInv ==
  /\ lateUp > 0 => closed /\ upPC \in {"read", "check", "done"}
  /\ lateDown > 0 => closed /\ downPC \in {"read", "check", "done"}

(* Past the check of its source a datagram is the pinned client's, and     *)
(* before it is sent its target is stored.                                 *)
UpInv ==
  /\ upPC \in {"check", "touch", "pin"} => up \in UpDatagrams
  /\ upPC \in {"resolve", "store", "send"} => up \in Held /\ clientAddr = up.from
  /\ upPC = "send" => up.to.host \in targets

(* Nothing is asked for before a client is known, nor sent before it is    *)
(* asked for; past the filter a datagram is an asked host's.               *)
DownInv ==
  /\ targets # {} => clientAddr # NoClient
  /\ sent \subseteq targets
  /\ downPC \in {"check", "touch", "filter", "address", "write"} =>
       down \in DownDatagrams
  /\ downPC \in {"address", "write"} => down.from.host \in targets
  /\ downPC = "write" => clientAddr # NoClient

SessionInv == /\ TypeOK /\ LifeInv /\ CauseInv /\ UpInv /\ DownInv
              /\ LateInv /\ LateAtMostOnce /\ AnswersPass

(* The states the process starts in.                                       *)
LEMMA SessionInit == Init => SessionInv
<1> SUFFICES ASSUME Init PROVE SessionInv
  OBVIOUS
<1>1. now \in 0..MaxTime /\ skew \in {0, Idle + 1} /\ deadline \in Nat /\ lastActive \in Nat
  BY TimeAssumption DEF Init
<1>2. ups \in 0..MaxUp /\ downs \in 0..MaxDown
  BY BoundAssumption DEF Init
<1>3. closed \in BOOLEAN /\ lateUp \in Nat /\ lateDown \in Nat
  BY DEF Init
<1>4. TypeOK
  BY <1>1, <1>2, <1>3 DEF Init, TypeOK, PumpPCs
<1>5. LifeInv
  BY DEF Init, LifeInv, Running
<1>6. CauseInv /\ UpInv /\ DownInv /\ LateInv /\ LateAtMostOnce /\ AnswersPass
  BY DEF Init, CauseInv, UpInv, DownInv, LateInv, LateAtMostOnce, AnswersPass, Running
<1> QED
  BY <1>4, <1>5, <1>6 DEF SessionInv

(* The wall clock stays a natural number, past the idle time from the zero *)
(* of lastActive on.                                                       *)
LEMMA WallType == TypeOK => Wall \in Nat /\ Wall >= Idle + 1
  BY TimeAssumption DEF TypeOK, Wall

(* Time, the wall clock and the client's departure touch nothing that the  *)
(* goroutines own.                                                         *)
LEMMA EnvironmentStep ==
  ASSUME SessionInv, Environment
  PROVE  SessionInv'
<1> USE DEF SessionInv, envRest, upVars, downVars, sockVars, assocVars,
            histVars, upHist, downHist, ctlVars, timeVars
<1>1. UNCHANGED envRest /\ deadline' = deadline
  BY DEF Environment, Tick, ClockStep, PeerLeaves
<1>2. /\ now' \in 0..MaxTime /\ skew' \in {0, Idle + 1} /\ peer' \in {"open", "gone"}
      /\ now' >= now /\ (skew # 0 => skew' # 0)
  BY TimeAssumption DEF Environment, Tick, ClockStep, PeerLeaves, TypeOK
<1>3. TypeOK'
  BY <1>1, <1>2 DEF TypeOK
<1>4. LifeInv' /\ UpInv' /\ DownInv' /\ LateInv' /\ LateAtMostOnce' /\ AnswersPass'
  BY <1>1 DEF LifeInv, UpInv, DownInv, LateInv, LateAtMostOnce, AnswersPass, Running
<1>5. CauseInv'
  BY <1>1, <1>2, TimeAssumption DEF CauseInv, Running, TypeOK
<1> QED
  BY <1>3, <1>4, <1>5

(* The handler opens the sockets, starts the session and releases them     *)
(* (server.go:193-291).                                                    *)
LEMMA HandlerStep ==
  ASSUME SessionInv, Handler
  PROVE  SessionInv'
<1> USE DEF SessionInv, hRest, upVars, downVars, sockVars, assocVars,
            histVars, upHist, downHist, ctlVars, timeVars, Close
<1>1. TypeOK'
  <2>1. CASE OpenClient
    BY <2>1 DEF OpenClient, TypeOK
  <2>2. CASE OpenEgress
    BY <2>2 DEF OpenEgress, TypeOK
  <2>3. CASE ReplyFails
    BY <2>3 DEF ReplyFails, TypeOK
  <2>4. CASE Start
    BY <2>4, WallType DEF Start, TypeOK, PumpPCs
  <2>5. CASE RunEnds
    BY <2>5 DEF RunEnds, TypeOK
  <2>6. CASE ExpireControl
    BY <2>6 DEF ExpireControl, TypeOK
  <2>7. CASE CloseEgress
    BY <2>7 DEF CloseEgress, TypeOK
  <2>8. CASE CloseClient
    BY <2>8 DEF CloseClient, TypeOK
  <2> QED
    BY <2>1, <2>2, <2>3, <2>4, <2>5, <2>6, <2>7, <2>8 DEF Handler
<1> USE DEF Handler, OpenClient, OpenEgress, ReplyFails, Start, RunEnds,
            ExpireControl, CloseEgress, CloseClient
<1>2. LifeInv'
  BY DEF TypeOK, LifeInv, Running
<1>3. CauseInv'
  BY WallType DEF LifeInv, CauseInv, Running
<1>4. UpInv' /\ DownInv' /\ LateInv' /\ LateAtMostOnce' /\ AnswersPass'
  BY DEF UpInv, DownInv, LateInv, LateAtMostOnce, AnswersPass, TypeOK
<1> QED
  BY <1>1, <1>2, <1>3, <1>4

(* The control reader and the watchdog close the channel before the        *)
(* sockets; the watchdog finds nothing idle before its time                *)
(* (server.go:257-279).                                                    *)
LEMMA ClosersStep ==
  ASSUME SessionInv, Control \/ Watchdog
  PROVE  SessionInv'
<1> USE DEF SessionInv, ctlRest, upVars, downVars, sockVars, assocVars,
            histVars, upHist, downHist, ctlVars, timeVars, Close
<1> USE DEF Control, ControlEnds, ControlClosesClient, ControlClosesEgress, Watchdog,
            WatchdogFindsIdle, WatchdogCloses, WatchdogClosesClient,
            WatchdogClosesEgress, WatchdogEnds
<1>1. UNCHANGED ctlRest /\ (closed => closed')
  OBVIOUS
<1>2. TypeOK'
  <2>1. /\ ctlPC' \in {"none", "copy", "closeClient", "closeEgress", "done"}
        /\ dogPC' \in {"none", "watch", "close", "closeClient", "closeEgress", "done"}
        /\ {client', egress'} \subseteq {"none", "open", "closed"}
    BY DEF TypeOK
  <2>2. closed' \in BOOLEAN
    BY DEF TypeOK
  <2> QED
    BY <1>1, <2>1, <2>2 DEF TypeOK
<1>3. LifeInv'
  BY DEF LifeInv, Running, TypeOK
<1>4. CauseInv'
  <2>1. CASE WatchdogFindsIdle
    <3>1. lastActive >= Idle + 1 /\ Wall > lastActive + Idle
      BY <2>1 DEF LifeInv, CauseInv
    <3>2. skew = 0 => now > Idle
      BY <3>1, TimeAssumption DEF Wall, TypeOK
    <3>3. UNCHANGED <<timeVars, deadline, lastActive, closed, ctlPC>>
      BY <2>1
    <3> QED
      BY <3>2, <3>3 DEF CauseInv, Running
  <2>2. CASE ~WatchdogFindsIdle
    BY <2>2, <1>1 DEF LifeInv, CauseInv, Running
  <2> QED
    BY <2>1, <2>2
<1>5. UpInv' /\ DownInv' /\ LateInv' /\ LateAtMostOnce' /\ AnswersPass'
  BY <1>1 DEF UpInv, DownInv, LateInv, LateAtMostOnce, AnswersPass
<1> QED
  BY <1>2, <1>3, <1>4, <1>5

(* What a client may send is addressed to an endpoint.                     *)
LEMMA UpDatagramTypes ==
  ASSUME NEW u \in UpDatagrams, Forwardable(u)
  PROVE  u \in Held
  BY DEF UpDatagrams, Forwardable, Held, Endpoints

LEMMA EndpointTypes ==
  ASSUME NEW e \in Endpoints
  PROVE  e.host \in Hosts
  BY DEF Endpoints, Mapped, FourByte

(* The up pump pins the client, stores the target and then sends           *)
(* (server.go:296-347).                                                    *)
LEMMA UpStep ==
  ASSUME SessionInv, UpReceives \/ UpReadFails \/ UpPump
  PROVE  SessionInv'
<1> USE DEF SessionInv, upRest, upVars, downVars, sockVars, assocVars,
            histVars, upHist, downHist, ctlVars, timeVars
<1>1. UNCHANGED upRest /\ upPC # "none" /\ upPC' # "none" /\ UNCHANGED downHist
  BY DEF UpPump, UpReceives, UpReadFails, UpSeesClosed, UpSeesOpen, UpTouches, UpPins,
     UpResolves, UpStores, UpSends, UpSendFails
<1>2. LifeInv'
  BY <1>1 DEF LifeInv, Running
<1>3. LateInv' /\ LateAtMostOnce'
  BY <1>1 DEF LateInv, LateAtMostOnce, TypeOK, UpPump, UpReceives, UpReadFails,
     UpSeesClosed, UpSeesOpen, UpTouches, UpPins, UpResolves, UpStores, UpSends,
     UpSendFails
<1>4. CASE UpReceives
  BY <1>1, <1>2, <1>3, <1>4, BoundAssumption DEF UpReceives, TypeOK, PumpPCs, CauseInv,
     UpInv, DownInv, AnswersPass, Running
<1>5. CASE UpReadFails \/ UpSeesClosed \/ UpSeesOpen \/ UpSendFails
  BY <1>1, <1>2, <1>3, <1>5 DEF UpReadFails, UpSeesClosed, UpSeesOpen, UpSendFails,
     TypeOK, PumpPCs, CauseInv, UpInv, DownInv, AnswersPass, Running
<1>6. CASE UpTouches
  BY <1>1, <1>2, <1>3, <1>6, WallType DEF UpTouches, TypeOK, PumpPCs, CauseInv, UpInv,
     DownInv, AnswersPass, Running
<1>7. CASE UpPins
  <2>1. up \in UpDatagrams /\ up.from \in Clients /\ up.from # NoClient
    BY <1>7, BoundAssumption DEF UpPins, UpInv, UpDatagrams
  <2>2. UNCHANGED <<ups, targets, lastActive, histVars>>
        /\ clientAddr' = IF clientAddr = NoClient THEN up.from ELSE clientAddr
    BY <1>7 DEF UpPins
  <2>3. \/ /\ upPC' \in {"resolve", "store"} /\ up' = up
           /\ FromPinned(up.from) /\ Forwardable(up)
        \/ upPC' = "read"
    BY <1>7 DEF UpPins
  <2>4. TypeOK' /\ CauseInv'
    BY <1>1, <2>1, <2>2, <2>3 DEF TypeOK, PumpPCs, CauseInv, Running
  <2>5. UpInv'
    BY <2>1, <2>2, <2>3, UpDatagramTypes DEF UpInv, FromPinned, Pinned
  <2>6. DownInv' /\ AnswersPass'
    BY <1>1, <2>1, <2>2 DEF DownInv, AnswersPass
  <2> QED
    BY <1>2, <1>3, <2>4, <2>5, <2>6
<1>8. CASE UpResolves
  <2>1. up \in Held /\ clientAddr = up.from
    BY <1>8 DEF UpResolves, UpInv
  <2>2. UNCHANGED <<ups, assocVars, histVars>>
    BY <1>8 DEF UpResolves
  <2>3. \/ upPC' = "store" /\ \E e \in Endpoints : up' = [up EXCEPT !.to = e]
        \/ upPC' = "read"
    BY <1>8 DEF UpResolves
  <2>4. UpInv'
    BY <2>1, <2>2, <2>3 DEF UpInv, Held
  <2> QED
    BY <1>1, <1>2, <1>3, <2>2, <2>3, <2>4 DEF TypeOK, PumpPCs, CauseInv, DownInv,
       AnswersPass, Running
<1>9. CASE UpStores
  <2>1. up \in Held /\ clientAddr = up.from /\ clientAddr # NoClient
    BY <1>9, BoundAssumption DEF UpStores, UpInv, Held
  <2>2. up.to.host \in Hosts
    BY <2>1, EndpointTypes DEF Held
  <2>3. UNCHANGED <<up, ups, clientAddr, lastActive, histVars>> /\ upPC' = "send"
        /\ targets' = targets \cup {up.to.host}
    BY <1>9 DEF UpStores, UdpAddrPort
  <2> QED
    BY <1>1, <1>2, <1>3, <2>1, <2>2, <2>3 DEF TypeOK, PumpPCs, CauseInv, UpInv,
       DownInv, AnswersPass, Running
<1>10. CASE UpSends
  <2>1. up \in Held /\ up.to.host \in targets
    BY <1>10 DEF UpSends, UpInv
  <2>2. up.from \in Clients /\ up.to.host \in Hosts
    BY <2>1, EndpointTypes DEF Held
  <2>3. UNCHANGED <<ups, assocVars, downHist>> /\ upPC' = "read"
        /\ sent' = sent \cup {up.to.host}
        /\ servedClients' = servedClients \cup {up.from}
        /\ lateUp' \in {lateUp, lateUp + 1}
    BY <1>10 DEF UpSends
  <2> QED
    BY <1>1, <1>2, <1>3, <2>1, <2>2, <2>3 DEF TypeOK, PumpPCs, CauseInv, UpInv,
       DownInv, AnswersPass, Running
<1> QED
  BY <1>4, <1>5, <1>6, <1>7, <1>8, <1>9, <1>10 DEF UpPump

(* The down pump passes on what an asked host says to a known client       *)
(* (server.go:350-388).                                                    *)
LEMMA DownStep ==
  ASSUME SessionInv, DownReceives \/ DownReadFails \/ DownPump
  PROVE  SessionInv'
<1> USE DEF SessionInv, downRest, upVars, downVars, sockVars, assocVars,
            histVars, upHist, downHist, ctlVars, timeVars
<1>1. UNCHANGED downRest /\ downPC # "none" /\ downPC' # "none" /\ UNCHANGED upHist
  BY DEF DownPump, DownReceives, DownReadFails, DownSeesClosed, DownSeesOpen,
     DownTouches, DownFilters, DownAddresses, DownDrops, DownWrites, DownWriteFails
<1>2. LifeInv'
  BY <1>1 DEF LifeInv, Running
<1>3. LateInv' /\ LateAtMostOnce'
  BY <1>1 DEF LateInv, LateAtMostOnce, TypeOK, DownPump, DownReceives, DownReadFails,
     DownSeesClosed, DownSeesOpen, DownTouches, DownFilters, DownAddresses, DownDrops,
     DownWrites, DownWriteFails
<1>4. CASE DownReceives
  BY <1>1, <1>2, <1>3, <1>4, BoundAssumption DEF DownReceives, TypeOK, PumpPCs,
     CauseInv, UpInv, DownInv, AnswersPass, Running
<1>5. CASE DownReadFails \/ DownSeesClosed \/ DownSeesOpen \/ DownWriteFails
  BY <1>1, <1>2, <1>3, <1>5 DEF DownReadFails, DownSeesClosed, DownSeesOpen,
     DownWriteFails, TypeOK, PumpPCs, CauseInv, UpInv, DownInv, AnswersPass, Running
<1>6. CASE DownTouches
  BY <1>1, <1>2, <1>3, <1>6, WallType DEF DownTouches, TypeOK, PumpPCs, CauseInv,
     UpInv, DownInv, AnswersPass, Running
<1>7. CASE DownFilters \/ DownAddresses
  <2>1. UNCHANGED <<downs, assocVars, upHist, passed, lateDown>>
        /\ down \in DownDatagrams
    BY <1>7 DEF DownFilters, DownAddresses, DownInv
  <2>2. \/ /\ downPC = "filter" /\ Allowed(down)
           /\ downPC' = "address" /\ down' = down /\ lost' = lost
        \/ /\ downPC = "address" /\ clientAddr # NoClient
           /\ downPC' = "write" /\ down' = down /\ lost' = lost
        \/ /\ \/ downPC = "filter" /\ ~Allowed(down)
              \/ downPC = "address" /\ clientAddr = NoClient
           /\ downPC' = "read" /\ lost' = lost \cup ({down.from.host} \cap sent)
    BY <1>7 DEF DownFilters, DownAddresses, DownDrops
  <2>3. AnswersPass'
    <3>1. CASE lost' = lost
      BY <3>1 DEF AnswersPass
    <3>2. CASE downPC = "filter" /\ ~Allowed(down)
      BY <2>2, <3>2 DEF Allowed, UdpAddrPort, DownInv, AnswersPass
    <3>3. CASE downPC = "address" /\ clientAddr = NoClient
      BY <3>3 DEF DownInv
    <3> QED
      BY <2>2, <3>1, <3>2, <3>3
  <2>4. DownInv'
    BY <1>1, <2>1, <2>2 DEF Allowed, UdpAddrPort, DownInv
  <2>5. TypeOK'
    BY <1>1, <2>1, <2>2, <2>3 DEF TypeOK, PumpPCs, AnswersPass
  <2> QED
    BY <1>1, <1>2, <1>3, <2>1, <2>3, <2>4, <2>5 DEF CauseInv, UpInv, Running
<1>8. CASE DownWrites
  <2>1. down.from.host \in targets
    BY <1>8 DEF DownWrites, DownInv
  <2>2. UNCHANGED <<downs, assocVars, upHist, lost>>
        /\ downPC' = "read" /\ passed' = passed \cup {down.from.host}
        /\ lateDown' \in {lateDown, lateDown + 1}
    BY <1>8 DEF DownWrites
  <2> QED
    BY <1>1, <1>2, <1>3, <2>1, <2>2 DEF TypeOK, PumpPCs, CauseInv, UpInv, DownInv,
       AnswersPass, Running
<1> QED
  BY <1>4, <1>5, <1>6, <1>7, <1>8 DEF DownPump

(* The invariant of a session, in every interleaving of its goroutines.    *)
THEOREM SessionInvariant == Spec => []SessionInv
<1>1. SessionInv /\ [Next]_vars => SessionInv'
  <2> SUFFICES ASSUME SessionInv, [Next]_vars PROVE SessionInv'
    OBVIOUS
  <2>1. CASE Over \/ UNCHANGED vars
    BY <2>1 DEF Over, vars, SessionInv, TypeOK, LifeInv, CauseInv, UpInv, DownInv,
       LateInv, LateAtMostOnce, AnswersPass, Running, upVars, downVars, sockVars,
       assocVars, histVars, upHist, downHist, ctlVars, timeVars
  <2> QED
    BY <2>1, EnvironmentStep, HandlerStep, ClosersStep, UpStep, DownStep DEF Next
<1> QED
  BY <1>1, SessionInit, PTL DEF Spec

(* Types.                                                                  *)
THEOREM SessionTypes == Spec => []TypeOK
<1>1. SessionInv => TypeOK
  BY DEF SessionInv
<1> QED
  BY <1>1, SessionInvariant, PTL

(* However the tear-down falls between the steps of the pumps, each of     *)
(* them lets through at most the datagram it had begun with                *)
(* (server.go:302-306, 355-359).                                           *)
THEOREM AtMostOneLate == Spec => []LateAtMostOnce
<1>1. SessionInv => LateAtMostOnce
  BY DEF SessionInv
<1> QED
  BY <1>1, SessionInvariant, PTL

(* The handler leaves no socket open, whichever step failed                *)
(* (server.go:201-235).                                                    *)
THEOREM SocketsAreReleased == Spec => []SocketsReleased
<1>1. SessionInv => SocketsReleased
  BY DEF SessionInv, LifeInv, SocketsReleased
<1> QED
  BY <1>1, SessionInvariant, PTL

(* No answer to a datagram that was sent is dropped by the filter          *)
(* (server.go:337-345, 370-380).                                           *)
THEOREM AnswersAlwaysPass == Spec => []AnswersPass
<1>1. SessionInv => AnswersPass
  BY DEF SessionInv
<1> QED
  BY <1>1, SessionInvariant, PTL

-----------------------------------------------------------------------------
(* What a step that closes the channel may be due to.                      *)
Cause == \/ peer = "gone" \/ now >= Handshake
         \/ dogPC = "close" /\ (skew # 0 \/ now > Idle)
         \/ upPC = "done" /\ downPC = "done"

(* A session is torn down for a reason: the watchdog, in particular, finds *)
(* it idle only after the idle time or a change of the wall clock, because *)
(* lastActive is not older than the session (server.go:252-291).           *)
THEOREM TeardownIsCaused == Spec => TeardownHasACause
<1>1. SessionInv /\ [Next]_vars => [closed' /\ ~closed => Cause]_vars
  <2> SUFFICES ASSUME SessionInv, Next, closed', ~closed PROVE Cause
    OBVIOUS
  <2>1. CASE RunEnds
    BY <2>1 DEF RunEnds, Cause
  <2>2. CASE ControlEnds
    <3>1. deadline = Handshake /\ hPC # "returned"
      BY <2>2 DEF ControlEnds, SessionInv, CauseInv, LifeInv, Running
    <3> QED
      BY <2>2, <3>1 DEF ControlEnds, Cause
  <2>3. CASE WatchdogCloses
    BY <2>3 DEF WatchdogCloses, SessionInv, CauseInv, Cause
  <2>4. ASSUME ~RunEnds, ~ControlEnds, ~WatchdogCloses
        PROVE  UNCHANGED closed
    BY <2>4 DEF Next, Handler, Control, Watchdog, Environment, Tick, ClockStep,
       PeerLeaves, envRest, OpenClient, OpenEgress, ReplyFails, Start, ExpireControl,
       CloseEgress, CloseClient, ControlClosesClient, ControlClosesEgress,
       WatchdogFindsIdle, WatchdogClosesClient, WatchdogClosesEgress, WatchdogEnds,
       UpReceives, UpReadFails, UpPump, UpSeesClosed, UpSeesOpen, UpTouches, UpPins,
       UpResolves, UpStores, UpSends, UpSendFails, upRest, DownReceives,
       DownReadFails, DownPump, DownSeesClosed, DownSeesOpen, DownTouches,
       DownFilters, DownAddresses, DownWrites, DownWriteFails, downRest, Over, vars
  <2> QED
    BY <2>1, <2>2, <2>3, <2>4
<1>2. SessionInv /\ [Next]_vars =>
        [closed' /\ ~closed =>
           \/ peer = "gone" \/ now >= Handshake
           \/ dogPC = "close" /\ (skew # 0 \/ now > Idle)
           \/ upPC = "done" /\ downPC = "done" ]_vars
  BY <1>1 DEF Cause
<1> QED
  BY <1>2, SessionInvariant, PTL DEF Spec, TeardownHasACause

-----------------------------------------------------------------------------
(* UdpAssoc implements UdpSession.  What each phase says of the sockets    *)
(* and the goroutines.                                                     *)
LEMMA PhaseMeans ==
  ASSUME SessionInv
  PROVE  /\ Running => Phase # "opening"
         /\ Running /\ (client = "open" \/ egress = "open")
              => Phase \in {"open", "closing"}
  BY DEF Phase, SessionInv, LifeInv, Running

(* The handler opens or refuses the session and, at last, ends it.         *)
LEMMA HandlerImplements ==
  ASSUME SessionInv, Handler
  PROVE  [Session!Next]_(Session!vars)
<1> USE DEF hRest, assocVars, histVars, upHist, downHist, sockVars, Session!vars,
            Handler, OpenClient, OpenEgress, ReplyFails, Start, RunEnds,
            ExpireControl, CloseEgress, CloseClient
<1>1. UNCHANGED <<clientAddr, targets, sent, servedClients, passed>>
  OBVIOUS
<1>2. \/ Phase' = Phase
      \/ Phase = "opening" /\ Phase' \in {"open", "over"}
      \/ Phase = "open" /\ Phase' = "closing"
      \/ Phase = "closing" /\ Phase' = "over"
  BY DEF Close, Phase, SessionInv, LifeInv, Running
<1> QED
  BY <1>1, <1>2 DEF Session!Next, Session!Open, Session!Refuse, Session!Close,
     Session!End, Session!Enter

(* The control reader and the watchdog close it, then end it.              *)
LEMMA ClosersImplement ==
  ASSUME SessionInv, Control \/ Watchdog
  PROVE  [Session!Next]_(Session!vars)
<1> USE DEF ctlRest, assocVars, histVars, upHist, downHist, sockVars, Session!vars,
            Control, ControlEnds, ControlClosesClient, ControlClosesEgress, Watchdog,
            WatchdogFindsIdle, WatchdogCloses, WatchdogClosesClient,
            WatchdogClosesEgress, WatchdogEnds
<1>1. UNCHANGED <<hPC, clientAddr, targets, sent, servedClients, passed>>
  OBVIOUS
<1>2. \/ Phase' = Phase
      \/ Phase = "open" /\ Phase' = "closing"
      \/ Phase = "closing" /\ Phase' = "over"
  BY DEF Close, Phase, SessionInv, LifeInv, Running
<1> QED
  BY <1>1, <1>2 DEF Session!Next, Session!Close, Session!End, Session!Enter

(* The up pump pins the owner, asks and forwards.                          *)
LEMMA UpImplements ==
  ASSUME SessionInv, UpReceives \/ UpReadFails \/ UpPump
  PROVE  [Session!Next]_(Session!vars)
<1> USE DEF upRest, assocVars, histVars, upHist, downHist, sockVars, Session!vars
<1>1. UNCHANGED <<hPC, ctlPC, client, egress, closed>> /\ upPC # "none"
  BY DEF UpReceives, UpReadFails, UpPump, UpSeesClosed, UpSeesOpen, UpTouches, UpPins,
     UpResolves, UpStores, UpSends, UpSendFails
<1>2. Phase' = Phase /\ Running
  BY <1>1 DEF Phase, SessionInv, LifeInv
<1>3. CASE \/ UpReceives \/ UpReadFails \/ UpSeesClosed \/ UpSeesOpen \/ UpTouches
           \/ UpResolves \/ UpSendFails
  BY <1>2, <1>3 DEF UpReceives, UpReadFails, UpSeesClosed, UpSeesOpen, UpTouches,
     UpResolves, UpSendFails
<1>4. CASE UpPins
  <2>1. Phase # "opening" /\ up.from \in Clients
    BY <1>2, <1>4, PhaseMeans DEF UpPins, SessionInv, UpInv, UpDatagrams
  <2>2. UNCHANGED <<targets, sent, servedClients, passed>>
        /\ clientAddr' = IF clientAddr = NoClient THEN up.from ELSE clientAddr
    BY <1>4 DEF UpPins
  <2>3. clientAddr = NoClient => Session!Pin(up.from)
    BY <1>2, <2>1, <2>2 DEF Session!Pin
  <2> QED
    BY <1>2, <2>1, <2>2, <2>3 DEF Session!Next
<1>5. CASE UpStores
  <2>1. up \in Held /\ clientAddr = up.from
    BY <1>5 DEF UpStores, SessionInv, UpInv
  <2>2. clientAddr # NoClient /\ up.to.host \in Hosts
    BY <2>1, EndpointTypes, BoundAssumption DEF Held
  <2>3. Phase # "opening"
    BY <1>2, PhaseMeans
  <2>4. Session!Ask(up.to.host)
    BY <1>2, <1>5, <2>2, <2>3 DEF UpStores, UdpAddrPort, Session!Ask
  <2> QED
    BY <2>2, <2>4 DEF Session!Next
<1>6. CASE UpSends
  <2>1. up \in Held /\ clientAddr = up.from /\ up.to.host \in targets
    BY <1>6 DEF UpSends, SessionInv, UpInv
  <2>2. clientAddr # NoClient /\ up.to.host \in Hosts
    BY <2>1, EndpointTypes, BoundAssumption DEF Held
  <2>3. Phase \in {"open", "closing"}
    BY <1>2, <1>6, PhaseMeans DEF UpSends
  <2>4. Session!Forward(up.to.host)
    BY <1>2, <1>6, <2>1, <2>2, <2>3 DEF UpSends, Session!Forward, Session!Live
  <2> QED
    BY <2>2, <2>4 DEF Session!Next
<1> QED
  BY <1>3, <1>4, <1>5, <1>6 DEF UpPump

(* The down pump delivers.                                                 *)
LEMMA DownImplements ==
  ASSUME SessionInv, DownReceives \/ DownReadFails \/ DownPump
  PROVE  [Session!Next]_(Session!vars)
<1> USE DEF downRest, assocVars, histVars, upHist, downHist, sockVars, Session!vars
<1>1. UNCHANGED <<hPC, ctlPC, client, egress, closed>> /\ downPC # "none"
  BY DEF DownReceives, DownReadFails, DownPump, DownSeesClosed, DownSeesOpen,
     DownTouches, DownFilters, DownAddresses, DownWrites, DownWriteFails
<1>2. Phase' = Phase /\ Running
  BY <1>1 DEF Phase, SessionInv, LifeInv
<1>3. CASE \/ DownReceives \/ DownReadFails \/ DownSeesClosed \/ DownSeesOpen
           \/ DownTouches \/ DownFilters \/ DownAddresses \/ DownWriteFails
  BY <1>2, <1>3 DEF DownReceives, DownReadFails, DownSeesClosed, DownSeesOpen,
     DownTouches, DownFilters, DownAddresses, DownDrops, DownWriteFails
<1>4. CASE DownWrites
  <2>1. clientAddr # NoClient /\ down.from.host \in targets
    BY <1>4 DEF DownWrites, SessionInv, DownInv
  <2>2. down.from.host \in Hosts
    BY <2>1 DEF SessionInv, TypeOK
  <2>3. Phase \in {"open", "closing"}
    BY <1>2, <1>4, PhaseMeans DEF DownWrites
  <2>4. Session!Deliver(down.from.host)
    BY <1>2, <1>4, <2>1, <2>3 DEF DownWrites, Session!Deliver, Session!Live
  <2> QED
    BY <2>2, <2>4 DEF Session!Next
<1> QED
  BY <1>3, <1>4 DEF DownPump

(* A session of five goroutines behaves as UdpSession describes it: the    *)
(* first sender owns it, only the owner is served, only asked hosts are    *)
(* passed on, and nothing moves once it is over (server.go:201-387).       *)
THEOREM UdpAssocImplementsSession == Spec => SessionSpec
<1>1. Init => Session!Init
  BY DEF Init, Session!Init, Phase
<1>2. SessionInv /\ [Next]_vars => [Session!Next]_(Session!vars)
  <2> SUFFICES ASSUME SessionInv, [Next]_vars PROVE [Session!Next]_(Session!vars)
    OBVIOUS
  <2>1. CASE Environment \/ Over \/ UNCHANGED vars
    BY <2>1 DEF Environment, Tick, ClockStep, PeerLeaves, envRest, Over, vars,
       assocVars, histVars, upHist, downHist, sockVars, Session!vars, Phase
  <2> QED
    BY <2>1, HandlerImplements, ClosersImplement, UpImplements, DownImplements DEF Next
<1> QED
  BY <1>1, <1>2, SessionInvariant, PTL DEF Spec, SessionSpec, Session!Spec
=============================================================================
