--------------------------- MODULE SupervisorProofs -------------------------
(***************************************************************************)
(* Proofs about Supervisor, for every set of enumerations, configuration   *)
(* and number of changes of the environment.                               *)
(***************************************************************************)
EXTENDS Supervisor, SequenceTheorems, TLAPS

(* The callback lists of start-up, computed: appending to <<"clash">>, and  *)
(* what is left after the first call.                                      *)
LEMMA AppendSecond == Append(<<"clash">>, "restart") = <<"clash", "restart">>
<1> DEFINE s == Append(<<"clash">>, "restart")
           t == <<"clash", "restart">>
<1>1. <<"clash">> \in Seq({"clash", "restart"}) /\ Len(<<"clash">>) = 1
  OBVIOUS
<1>2. s \in Seq({"clash", "restart"}) /\ Len(s) = 2 /\ s[1] = "clash" /\ s[2] = "restart"
  BY <1>1, AppendProperties
<1>3. t \in Seq({"clash", "restart"}) /\ Len(t) = 2 /\ t[1] = "clash" /\ t[2] = "restart"
  OBVIOUS
<1> HIDE DEF s, t
<1>4. \A i \in 1..Len(s) : s[i] = t[i]
  BY <1>2, <1>3
<1>5. s = t
  BY <1>2, <1>3, <1>4, SeqEqual
<1> QED
  BY <1>5 DEF s, t

(* What is left of a list of callbacks after the first call                *)
(* (netmon.go:358-360).                                                    *)
LEMMA CallbackLists ==
  /\ Append(<<>>, "clash") = <<"clash">>
  /\ Append(<<"clash">>, "restart") = <<"clash", "restart">>
  /\ Tail(<<"clash">>) = <<>> /\ Tail(<<"restart">>) = <<>>
  /\ Tail(<<"clash", "restart">>) = <<"restart">>
  /\ Head(<<"clash">>) = "clash" /\ Head(<<"restart">>) = "restart"
  /\ Head(<<"clash", "restart">>) = "clash"
<1>1. Append(<<>>, "clash") = <<"clash">>
  OBVIOUS
<1>2. Tail(<<"clash">>) = <<>> /\ Tail(<<"restart">>) = <<>>
  OBVIOUS
<1>3. Tail(<<"clash", "restart">>) = <<"restart">>
  OBVIOUS
<1>4. Head(<<"clash">>) = "clash" /\ Head(<<"restart">>) = "restart"
  OBVIOUS
<1>5. Head(<<"clash", "restart">>) = "clash"
  OBVIOUS
<1> QED
  BY <1>1, <1>2, <1>3, <1>4, <1>5, AppendSecond

(* A write of the Clash file touches the file only.                        *)
LEMMA WriteClashType ==
  ASSUME NEW s, WriteClash(s), clashFailed \in BOOLEAN
  PROVE  clashFailed' \in BOOLEAN
  BY DEF WriteClash, file

(* What main's start-up and the four goroutines keep of the types, with    *)
(* both callbacks registered before serveAll runs (main.go:108-127).       *)
THEOREM TypeCorrect == Spec => []TypeOK
<1>1. Init => TypeOK
  <2> SUFFICES ASSUME Init PROVE TypeOK
    OBVIOUS
  <2>1. cbs = Registered(mainPC) /\ mainPC \in StartingUp
    BY DEF Init, Registered, StartingUp
  <2>2. changes \in 0..MaxChanges
    BY ChangesAssumption DEF Init
  <2>3. /\ calls = <<>> /\ srvPC = "idle" /\ monPC = "poll" /\ acc = "none"
        /\ restart = FALSE /\ quit = FALSE /\ stopped = FALSE
        /\ clashFailed = FALSE /\ unanswered = 0
        /\ os \in Tables /\ port \in {"free", "taken"}
    BY DEF Init
  <2> QED
    <3>1. /\ restart \in BOOLEAN /\ quit \in BOOLEAN /\ stopped \in BOOLEAN
          /\ clashFailed \in BOOLEAN
      BY <2>3
    <3>2. unanswered \in Int /\ (srvPC = "idle" <=> mainPC \in StartingUp)
      BY <2>1, <2>3
    <3>3. calls \in {<<>>, <<"clash">>, <<"restart">>, <<"clash", "restart">>}
      BY <2>3
    <3> QED
      BY <2>1, <2>2, <2>3, <3>1, <3>2, <3>3 DEF TypeOK
<1>2. TypeOK /\ [Next]_vars => TypeOK'
  <2> SUFFICES ASSUME TypeOK, [Next]_vars PROVE TypeOK'
    OBVIOUS
  <2> USE DEF TypeOK, envVars, monVars, mainVars, srvVars, file,
      envRest, monRest, mainRest, srvRest
  <2>1. CASE AdaptersChange
    BY <2>1, ChangesAssumption DEF AdaptersChange
  <2>2. CASE PortChanges
    BY <2>2, ChangesAssumption DEF PortChanges
  <2>3. CASE AcceptFails
    BY <2>3 DEF AcceptFails
  <2>4. CASE Refresh
    BY <2>4 DEF Refresh
  <2>5. CASE CopyCallbacks
    BY <2>5 DEF CopyCallbacks, Registered, StartingUp
  <2>6. CASE CallClash
    <3>1. clashFailed' \in BOOLEAN
      BY <2>6, WriteClashType DEF CallClash
    <3> QED
      BY <2>6, <3>1, CallbackLists DEF CallClash
  <2>7. CASE CallRestart
    BY <2>7, CallbackLists DEF CallRestart, SendRestart
  <2>8. CASE CallsDone
    BY <2>8 DEF CallsDone
  <2>9. CASE MonitorStops
    BY <2>9 DEF MonitorStops
  <2>10. CASE RegisterClash
    BY <2>10, CallbackLists DEF RegisterClash, Registered, StartingUp
  <2>11. CASE EvaluateSnapshot
    BY <2>11 DEF EvaluateSnapshot, Registered, StartingUp
  <2>12. CASE WriteFirstClash
    <3>1. clashFailed' \in BOOLEAN
      BY <2>12, WriteClashType DEF WriteFirstClash
    <3> QED
      BY <2>12, <3>1 DEF WriteFirstClash, Registered, StartingUp
  <2>13. CASE RegisterRestart
    BY <2>13, CallbackLists DEF RegisterRestart, Registered, StartingUp
  <2>14. CASE SpawnServeAll
    BY <2>14 DEF SpawnServeAll, Registered, StartingUp
  <2>15. CASE Signal
    BY <2>15 DEF Signal, Registered, StartingUp
  <2>16. CASE StopMonitor
    BY <2>16 DEF StopMonitor, Registered, StartingUp
  <2>17. CASE Exit
    BY <2>17 DEF Exit, Registered, StartingUp
  <2>18. CASE TakeSnapshot
    BY <2>18 DEF TakeSnapshot
  <2>19. CASE Listen
    BY <2>19 DEF Listen
  <2>20. CASE ListenAdmin
    BY <2>20 DEF ListenAdmin
  <2>21. CASE RetryOnToken
    <3>1. srvPC = "retry" /\ unanswered' = unanswered - 1
      BY <2>21 DEF RetryOnToken
    <3>2. unanswered' \in Int
      BY <3>1
    <3>3. UNCHANGED <<envVars, monVars, mainVars, acc, file>>
      BY <2>21 DEF RetryOnToken
    <3>4. srvPC' = "snapshot" /\ restart' = FALSE
      BY <2>21 DEF RetryOnToken
    <3> QED
      BY <3>1, <3>2, <3>3, <3>4
  <2>28. CASE RetryOnTimer \/ RetryOnQuit
    BY <2>28 DEF RetryOnTimer, RetryOnQuit
  <2>22. CASE Rebuild
    <3>1. srvPC = "serving" /\ unanswered' = unanswered - 1
      BY <2>22 DEF Rebuild
    <3>2. unanswered' \in Int
      BY <3>1
    <3>3. UNCHANGED <<envVars, monVars, mainVars, acc, file>>
      BY <2>22 DEF Rebuild
    <3>4. srvPC' = "join" /\ restart' = FALSE
      BY <2>22 DEF Rebuild
    <3> QED
      BY <3>1, <3>2, <3>3, <3>4
  <2>23. CASE ServeQuits
    BY <2>23 DEF ServeQuits, CloseListeners
  <2>24. CASE JoinAcceptor
    BY <2>24 DEF JoinAcceptor
  <2>25. CASE AcceptorEnds
    BY <2>25 DEF AcceptorEnds
  <2>26. CASE Ended
    BY <2>26 DEF Ended, vars
  <2>27. CASE UNCHANGED vars
    BY <2>27 DEF vars
  <2> QED
    BY <2>1, <2>2, <2>3, <2>4, <2>5, <2>6, <2>7, <2>8, <2>9, <2>10, <2>11,
       <2>12, <2>13, <2>14, <2>15, <2>16, <2>17, <2>18, <2>19, <2>20, <2>21,
       <2>22, <2>23, <2>24, <2>25, <2>26, <2>27, <2>28
       DEF Next, Monitor, MainProceeds, ServeAll
<1> QED
  BY <1>1, <1>2, PTL DEF Spec

-----------------------------------------------------------------------------
(* The two accounts of the restart channel.  A token is owed for every     *)
(* change the monitor has stored: at most one is in the channel and one on *)
(* its way, and each rebuild has used one up.                              *)
Owed == unanswered >= (IF restart THEN 1 ELSE 0) + (IF CallbackPending THEN 1 ELSE 0)

RestartInv == NoLostRestart /\ Owed

(* Once serveAll exists both callbacks are in the list, so that a copy of  *)
(* the list includes the restart callback.                                 *)
LEMMA CopiesBoth ==
  ASSUME TypeOK, srvPC # "idle"
  PROVE  cbs = <<"clash", "restart">>
  BY DEF TypeOK, Registered, StartingUp

(* It holds when the process starts: nobody owes anything yet.             *)
LEMMA RestartInit == Init => RestartInv
  BY DEF Init, RestartInv, NoLostRestart, Owed, CallbackPending

(* Every step of main, the monitor and serveAll preserves it.              *)
LEMMA RestartStep == TypeOK /\ TypeOK' /\ RestartInv /\ [Next]_vars => RestartInv'
<1> SUFFICES ASSUME TypeOK, TypeOK', NoLostRestart, Owed, [Next]_vars
             PROVE  NoLostRestart' /\ Owed'
  BY DEF RestartInv
<1>0. unanswered \in Int /\ restart \in BOOLEAN
  BY DEF TypeOK
<1> DEFINE Using == srvPC \in {"listen", "retry", "admin", "serving"}
<1> USE DEF NoLostRestart, Owed, CallbackPending, LANMoved,
            envVars, monVars, mainVars, srvVars, file,
      envRest, monRest, mainRest, srvRest
<1>1. CASE UNCHANGED <<monVars, srvPC, lip, restart, unanswered>>
  BY <1>1
<1>2. CASE Refresh
  <2>1. restart' = restart /\ lip' = lip /\ srvPC' = srvPC /\ monPC = "poll"
    BY <1>2 DEF Refresh
  <2>2. CASE LANIP(snap) = LANIP(snap')
    <3>1. ListenIP(snap) = ListenIP(snap') /\ unanswered' = unanswered
      BY <1>2, <2>2 DEF Refresh, ListenIP
    <3>2. ~CallbackPending /\ ~CallbackPending'
      BY <1>2, <2>1, <2>2 DEF Refresh
    <3> QED
      BY <2>1, <3>1, <3>2, <1>0
  <2>3. CASE LANIP(snap) # LANIP(snap')
    <3>1. unanswered' = unanswered + 1 /\ CallbackPending'
      BY <1>2, <2>3 DEF Refresh, Changed
    <3>2. ~CallbackPending
      BY <2>1
    <3> QED
      BY <2>1, <3>1, <3>2, <1>0
  <2> QED
    BY <2>2, <2>3
<1>3. CASE CopyCallbacks
  <2>1. UNCHANGED <<restart, srvPC, lip, snap, old, unanswered>>
    BY <1>3 DEF CopyCallbacks
  <2>2. Using /\ CallbackPending => CallbackPending'
    BY <1>3, CopiesBoth DEF CopyCallbacks
  <2>3. CallbackPending' => CallbackPending
    BY <1>3 DEF CopyCallbacks
  <2> QED
    BY <2>1, <2>2, <2>3, <1>0
<1>4. CASE CallClash
  <2>1. UNCHANGED <<restart, srvPC, lip, snap, old, monPC, unanswered>>
    BY <1>4 DEF CallClash
  <2>2. calls \in {<<"clash">>, <<"clash", "restart">>} /\ calls' = Tail(calls)
    BY <1>4, CallbackLists DEF CallClash, TypeOK
  <2>3. CASE calls = <<"clash">>
    <3>1. calls' = <<>> /\ ~CallbackPending
      BY <1>4, <2>2, <2>3, CallbackLists DEF CallClash
    <3>2. ~CallbackPending'
      BY <3>1, <2>1, <1>4 DEF CallClash
    <3> QED
      BY <2>1, <3>1, <3>2, <1>0
  <2>4. CASE calls = <<"clash", "restart">>
    <3>1. calls' = <<"restart">>
      BY <2>2, <2>4, CallbackLists
    <3>2. CallbackPending' <=> CallbackPending
      BY <3>1, <2>1, <2>4
    <3> QED
      BY <2>1, <3>2, <1>0
  <2> QED
    BY <2>2, <2>3, <2>4
<1>5. CASE CallRestart
  <2>1. UNCHANGED <<srvPC, lip, snap, old, monPC, unanswered>>
    BY <1>5 DEF CallRestart
  <2>2. calls = <<"restart">> /\ calls' = <<>> /\ monPC = "calling"
    BY <1>5, CallbackLists DEF CallRestart, TypeOK
  <2>3. ~CallbackPending'
    BY <2>1, <2>2
  <2>4. CASE CallbackPending
    <3>1. restart' = TRUE
      BY <1>5, <2>2, <2>4 DEF CallRestart, SendRestart
    <3> QED
      BY <2>1, <2>3, <2>4, <3>1, <1>0
  <2>5. CASE ~CallbackPending
    <3>1. restart' = restart
      BY <1>5, <2>2, <2>5, <1>0 DEF CallRestart, SendRestart
    <3> QED
      BY <2>1, <2>3, <2>5, <3>1, <1>0
  <2> QED
    BY <2>4, <2>5
<1>6. CASE CallsDone
  <2>1. UNCHANGED <<restart, srvPC, lip, snap, unanswered>>
    BY <1>6 DEF CallsDone
  <2>2. ~CallbackPending /\ ~CallbackPending'
    BY <1>6 DEF CallsDone
  <2> QED
    BY <2>1, <2>2, <1>0
<1>7. CASE MonitorStops
  <2>1. UNCHANGED <<restart, srvPC, lip, snap, unanswered>>
    BY <1>7 DEF MonitorStops
  <2>2. ~CallbackPending /\ ~CallbackPending'
    BY <1>7 DEF MonitorStops
  <2> QED
    BY <2>1, <2>2, <1>0
<1>8. CASE SpawnServeAll
  BY <1>8 DEF SpawnServeAll
<1>9. CASE TakeSnapshot
  BY <1>9 DEF TakeSnapshot
<1>10. CASE Listen \/ ListenAdmin
  BY <1>10 DEF Listen, ListenAdmin
<1>11. CASE RetryOnToken \/ Rebuild
  <2>1. restart /\ restart' = FALSE /\ unanswered' = unanswered - 1 /\ ~Using'
    BY <1>11 DEF RetryOnToken, Rebuild
  <2>2. UNCHANGED monVars
    BY <1>11 DEF RetryOnToken, Rebuild
  <2>3. CallbackPending' <=> CallbackPending
    BY <2>2
  <2> QED
    BY <2>1, <2>3, <1>0
<1>12. CASE RetryOnTimer \/ RetryOnQuit \/ ServeQuits \/ JoinAcceptor
  BY <1>12 DEF RetryOnTimer, RetryOnQuit, ServeQuits, JoinAcceptor
<1>13. ASSUME \/ AdaptersChange \/ PortChanges \/ AcceptFails \/ RegisterClash
              \/ EvaluateSnapshot \/ WriteFirstClash \/ RegisterRestart
              \/ StopMonitor \/ Exit \/ Signal \/ AcceptorEnds \/ Ended
              \/ UNCHANGED vars
       PROVE  UNCHANGED <<monVars, srvPC, lip, restart, unanswered>>
  BY <1>13 DEF AdaptersChange, PortChanges, AcceptFails, RegisterClash,
     EvaluateSnapshot, WriteFirstClash, RegisterRestart, StopMonitor, Exit,
     Signal, AcceptorEnds, Ended, vars
<1> QED
  BY <1>1, <1>2, <1>3, <1>4, <1>5, <1>6, <1>7, <1>8, <1>9, <1>10, <1>11,
     <1>12, <1>13 DEF Next, Monitor, MainProceeds, ServeAll

(* No change of the LAN address is lost between the monitor and serveAll   *)
(* (main.go:117-127, 193-250), however often the adapters change.          *)
THEOREM RestartNeverLost == Spec => []NoLostRestart
<1>1. RestartInv => NoLostRestart
  BY DEF RestartInv
<1> QED
  BY <1>1, RestartInit, RestartStep, TypeCorrect, PTL DEF Spec

(* serveAll rebuilds at most once per change of the LAN address, so that a *)
(* redial of the WAN side alone never closes the listeners.                *)
THEOREM RebuildsAreCaused == Spec => []RebuildsNeedAChange
<1>1. TypeOK /\ RestartInv => RebuildsNeedAChange
  BY DEF RestartInv, Owed, RebuildsNeedAChange, TypeOK
<1> QED
  BY <1>1, RestartInit, RestartStep, TypeCorrect, PTL DEF Spec

-----------------------------------------------------------------------------
(* What serveAll holds open at each point of its loop.                     *)
ListenersInv ==
  /\ srvPC \in {"idle", "snapshot", "listen", "retry", "join", "returned"}
       => proxyLn = NoIP /\ adminLn = NoIP
  /\ srvPC \in {"admin", "serving"} => proxyLn = lip
  /\ srvPC = "admin" => adminLn = NoIP
  /\ srvPC = "serving" => adminLn \in {NoIP, lip}
  /\ srvPC \in {"idle", "snapshot", "listen", "retry", "admin"} => acc # "accepting"

(* Every step preserves it; only serveAll, the accept loop and the         *)
(* environment touch what it is about (main.go:193-250).                   *)
LEMMA ListenersStep == TypeOK /\ ListenersInv /\ [Next]_vars => ListenersInv'
<1> SUFFICES ASSUME TypeOK, ListenersInv, [Next]_vars PROVE ListenersInv'
  OBVIOUS
<1> USE DEF ListenersInv, envRest, monRest, mainRest, srvRest
<1>1. CASE UNCHANGED srvVars
  BY <1>1 DEF srvVars
<1>2. CASE AcceptFails
  BY <1>2 DEF AcceptFails
<1>3. CASE AcceptorEnds
  BY <1>3 DEF AcceptorEnds
<1>4. CASE SpawnServeAll
  <2>1. srvPC = "idle"
    BY <1>4 DEF SpawnServeAll, TypeOK, StartingUp
  <2> QED
    BY <1>4, <2>1 DEF SpawnServeAll
<1>5. CASE TakeSnapshot
  BY <1>5 DEF TakeSnapshot
<1>6. CASE Listen
  BY <1>6 DEF Listen
<1>7. CASE ListenAdmin
  BY <1>7 DEF ListenAdmin
<1>8. CASE RetryOnToken \/ RetryOnTimer \/ RetryOnQuit
  BY <1>8 DEF RetryOnToken, RetryOnTimer, RetryOnQuit
<1>9. CASE Rebuild \/ ServeQuits
  BY <1>9 DEF Rebuild, ServeQuits, CloseListeners
<1>10. CASE JoinAcceptor
  BY <1>10 DEF JoinAcceptor
<1>11. ASSUME \/ AdaptersChange \/ PortChanges \/ Monitor \/ RegisterClash
              \/ EvaluateSnapshot \/ WriteFirstClash \/ RegisterRestart
              \/ StopMonitor \/ Exit \/ Signal \/ Ended \/ UNCHANGED vars
       PROVE  UNCHANGED srvVars
  BY <1>11 DEF AdaptersChange, PortChanges, Monitor, Refresh, CopyCallbacks,
     CallClash, CallRestart, CallsDone, MonitorStops, RegisterClash,
     EvaluateSnapshot, WriteFirstClash, RegisterRestart, StopMonitor, Exit,
     Signal, Ended, vars
<1> QED
  BY <1>1, <1>2, <1>3, <1>4, <1>5, <1>6, <1>7, <1>8, <1>9, <1>10, <1>11
     DEF Next, MainProceeds, ServeAll

(* serveAll closes what it opened on every path and waits for the accept   *)
(* loop before it listens again (main.go:234-248).                         *)
THEOREM ListenersReleased == Spec => []NoLeftovers
<1>1. Init => ListenersInv
  BY DEF Init, ListenersInv
<1>2. TypeOK /\ ListenersInv => NoLeftovers
  BY DEF TypeOK, ListenersInv, NoLeftovers
<1> QED
  BY <1>1, <1>2, ListenersStep, TypeCorrect, PTL DEF Spec

-----------------------------------------------------------------------------
(* The Clash file.  From main's evaluation of the snapshot on, the file is *)
(* right, or as old as that evaluation, or about to be written: by the     *)
(* monitor, or by main with the address that is still current.             *)
ClashPending == \/ monPC = "changed"
                \/ monPC = "calling" /\ calls \in {<<"clash">>, <<"clash", "restart">>}

ClashKnown == clash # NoIP /\ clash \in {LANIP(snap), LANIP(mainSnap)}

ClashInv ==
  mainPC \notin {"wait", "evaluate"} /\ ~clashFailed /\ LANIP(snap) # NoIP =>
    \/ ClashKnown
    \/ ClashPending
    \/ mainPC = "write" /\ LANIP(mainSnap) = LANIP(snap)

(* Every step preserves it; the writers are main and the first callback    *)
(* (main.go:108-111).                                                      *)
LEMMA ClashStep == TypeOK /\ ClashInv /\ [Next]_vars => ClashInv'
<1> SUFFICES ASSUME TypeOK, ClashInv, [Next]_vars PROVE ClashInv'
  OBVIOUS
<1> USE DEF ClashInv, ClashKnown, ClashPending, envRest, monRest, mainRest, srvRest
<1>1. CASE /\ UNCHANGED <<monVars, file, mainSnap>>
           /\ mainPC' = mainPC \/ mainPC \notin {"wait", "evaluate", "write"}
  BY <1>1 DEF monVars, file
<1>2. CASE Refresh
  <2>1. UNCHANGED <<mainPC, mainSnap, clash, clashFailed>> /\ ~ClashPending
    BY <1>2 DEF Refresh, mainVars, file
  <2>2. CASE Changed(snap, snap')
    BY <1>2, <2>2 DEF Refresh
  <2>3. CASE ~Changed(snap, snap')
    <3>1. LANIP(snap) = LANIP(snap')
      BY <2>3 DEF Changed
    <3> QED
      BY <2>1, <3>1
  <2> QED
    BY <2>2, <2>3
<1>3. CASE CopyCallbacks
  <2>1. UNCHANGED <<mainPC, mainSnap, clash, clashFailed, snap>>
    BY <1>3 DEF CopyCallbacks, mainVars, file
  <2>2. mainPC # "wait" => calls' \in {<<"clash">>, <<"clash", "restart">>}
    BY <1>3 DEF CopyCallbacks, TypeOK, Registered
  <2> QED
    BY <1>3, <2>1, <2>2 DEF CopyCallbacks
<1>4. CASE CallClash
  <2>1. UNCHANGED <<mainPC, mainSnap, snap>> /\ WriteClash(snap)
    BY <1>4 DEF CallClash, mainVars
  <2> QED
    BY <2>1 DEF WriteClash
<1>5. CASE CallRestart
  <2>1. UNCHANGED <<mainPC, mainSnap, snap, clash, clashFailed>>
    BY <1>5 DEF CallRestart, mainVars, file
  <2>2. calls = <<"restart">>
    BY <1>5, CallbackLists DEF CallRestart, TypeOK
  <2>3. ~ClashPending
    BY <1>5, <2>2 DEF CallRestart
  <2> QED
    BY <2>1, <2>3
<1>6. CASE CallsDone \/ MonitorStops
  <2>1. UNCHANGED <<mainPC, mainSnap, snap, clash, clashFailed>>
    BY <1>6 DEF CallsDone, MonitorStops, mainVars, file
  <2>2. ~ClashPending
    BY <1>6 DEF CallsDone, MonitorStops
  <2> QED
    BY <2>1, <2>2
<1>7. CASE RegisterClash
  BY <1>7 DEF RegisterClash
<1>8. CASE EvaluateSnapshot
  BY <1>8 DEF EvaluateSnapshot, monVars
<1>9. CASE WriteFirstClash
  <2>1. UNCHANGED <<monVars, mainSnap>> /\ WriteClash(mainSnap) /\ mainPC = "write"
    BY <1>9 DEF WriteFirstClash
  <2> QED
    BY <2>1 DEF WriteClash, monVars, file
<1>10. ASSUME \/ AdaptersChange \/ PortChanges \/ AcceptFails \/ RegisterRestart
              \/ SpawnServeAll \/ StopMonitor \/ Exit \/ Signal \/ ServeAll
              \/ AcceptorEnds \/ Ended \/ UNCHANGED vars
       PROVE  /\ UNCHANGED <<monVars, file, mainSnap>>
              /\ mainPC' = mainPC \/ mainPC \notin {"wait", "evaluate", "write"}
  BY <1>10 DEF AdaptersChange, PortChanges, AcceptFails, RegisterRestart,
     SpawnServeAll, StopMonitor, Exit, Signal, ServeAll, TakeSnapshot, Listen,
     ListenAdmin, RetryOnToken, RetryOnTimer, RetryOnQuit, Rebuild, ServeQuits,
     JoinAcceptor, AcceptorEnds, Ended, vars, mainVars
<1> QED
  BY <1>1, <1>2, <1>3, <1>4, <1>5, <1>6, <1>7, <1>8, <1>9, <1>10
     DEF Next, Monitor, MainProceeds

(* The Clash file names the current LAN address, or the one main evaluated *)
(* at start-up, and is never missing (main.go:107-111).                    *)
THEOREM ClashLagIsBounded == Spec => []ClashLagsOnlyFromStartUp
<1>1. Init => ClashInv
  BY DEF Init, ClashInv
<1>2. ClashInv => ClashLagsOnlyFromStartUp
  BY DEF ClashInv, ClashKnown, ClashPending, ClashLagsOnlyFromStartUp
<1> QED
  BY <1>1, <1>2, ClashStep, TypeCorrect, PTL DEF Spec
=============================================================================
