----------------------------- MODULE Supervisor -----------------------------
(***************************************************************************)
(* The goroutines that keep the relay's listeners on the LAN adapter:      *)
(* main's start-up and shutdown, the adapter monitor (netmon.Monitor), the *)
(* listener loop serveAll and the accept loop mixed.Serve.                 *)
(*                                                                         *)
(* They share the monitor's atomic snapshot, its mutex-guarded callback    *)
(* list, the `restart` channel of capacity one, the channels `quit`,       *)
(* `stopped` and `acceptDone`, and the file clash-android.yaml.  Each      *)
(* action is what one goroutine does between two operations on that state. *)
(* A failed enumeration changes nothing and is a stuttering step.          *)
(***************************************************************************)
EXTENDS Adapters, Integers

CONSTANTS Tables,        \* the enumerations the system can return over time
          CfgListen,     \* configuration `listen`
          CfgWAN,        \* configuration `wan`
          AdminEnabled,  \* admin_port > 0
          DiskMayFail,   \* can os.WriteFile fail?
          MaxChanges     \* bound on the changes of the environment

ASSUME FlagsAssumption == AdminEnabled \in BOOLEAN /\ DiskMayFail \in BOOLEAN
ASSUME ChangesAssumption == MaxChanges \in Nat

(* What FetchAdapters and the selection can make of each enumeration.      *)
Selected == [t \in Tables |-> Snapshots(t, CfgListen, CfgWAN)]

VARIABLES
  os,        \* what FetchAdapters would return now
  port,      \* the proxy port: "free", or "taken" by another process
  changes,   \* number of changes of `os` and `port` so far
  snap,      \* Monitor.snap
  cbs,       \* Monitor.cbs: the registered callbacks, in order
  monPC,     \* control of Monitor.Run
  old,       \* refresh's `old`, NoSnapshot outside the handling of a change;
             \* its `ns` is snap, which only refresh stores
  calls,     \* the callbacks of refresh's copied list still to be called
  stopped,   \* Monitor.stopped is closed
  mainPC,    \* control of main
  mainSnap,  \* the snapshot main evaluated for writeClashConfig
  clash,     \* the address in clash-android.yaml, NoIP if missing or damaged
  clashFailed, \* the last os.WriteFile of that file failed
  restart,   \* a token is in the channel `restart`
  quit,      \* the channel `quit` is closed
  srvPC,     \* control of serveAll
  lip,       \* serveAll's `lip`
  proxyLn,   \* the address proxyLn listens on, NoIP if it is closed
  adminLn,   \* the address adminLn listens on, NoIP if nil or closed
  acc,       \* mixed.Serve: "none", "accepting" or "returned" (acceptDone)
  unanswered \* history: changes of the LAN address the monitor has stored,
             \* less the restart tokens serveAll has consumed

envVars  == <<os, port, changes>>
monVars  == <<snap, monPC, old, calls>>
mainVars == <<mainPC, mainSnap, cbs, quit, stopped>>
srvVars  == <<srvPC, lip, proxyLn, adminLn, acc>>
file     == <<clash, clashFailed>>
vars == <<envVars, monVars, mainVars, srvVars, file, restart, unanswered>>

(* What the steps of each goroutine leave alone.                           *)
envRest  == <<monVars, mainVars, srvVars, file, restart, unanswered>>
monRest  == <<envVars, mainVars, srvVars, unanswered>>
mainRest == <<envVars, monVars, srvVars, restart, unanswered>>
srvRest  == <<envVars, monVars, mainVars, file>>

(* The listening address when no LAN adapter is ready.                     *)
Wildcard == [id |-> "0.0.0.0", kind |-> "unspecified"]

ListenIP(s) == IF LANIP(s) # NoIP THEN LANIP(s) ELSE Wildcard

(* Main has called os.Exit's equivalent: every goroutine is gone.          *)
Running == mainPC # "exited"

-----------------------------------------------------------------------------
Init ==
  /\ os \in Tables /\ port \in {"free", "taken"} /\ changes = 0
  /\ snap = NoSnapshot /\ old = NoSnapshot /\ monPC = "poll" /\ calls = <<>>
  /\ cbs = <<>> /\ stopped = FALSE /\ quit = FALSE
  /\ mainPC = "wait" /\ mainSnap = NoSnapshot
  /\ clash = NoIP /\ clashFailed = FALSE /\ restart = FALSE
  /\ srvPC = "idle" /\ lip = Wildcard /\ proxyLn = NoIP /\ adminLn = NoIP
  /\ acc = "none"
  /\ unanswered = 0

-----------------------------------------------------------------------------
(* The environment: adapters come, go, redial and change address; another  *)
(* process takes or releases the proxy port; an accept call fails.         *)

AdaptersChange ==
  /\ Running /\ changes < MaxChanges
  /\ os' \in Tables \ {os}
  /\ changes' = changes + 1
  /\ UNCHANGED <<envRest, port>>

PortChanges ==
  /\ Running /\ changes < MaxChanges
  /\ proxyLn = NoIP
  /\ port' = IF port = "free" THEN "taken" ELSE "free"
  /\ changes' = changes + 1
  /\ UNCHANGED <<envRest, os>>

(* mixed.Serve gives up on an error that is not a timeout, although the    *)
(* listener is still open.                                                 *)
AcceptFails ==
  /\ Running /\ acc = "accepting" /\ proxyLn # NoIP
  /\ acc' = "returned"
  /\ UNCHANGED <<srvRest, srvPC, lip, proxyLn, adminLn, restart, unanswered>>

-----------------------------------------------------------------------------
(* writeClashConfig(s): nothing without a LAN address; a failing write     *)
(* leaves the file alone or damaged.                                       *)
WriteClash(s) ==
  \/ LANIP(s) = NoIP /\ UNCHANGED file
  \/ LANIP(s) # NoIP /\ clash' = LANIP(s) /\ clashFailed' = FALSE
  \/ DiskMayFail /\ LANIP(s) # NoIP
     /\ clash' \in {clash, NoIP} /\ clashFailed' = TRUE

(* A non-blocking send: a token already in the channel stands for this one *)
(* too.                                                                    *)
SendRestart == restart' = TRUE

(* The monitor goroutine.  The ticker may win the select of Run even after *)
(* Stop.                                                                   *)

(* refresh: enumerate, choose, store; then see whether anything changed.   *)
Refresh ==
  /\ Running /\ monPC = "poll"
  /\ snap' \in Selected[os]
  /\ IF Changed(snap, snap') THEN old' = snap /\ monPC' = "changed"
                              ELSE UNCHANGED <<old, monPC>>
  /\ unanswered' = IF LANIP(snap) # LANIP(snap') THEN unanswered + 1 ELSE unanswered
  /\ UNCHANGED <<envVars, mainVars, srvVars, calls, file, restart>>

(* Under the mutex, copy the callbacks that are registered by now.         *)
CopyCallbacks ==
  /\ Running /\ monPC = "changed"
  /\ calls' = cbs
  /\ monPC' = "calling"
  /\ UNCHANGED <<monRest, snap, old, file, restart>>

(* Faulty variant: the callback writes the snapshot that is gone.          *)
CallClashWithOld ==
  /\ Running /\ monPC = "calling" /\ calls # <<>> /\ Head(calls) = "clash"
  /\ WriteClash(old)
  /\ calls' = Tail(calls)
  /\ UNCHANGED <<monRest, snap, monPC, old, restart>>

(* The first callback main registers: rewrite the Clash file.              *)
CallClash ==
  /\ Running /\ monPC = "calling" /\ calls # <<>> /\ Head(calls) = "clash"
  /\ WriteClash(snap)
  /\ calls' = Tail(calls)
  /\ UNCHANGED <<monRest, snap, monPC, old, restart>>

(* Faulty variant: every change asks for a rebuild.                        *)
CallRestartAlways ==
  /\ Running /\ monPC = "calling" /\ calls # <<>> /\ Head(calls) = "restart"
  /\ SendRestart
  /\ calls' = Tail(calls)
  /\ UNCHANGED <<monRest, snap, monPC, old, file>>

(* The second one: ask serveAll to rebuild if the LAN address moved.       *)
CallRestart ==
  /\ Running /\ monPC = "calling" /\ calls # <<>> /\ Head(calls) = "restart"
  /\ IF LANIP(old) # LANIP(snap) THEN SendRestart ELSE UNCHANGED restart
  /\ calls' = Tail(calls)
  /\ UNCHANGED <<monRest, snap, monPC, old, file>>

CallsDone ==
  /\ Running /\ monPC = "calling" /\ calls = <<>>
  /\ monPC' = "poll" /\ old' = NoSnapshot
  /\ UNCHANGED <<monRest, snap, calls, file, restart>>

MonitorStops ==
  /\ Running /\ monPC = "poll" /\ stopped
  /\ monPC' = "returned"
  /\ UNCHANGED <<monRest, snap, old, calls, file, restart>>

Monitor == \/ Refresh \/ CopyCallbacks \/ CallClash \/ CallRestart
           \/ CallsDone \/ MonitorStops

-----------------------------------------------------------------------------
(* The main goroutine.                                                     *)

(* WaitReady returns when both adapters are ready or after two minutes,    *)
(* and main goes on in both cases, so that it has no guard; then main      *)
(* registers the callback that rewrites the Clash file.                    *)
RegisterClash ==
  /\ mainPC = "wait"
  /\ cbs' = Append(cbs, "clash")
  /\ mainPC' = "evaluate"
  /\ UNCHANGED <<mainRest, mainSnap, quit, stopped, file>>

(* The argument of main's own writeClashConfig call is evaluated ...       *)
EvaluateSnapshot ==
  /\ mainPC = "evaluate"
  /\ mainSnap' = snap
  /\ mainPC' = "write"
  /\ UNCHANGED <<mainRest, cbs, quit, stopped, file>>

(* ... before the file is written.                                         *)
WriteFirstClash ==
  /\ mainPC = "write"
  /\ WriteClash(mainSnap)
  /\ mainPC' = "register"
  /\ UNCHANGED <<mainRest, mainSnap, cbs, quit, stopped>>

(* Faulty variant: the registration replaces the list.                     *)
RegisterRestartAlone ==
  /\ mainPC = "register"
  /\ cbs' = <<"restart">>
  /\ mainPC' = "spawn"
  /\ UNCHANGED <<mainRest, mainSnap, quit, stopped, file>>

RegisterRestart ==
  /\ mainPC = "register"
  /\ cbs' = Append(cbs, "restart")
  /\ mainPC' = "spawn"
  /\ UNCHANGED <<mainRest, mainSnap, quit, stopped, file>>

SpawnServeAll ==
  /\ mainPC = "spawn"
  /\ srvPC' = "snapshot"
  /\ mainPC' = "running"
  /\ UNCHANGED <<envVars, monVars, mainSnap, cbs, quit, stopped, lip, proxyLn,
                 adminLn, acc, file, restart, unanswered>>

(* SIGINT or SIGTERM: close(quit), ...                                     *)
Signal ==
  /\ mainPC = "running"
  /\ quit' = TRUE
  /\ mainPC' = "stop"
  /\ UNCHANGED <<mainRest, mainSnap, cbs, stopped, file>>

(* ... mon.Stop(), ...                                                     *)
StopMonitor ==
  /\ mainPC = "stop"
  /\ stopped' = TRUE
  /\ mainPC' = "linger"
  /\ UNCHANGED <<mainRest, mainSnap, cbs, quit, file>>

(* ... and 300 ms later the process ends, whoever is still at work.        *)
Exit ==
  /\ mainPC = "linger"
  /\ mainPC' = "exited"
  /\ UNCHANGED <<mainRest, mainSnap, cbs, quit, stopped, file>>

MainProceeds == \/ RegisterClash \/ EvaluateSnapshot \/ WriteFirstClash
                \/ RegisterRestart \/ SpawnServeAll \/ StopMonitor \/ Exit

-----------------------------------------------------------------------------
(* serveAll and the accept loop it starts.                                 *)

(* The address has to be one of this machine's, and the port not in use.   *)
CanListen(ip) ==
  /\ port = "free"
  /\ ip = Wildcard \/ \E a \in ToSet(os) : a.up /\ ip \in ToSet(a.v4)

TakeSnapshot ==
  /\ Running /\ srvPC = "snapshot"
  /\ lip' = ListenIP(snap)
  /\ srvPC' = "listen"
  /\ UNCHANGED <<srvRest, proxyLn, adminLn, acc, restart, unanswered>>

Listen ==
  /\ Running /\ srvPC = "listen"
  /\ \/ CanListen(lip) /\ proxyLn' = lip /\ srvPC' = "admin"
     \/ ~CanListen(lip) /\ srvPC' = "retry" /\ UNCHANGED proxyLn
  /\ UNCHANGED <<srvRest, lip, adminLn, acc, restart, unanswered>>

(* sleepOr: a token, the quit channel or the five seconds, whichever the   *)
(* select takes.                                                           *)
RetryOnToken ==
  /\ Running /\ srvPC = "retry" /\ restart
  /\ restart' = FALSE /\ unanswered' = unanswered - 1
  /\ srvPC' = "snapshot"
  /\ UNCHANGED <<srvRest, lip, proxyLn, adminLn, acc>>

(* Faulty variant: sleepOr waits for a token or quit only.                 *)
RetryWithoutTimer == FALSE

RetryOnTimer ==
  /\ Running /\ srvPC = "retry"
  /\ srvPC' = "snapshot"
  /\ UNCHANGED <<srvRest, lip, proxyLn, adminLn, acc, restart, unanswered>>

RetryOnQuit ==
  /\ Running /\ srvPC = "retry" /\ quit
  /\ srvPC' = "returned"
  /\ UNCHANGED <<srvRest, lip, proxyLn, adminLn, acc, restart, unanswered>>

(* Faulty variant: tokens left from before the listener was opened are     *)
(* taken for outdated and drained.                                         *)
ListenAdminDraining ==
  /\ Running /\ srvPC = "admin"
  /\ adminLn' \in IF AdminEnabled THEN {lip, NoIP} ELSE {NoIP}
  /\ acc' = "accepting"
  /\ srvPC' = "serving"
  /\ restart' = FALSE
  /\ UNCHANGED <<srvRest, lip, proxyLn, unanswered>>

(* The status page may fail to listen, which is logged and no more; then   *)
(* the accept loop is started.                                             *)
ListenAdmin ==
  /\ Running /\ srvPC = "admin"
  /\ adminLn' \in IF AdminEnabled THEN {lip, NoIP} ELSE {NoIP}
  /\ acc' = "accepting"
  /\ srvPC' = "serving"
  /\ UNCHANGED <<srvRest, lip, proxyLn, restart, unanswered>>

(* Faulty variant: the status page is forgotten.                           *)
CloseProxyOnly == proxyLn' = NoIP /\ UNCHANGED adminLn

CloseListeners == proxyLn' = NoIP /\ adminLn' = NoIP

Rebuild ==
  /\ Running /\ srvPC = "serving" /\ restart
  /\ restart' = FALSE /\ unanswered' = unanswered - 1
  /\ CloseListeners
  /\ srvPC' = "join"
  /\ UNCHANGED <<srvRest, lip, acc>>

ServeQuits ==
  /\ Running /\ srvPC = "serving" /\ quit
  /\ CloseListeners
  /\ srvPC' = "returned"
  /\ UNCHANGED <<srvRest, lip, acc, restart, unanswered>>

(* <-acceptDone                                                            *)
JoinAcceptor ==
  /\ Running /\ srvPC = "join" /\ acc = "returned"
  /\ srvPC' = "snapshot"
  /\ UNCHANGED <<srvRest, lip, proxyLn, adminLn, acc, restart, unanswered>>

(* Accept on a closed listener fails, and mixed.Serve returns.             *)
AcceptorEnds ==
  /\ Running /\ acc = "accepting" /\ proxyLn = NoIP
  /\ acc' = "returned"
  /\ UNCHANGED <<srvRest, srvPC, lip, proxyLn, adminLn, restart, unanswered>>

ServeAll == \/ TakeSnapshot \/ Listen \/ ListenAdmin
            \/ RetryOnToken \/ RetryOnTimer \/ RetryOnQuit
            \/ Rebuild \/ ServeQuits \/ JoinAcceptor

-----------------------------------------------------------------------------
(* After the process has ended nothing happens any more.                   *)
Ended == ~Running /\ UNCHANGED vars

Next == \/ AdaptersChange \/ PortChanges \/ AcceptFails
        \/ Monitor \/ MainProceeds \/ Signal
        \/ ServeAll \/ AcceptorEnds
        \/ Ended

Spec == Init /\ [][Next]_vars

(* The Go scheduler runs every goroutine that can run, the poll ticker     *)
(* keeps ticking, and enumerations do not fail for ever.  Nothing forces a *)
(* signal or a change of the environment.                                  *)
Fairness == /\ WF_vars(Monitor) /\ WF_vars(MainProceeds)
            /\ WF_vars(ServeAll) /\ WF_vars(AcceptorEnds)

FairSpec == Spec /\ Fairness

-----------------------------------------------------------------------------
(* Types, and the fixed order of main's start-up: both callbacks are       *)
(* registered, in this order, before serveAll takes its first snapshot.    *)

Registered(pc) == CASE pc = "wait" -> <<>>
                    [] pc \in {"evaluate", "write", "register"} -> <<"clash">>
                    [] OTHER -> <<"clash", "restart">>

StartingUp == {"wait", "evaluate", "write", "register", "spawn"}

TypeOK ==
  /\ os \in Tables /\ port \in {"free", "taken"}
  /\ changes \in 0..MaxChanges
  /\ monPC \in {"poll", "changed", "calling", "returned"}
  /\ calls \in {<<>>, <<"clash">>, <<"restart">>, <<"clash", "restart">>}
  /\ mainPC \in StartingUp \cup {"running", "stop", "linger", "exited"}
  /\ cbs = Registered(mainPC)
  /\ restart \in BOOLEAN /\ quit \in BOOLEAN /\ stopped \in BOOLEAN
  /\ srvPC \in {"idle", "snapshot", "listen", "retry", "admin", "serving",
                "join", "returned"}
  /\ srvPC = "idle" <=> mainPC \in StartingUp
  /\ acc \in {"none", "accepting", "returned"}
  /\ clashFailed \in BOOLEAN /\ unanswered \in Int

-----------------------------------------------------------------------------
(* Safety.                                                                 *)

LANMoved == LANIP(old) # LANIP(snap)

(* The restart callback of the change being handled is still to be called. *)
CallbackPending ==
  /\ LANMoved
  /\ \/ monPC = "changed"
     \/ monPC = "calling" /\ calls \in {<<"restart">>, <<"clash", "restart">>}

(* main.go:116, netmon.go:333-361.  From the moment serveAll has read the  *)
(* LAN address until it reads it again, the address it uses is the one of  *)
(* the latest snapshot, or a restart is in the channel or on its way into  *)
(* it: a change of the LAN address is never lost, though the channel holds *)
(* one token, the send does not block, the callback is registered late and *)
(* the snapshot is read outside any lock.                                  *)
NoLostRestart ==
  srvPC \in {"listen", "retry", "admin", "serving"} /\ lip # ListenIP(snap)
    => restart \/ CallbackPending

(* main.go:119-126.  serveAll is told to rebuild no more often than the    *)
(* LAN address has changed: a redial of the WAN side, which also calls the *)
(* callbacks, never takes the listeners down.                              *)
RebuildsNeedAChange == unanswered >= 0

(* main.go:193-250.  On every path through its loop serveAll has closed    *)
(* both listeners before it reads the snapshot again or returns, and a     *)
(* rebuild starts only when the previous accept loop has ended; while it   *)
(* serves, both listeners are on the address it read.                      *)
NoLeftovers ==
  /\ srvPC \in {"idle", "snapshot", "listen", "retry", "join", "returned"}
       => proxyLn = NoIP /\ adminLn = NoIP
  /\ srvPC \in {"snapshot", "listen", "retry", "admin"} => acc # "accepting"
  /\ proxyLn \in {NoIP, lip} /\ adminLn \in {NoIP, proxyLn}

(* main.go:107-111.  With main past its own write and the monitor idle,    *)
(* the Clash file names the LAN address of the latest snapshot that had    *)
(* one, except that main's write may have put back the one it evaluated    *)
(* before: any later change of the adapters repairs the file.  (So the     *)
(* file is not always rewritten with the adapters, as main.go:107 says.)   *)
ClashLagsOnlyFromStartUp ==
  /\ ~clashFailed /\ monPC = "poll" /\ LANIP(snap) # NoIP
  /\ mainPC \notin {"wait", "evaluate", "write"}
  => clash # NoIP /\ clash \in {LANIP(snap), LANIP(mainSnap)}

-----------------------------------------------------------------------------
(* Liveness.                                                               *)

(* README.md:67.  When the adapters stop changing, the proxy ends up, and  *)
(* stays, listening on the LAN address the current enumeration selects,    *)
(* whatever happened before: unless another process keeps the port or the  *)
(* relay was told to quit.                                                 *)
ListenerFollowsLAN ==
  <>[]( \/ quit \/ port = "taken"
        \/ /\ srvPC = "serving"
           /\ proxyLn \in {ListenIP(s) : s \in Selected[os]} )
=============================================================================
