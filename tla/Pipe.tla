-------------------------------- MODULE Pipe --------------------------------
(***************************************************************************)
(* relay.Pipe: two copy goroutines between the connection of the client    *)
(* and the connection of the remote, which share closeBoth (a sync.Once)   *)
(* and the channel `done`, and the peers at the far ends of the two        *)
(* connections, who send, finish and reset when they like, and may stop    *)
(* reading, in which case a write blocks until the connection is closed.   *)
(***************************************************************************)
EXTENDS Naturals, FiniteSets

CONSTANT MaxBytes   \* bound on what each peer sends

ASSUME BytesAssumption == MaxBytes \in Nat

Conns      == {"client", "remote"}
Directions == {"up", "down"}

Src(d) == IF d = "up" THEN "client" ELSE "remote"
Dst(d) == IF d = "up" THEN "remote" ELSE "client"

VARIABLES
  sent,    \* bytes the peer at the source of each direction has sent
  fin,     \* connections whose peer has finished sending
  reset,   \* connections whose peer has reset them
  sock,    \* our end: "open", "half" (CloseWrite) or "closed"
  pc,      \* control of copyFn in each direction
  held,    \* bytes read and not yet written, in the buffer of each direction
  counted, \* stats.BytesUp and stats.BytesDown: bytes read
  wrote,   \* bytes written to the destination
  clean,   \* history: directions whose copy ended with the source's EOF
  dones,   \* signals sent on `done`
  returned \* Pipe has returned

peerVars == <<sent, fin, reset>>
copyVars == <<held, counted, wrote>>
vars == <<peerVars, sock, pc, copyVars, clean, dones, returned>>

Init ==
  /\ sent = [d \in Directions |-> 0] /\ fin = {} /\ reset = {}
  /\ sock = [c \in Conns |-> "open"]
  /\ pc = [d \in Directions |-> "read"]
  /\ held = [d \in Directions |-> 0]
  /\ counted = [d \in Directions |-> 0] /\ wrote = [d \in Directions |-> 0]
  /\ clean = {} /\ dones = 0 /\ returned = FALSE

-----------------------------------------------------------------------------
(* The peers.                                                              *)
notPeers == <<sock, pc, copyVars, clean, dones, returned>>

PeerSends(d) ==
  /\ Src(d) \notin fin \cup reset /\ sent[d] < MaxBytes
  /\ sent' = [sent EXCEPT ![d] = @ + 1]
  /\ UNCHANGED <<notPeers, fin, reset>>

PeerFinishes(c) ==
  /\ c \notin fin \cup reset
  /\ fin' = fin \cup {c}
  /\ UNCHANGED <<notPeers, sent, reset>>

PeerResets(c) ==
  /\ c \notin reset
  /\ reset' = reset \cup {c}
  /\ UNCHANGED <<notPeers, sent, fin>>

Peers == \/ \E d \in Directions : PeerSends(d)
         \/ \E c \in Conns : PeerFinishes(c) \/ PeerResets(c)

-----------------------------------------------------------------------------
(* copyFn.                                                                 *)
Broken(c) == c \in reset \/ sock[c] = "closed"

Goto(d, label) == pc' = [pc EXCEPT ![d] = label]

(* countedConn.Read returns some of what has arrived, and counts it.       *)
CopyReads(d) ==
  /\ pc[d] = "read" /\ ~Broken(Src(d))
  /\ \E n \in 1..(sent[d] - counted[d]) :
        /\ held' = [held EXCEPT ![d] = n]
        /\ counted' = [counted EXCEPT ![d] = @ + n]
  /\ Goto(d, "write")
  /\ UNCHANGED <<peerVars, sock, wrote, clean, dones, returned>>

(* Faulty variant: the end of the stream overtakes what is still queued.   *)
CopySeesFin(d) ==
  /\ pc[d] = "read" /\ ~Broken(Src(d)) /\ Src(d) \in fin
  /\ clean' = clean \cup {d}
  /\ Goto(d, "half")
  /\ UNCHANGED <<peerVars, sock, copyVars, dones, returned>>

(* EOF comes after the last byte.                                          *)
CopySeesEOF(d) ==
  /\ pc[d] = "read" /\ ~Broken(Src(d))
  /\ Src(d) \in fin /\ counted[d] = sent[d]
  /\ clean' = clean \cup {d}
  /\ Goto(d, "half")
  /\ UNCHANGED <<peerVars, sock, copyVars, dones, returned>>

CopyReadFails(d) ==
  /\ pc[d] = "read" /\ Broken(Src(d))
  /\ Goto(d, "half")
  /\ UNCHANGED <<peerVars, sock, copyVars, clean, dones, returned>>

(* Faulty variant: the buffer is written again after a short write.        *)
CopyWritesTwice(d) ==
  /\ pc[d] = "write" /\ ~Broken(Dst(d))
  /\ wrote' = [wrote EXCEPT ![d] = @ + held[d]]
  /\ \/ held' = [held EXCEPT ![d] = 0] /\ Goto(d, "read")
     \/ UNCHANGED <<held, pc>>
  /\ UNCHANGED <<peerVars, sock, counted, clean, dones, returned>>

CopyWrites(d) ==
  /\ pc[d] = "write" /\ ~Broken(Dst(d))
  /\ wrote' = [wrote EXCEPT ![d] = @ + held[d]]
  /\ held' = [held EXCEPT ![d] = 0]
  /\ Goto(d, "read")
  /\ UNCHANGED <<peerVars, sock, counted, clean, dones, returned>>

(* What the buffer held is lost.                                           *)
CopyWriteFails(d) ==
  /\ pc[d] = "write" /\ Broken(Dst(d))
  /\ Goto(d, "half")
  /\ UNCHANGED <<peerVars, sock, copyVars, clean, dones, returned>>

(* CloseWrite on the destination, after EOF and after an error alike.      *)
HalfClose(d) ==
  /\ pc[d] = "half"
  /\ sock' = [sock EXCEPT ![Dst(d)] = IF @ = "open" THEN "half" ELSE @]
  /\ Goto(d, "signal")
  /\ UNCHANGED <<peerVars, copyVars, clean, dones, returned>>

(* The deferred function: signal, ...                                      *)
Signal(d) ==
  /\ pc[d] = "signal"
  /\ dones' = dones + 1
  /\ Goto(d, "close")
  /\ UNCHANGED <<peerVars, sock, copyVars, clean, returned>>

(* Faulty variant: each direction closes its own source only.              *)
CloseSource(d) ==
  /\ pc[d] = "close"
  /\ sock' = [sock EXCEPT ![Src(d)] = "closed"]
  /\ Goto(d, "done")
  /\ UNCHANGED <<peerVars, copyVars, clean, dones, returned>>

(* ... then closeBoth.                                                     *)
CloseBoth(d) ==
  /\ pc[d] = "close"
  /\ sock' = [c \in Conns |-> "closed"]
  /\ Goto(d, "done")
  /\ UNCHANGED <<peerVars, copyVars, clean, dones, returned>>

(* Pipe has received both signals.                                         *)
Return ==
  /\ dones = 2 /\ ~returned
  /\ returned' = TRUE
  /\ UNCHANGED <<peerVars, sock, pc, copyVars, clean, dones>>

(* A step the runtime owes to a copy goroutine; a write owes nothing       *)
(* unless it fails, since the far end may not be reading.                  *)
CopyStep(d) == \/ CopyReads(d) \/ CopySeesEOF(d) \/ CopyReadFails(d)
               \/ CopyWriteFails(d) \/ HalfClose(d) \/ Signal(d) \/ CloseBoth(d)

Finished == returned /\ (\A d \in Directions : pc[d] = "done") /\ UNCHANGED vars

Next == \/ Peers \/ Return \/ Finished
        \/ \E d \in Directions : CopyStep(d) \/ CopyWrites(d)

Spec == Init /\ [][Next]_vars

(* The two goroutines and Pipe itself run whenever they can; the peers owe *)
(* nothing.                                                                *)
Fairness == WF_vars(Return) /\ \A d \in Directions : WF_vars(CopyStep(d))

FairSpec == Spec /\ Fairness

-----------------------------------------------------------------------------
TypeOK ==
  /\ sent \in [Directions -> 0..MaxBytes]
  /\ fin \subseteq Conns /\ reset \subseteq Conns
  /\ sock \in [Conns -> {"open", "half", "closed"}]
  /\ pc \in [Directions -> {"read", "write", "half", "signal", "close", "done"}]
  /\ {held, counted, wrote} \subseteq [Directions -> 0..MaxBytes]
  /\ clean \subseteq Directions /\ dones \in 0..2 /\ returned \in BOOLEAN

(* relay.go:31-41, 60-64.  The traffic statistics count what was read:     *)
(* they are ahead of what was delivered by what one buffer holds, a byte   *)
(* counted and not delivered was lost to a broken destination, and when a  *)
(* direction ends with the source's EOF all its bytes are out before       *)
(* CloseWrite tells the far end so: no clean end truncates the stream.     *)
BytesAccounted ==
  /\ \A d \in Directions : /\ counted[d] = wrote[d] + held[d]
                          /\ held[d] # 0 => pc[d] = "write" \/ Broken(Dst(d))
  /\ \A d \in clean : wrote[d] = sent[d]

(* The concrete state seen as a tunnel: over once our ends are closed.     *)
T == INSTANCE Tunnel WITH sent <- sent, got <- wrote,
                          over <- (\A c \in Conns : sock[c] = "closed")

TunnelSpec == T!Spec

(* Both goroutines are gone and nothing is left open.                      *)
Torn == /\ returned /\ \A d \in Directions : pc[d] = "done"
        /\ \A c \in Conns : sock[c] = "closed"

(* A direction that has stopped stops the other one, even if that is       *)
(* waiting for a silent peer or in a write that its peer does not read.    *)
StopStopsBoth ==
  (\E d \in Directions : pc[d] \notin {"read", "write"}) ~> Torn

(* Provided the peers go on reading, the end or the reset of either        *)
(* connection reaches its direction, and so tears the tunnel down.  (With  *)
(* a peer that does not read it may not: no deadline is left on the        *)
(* connections, and the direction is stuck in its write.)                  *)
PeersRead == \A d \in Directions : WF_vars(CopyWrites(d))

EndTearsDown == PeersRead => (fin \cup reset # {} ~> Torn)

(* relay.go:43, 46-71.  Whatever ends one direction ends the tunnel: both  *)
(* goroutines, both connections and Pipe itself, so that its callers never *)
(* wait for a direction that nobody will stop.                             *)
EndsCompletely == StopStopsBoth /\ EndTearsDown

(* relay.go:61 and README.md:134 promise half-close: the end of one        *)
(* direction is passed on to the peer it leads to.  Then a peer sees the   *)
(* end of the stream only if the other one has ended it, or the tunnel is  *)
(* broken.  The deferred closeBoth ends the opposite direction too.        *)
EOFIsPassedOn ==
  reset = {} => \A d \in Directions : sock[Dst(d)] # "open" => Src(d) \in fin
=============================================================================
