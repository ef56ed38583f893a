----------------------------- MODULE PipeProofs -----------------------------
(***************************************************************************)
(* Proofs about Pipe, for any number of bytes: what it counts, and that it *)
(* implements Tunnel.                                                      *)
(***************************************************************************)
EXTENDS Pipe, TLAPS

(* A direction whose deferred function has sent its signal.                *)
Signalled(d) == IF pc[d] \in {"close", "done"} THEN 1 ELSE 0

(* Where the bytes of a direction are at each point of its copy loop.      *)
BufferInv ==
  \A d \in Directions :
    /\ counted[d] = wrote[d] + held[d] /\ counted[d] <= sent[d]
    /\ pc[d] = "read" => held[d] = 0
    /\ pc[d] = "write" => held[d] > 0
    /\ held[d] # 0 => pc[d] = "write" \/ Broken(Dst(d))

(* A clean direction has no more bytes to come, and none on the way.       *)
CleanInv ==
  \A d \in clean : /\ wrote[d] = sent[d] /\ Src(d) \in fin
                   /\ pc[d] \notin {"read", "write"}

PipeInv == /\ TypeOK /\ BufferInv /\ CleanInv
           /\ dones = Signalled("up") + Signalled("down")

(* A peer's step moves none of our state, and never takes back what it     *)
(* has sent, finished or reset.                                            *)
LEMMA PeersStep ==
  ASSUME PipeInv, Peers
  PROVE  PipeInv'
<1> USE DEF PipeInv, TypeOK, BufferInv, CleanInv, Signalled, Broken, peerVars,
            notPeers, copyVars, Conns, Directions, Src, Dst
<1>1. ASSUME NEW d \in Directions, PeerSends(d) PROVE PipeInv'
  BY <1>1, BytesAssumption DEF PeerSends
<1>2. ASSUME NEW c \in Conns, PeerFinishes(c) PROVE PipeInv'
  BY <1>2 DEF PeerFinishes
<1>3. ASSUME NEW c \in Conns, PeerResets(c) PROVE PipeInv'
  BY <1>3 DEF PeerResets
<1> QED
  BY <1>1, <1>2, <1>3 DEF Peers

(* A copy goroutine moves bytes from counted to held to wrote, and closes  *)
(* connections but never reopens one (relay.go:31-71).                     *)
LEMMA CopyInv ==
  ASSUME PipeInv, NEW d \in Directions, CopyStep(d) \/ CopyWrites(d)
  PROVE  PipeInv'
<1> USE DEF PipeInv, TypeOK, BufferInv, CleanInv, Signalled, Broken, peerVars,
            copyVars, Conns, Directions, Src, Dst, Goto
<1>1. CASE CopyReads(d)
  <2>1. PICK n \in 1..(sent[d] - counted[d]) :
          held' = [held EXCEPT ![d] = n] /\ counted' = [counted EXCEPT ![d] = @ + n]
    BY <1>1 DEF CopyReads
  <2>2. UNCHANGED <<peerVars, sock, wrote, clean, dones, returned>>
        /\ pc[d] = "read" /\ pc' = [pc EXCEPT ![d] = "write"]
    BY <1>1 DEF CopyReads
  <2>3. {sent, held, counted, wrote} \subseteq [Directions -> 0..MaxBytes]
    OBVIOUS
  <2>4. {held', counted'} \subseteq [Directions -> 0..MaxBytes]
    BY <2>1, <2>2, <2>3, BytesAssumption
  <2>5. TypeOK'
    BY <2>2, <2>4
  <2>6. BufferInv'
    BY <2>1, <2>2, <2>3
  <2> QED
    BY <2>2, <2>5, <2>6
<1>2. CASE CopySeesEOF(d)
  BY <1>2 DEF CopySeesEOF
<1>3. CASE CopyReadFails(d)
  BY <1>3 DEF CopyReadFails
<1>4. CASE CopyWrites(d)
  <2>1. /\ wrote' = [wrote EXCEPT ![d] = @ + held[d]] /\ held' = [held EXCEPT ![d] = 0]
        /\ pc[d] = "write" /\ pc' = [pc EXCEPT ![d] = "read"]
        /\ UNCHANGED <<peerVars, sock, counted, clean, dones, returned>>
    BY <1>4 DEF CopyWrites
  <2>2. {sent, held, counted, wrote} \subseteq [Directions -> 0..MaxBytes]
    OBVIOUS
  <2>3. {held', wrote'} \subseteq [Directions -> 0..MaxBytes]
    BY <2>1, <2>2, BytesAssumption
  <2>4. TypeOK'
    BY <2>1, <2>3
  <2>5. BufferInv'
    BY <2>1, <2>2
  <2> QED
    BY <2>1, <2>4, <2>5
<1>5. CASE CopyWriteFails(d)
  BY <1>5 DEF CopyWriteFails
<1>6. CASE HalfClose(d)
  BY <1>6 DEF HalfClose
<1>7. CASE Signal(d)
  BY <1>7 DEF Signal
<1>8. CASE CloseBoth(d)
  BY <1>8 DEF CloseBoth
<1> QED
  BY <1>1, <1>2, <1>3, <1>4, <1>5, <1>6, <1>7, <1>8 DEF CopyStep

(* The invariant holds in every state of the tunnel.                       *)
THEOREM PipeInvariant == Spec => []PipeInv
<1>1. Init => PipeInv
  <2> SUFFICES ASSUME Init PROVE PipeInv
    OBVIOUS
  <2> USE BytesAssumption DEF Init
  <2>1. TypeOK
    <3>1. [d \in Directions |-> 0] \in [Directions -> 0..MaxBytes]
      OBVIOUS
    <3>2. {held, counted, wrote} \subseteq [Directions -> 0..MaxBytes]
      BY <3>1
    <3>3. /\ sent \in [Directions -> 0..MaxBytes]
          /\ sock \in [Conns -> {"open", "half", "closed"}]
          /\ pc \in [Directions -> {"read", "write", "half", "signal", "close", "done"}]
      BY <3>1
    <3>4. /\ fin \subseteq Conns /\ reset \subseteq Conns /\ clean \subseteq Directions
          /\ dones \in 0..2
      OBVIOUS
    <3>5. returned \in BOOLEAN
      OBVIOUS
    <3> QED
      BY <3>2, <3>3, <3>4, <3>5 DEF TypeOK
  <2>2. BufferInv /\ CleanInv
    BY DEF BufferInv, CleanInv
  <2>3. dones = Signalled("up") + Signalled("down")
    BY DEF Signalled, Directions
  <2> QED
    BY <2>1, <2>2, <2>3 DEF PipeInv
<1>2. PipeInv /\ [Next]_vars => PipeInv'
  <2> SUFFICES ASSUME PipeInv, [Next]_vars PROVE PipeInv'
    OBVIOUS
  <2>1. CASE Return
    BY <2>1 DEF Return, PipeInv, TypeOK, BufferInv, CleanInv, Signalled, Broken,
       peerVars, copyVars
  <2>2. CASE Finished \/ UNCHANGED vars
    BY <2>2 DEF Finished, vars, PipeInv, TypeOK, BufferInv, CleanInv, Signalled,
       Broken, peerVars, copyVars
  <2> QED
    BY <2>1, <2>2, PeersStep, CopyInv DEF Next
<1> QED
  BY <1>1, <1>2, PTL DEF Spec

(* Types.                                                                  *)
THEOREM PipeTypes == Spec => []TypeOK
<1>1. PipeInv => TypeOK
  BY DEF PipeInv
<1> QED
  BY <1>1, PipeInvariant, PTL

(* Every byte counted is delivered, in the buffer, or lost to a broken     *)
(* destination, and a clean end truncates nothing (relay.go:31-41, 60-64). *)
THEOREM BytesAreAccounted == Spec => []BytesAccounted
<1>1. PipeInv => BytesAccounted
  BY DEF PipeInv, BufferInv, CleanInv, BytesAccounted
<1> QED
  BY <1>1, PipeInvariant, PTL

-----------------------------------------------------------------------------
(* The tunnel is over: both of our ends are closed.                        *)
Ended == \A c \in Conns : sock[c] = "closed"

(* Steps that the far ends of the tunnel do not see: they move no byte     *)
(* and do not close the second connection.                                 *)
LEMMA Unseen ==
  ASSUME UNCHANGED <<sent, wrote>>, Ended' = Ended
  PROVE  [T!Next]_<<sent, wrote, \A c \in Conns : sock[c] = "closed">>
  BY DEF Ended

(* Whatever a copy goroutine does delivers bytes that were sent, ends the  *)
(* tunnel, or is not seen.                                                 *)
LEMMA CopyImplements ==
  ASSUME PipeInv, NEW d \in Directions, CopyStep(d) \/ CopyWrites(d)
  PROVE  [T!Next]_<<sent, wrote, \A c \in Conns : sock[c] = "closed">>
<1> USE DEF PipeInv, TypeOK, peerVars, copyVars
<1>1. CASE CopyReads(d) \/ CopySeesEOF(d) \/ CopyReadFails(d)
        \/ CopyWriteFails(d) \/ Signal(d)
  <2>1. UNCHANGED <<sent, wrote, sock>>
    BY <1>1 DEF CopyReads, CopySeesEOF, CopyReadFails, CopyWriteFails, Signal
  <2> QED
    BY <2>1, Unseen DEF Ended
<1>2. CASE HalfClose(d)
  <2>1. UNCHANGED <<sent, wrote>>
    BY <1>2 DEF HalfClose
  <2>2. Ended' = Ended
    BY <1>2 DEF HalfClose, Ended, Dst, Conns, Directions
  <2> QED
    BY <2>1, <2>2, Unseen
<1>3. CASE CloseBoth(d)
  <2>1. UNCHANGED <<sent, wrote>> /\ Ended'
    BY <1>3 DEF CloseBoth, Ended
  <2>2. CASE Ended
    BY <2>1, <2>2, Unseen
  <2>3. CASE ~Ended
    BY <2>1, <2>3 DEF Ended, T!Next, T!End
  <2> QED
    BY <2>2, <2>3
<1>4. CASE CopyWrites(d)
  <2>1. UNCHANGED <<sent, sock>> /\ ~Ended
    BY <1>4 DEF CopyWrites, Broken, Ended, Dst, Conns
  <2>2. held[d] \in 1..(sent[d] - wrote[d])
    BY <1>4 DEF CopyWrites, BufferInv
  <2>3. wrote' = [wrote EXCEPT ![d] = @ + held[d]]
    BY <1>4 DEF CopyWrites
  <2>4. T!Deliver(d)
    BY <2>1, <2>2, <2>3 DEF T!Deliver, Ended
  <2> QED
    BY <2>4 DEF T!Next
<1> QED
  BY <1>1, <1>2, <1>3, <1>4 DEF CopyStep

(* Pipe is a tunnel: what comes out of either end went in at the other,    *)
(* and nothing comes out once both connections are closed (relay.go:31-71).*)
THEOREM PipeImplementsTunnel == Spec => TunnelSpec
<1>1. Init => T!Init
  BY DEF Init, T!Init, Conns
<1>2. PipeInv /\ [Next]_vars
        => [T!Next]_<<sent, wrote, \A c \in Conns : sock[c] = "closed">>
  <2> SUFFICES ASSUME PipeInv, [Next]_vars
               PROVE  [T!Next]_<<sent, wrote, \A c \in Conns : sock[c] = "closed">>
    OBVIOUS
  <2>1. ASSUME NEW d \in Directions, PeerSends(d) PROVE T!Next
    BY <2>1 DEF PeerSends, notPeers, copyVars, T!Next, T!Send
  <2>2. ASSUME \/ \E c \in Conns : PeerFinishes(c) \/ PeerResets(c)
               \/ Return \/ Finished \/ UNCHANGED vars
        PROVE  UNCHANGED <<sent, wrote, sock>>
    BY <2>2 DEF PeerFinishes, PeerResets, Return, Finished, vars, notPeers,
       peerVars, copyVars
  <2> QED
    BY <2>1, <2>2, CopyImplements, Unseen DEF Next, Peers, Ended
<1> QED
  BY <1>1, <1>2, PipeInvariant, PTL DEF Spec, TunnelSpec, T!Spec
=============================================================================
