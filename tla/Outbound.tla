------------------------------ MODULE Outbound ------------------------------
(***************************************************************************)
(* Outbound sockets: outbound.dial, udpEgress and control (main.go), the   *)
(* resolver with its cache and its rotation of servers                     *)
(* (internal/resolver), and the binding of sockets to the exit             *)
(* (internal/bind).                                                        *)
(*                                                                         *)
(* Every dialling goroutine reads the monitor's snapshot without a lock;   *)
(* the kernel's adapters change under both.  An exit is a record [idx, ip, *)
(* dns].  One name stands for the cached ones: entries do not interact.    *)
(* An outcome that a timer decides (a query's 5 s, the dial's 20 s) may    *)
(* come at any time; only the age of addresses is counted.                 *)
(***************************************************************************)
EXTENDS Naturals, Sequences, Functions

CONSTANTS Handlers,  \* goroutines that dial for a TCP connection
          Sessions,  \* goroutines of UDP sessions
          Exits,     \* what the outbound adapter can be
          NoExit,    \* no outbound adapter
          Servers,   \* DNS servers
          Configured,\* configuration dns_servers
          Public,    \* the resolver's built-in servers
          Attempts,  \* queries net.Resolver makes for a name
          Cycle,     \* bound on the counter of draws, which wraps around there
          TTL,       \* posCacheTTL
          NoEntry    \* the name is not in the cache

(* Every list of servers a lookup may draw from.                           *)
ServerLists == {Public, Configured} \cup {e.dns : e \in Exits}

(* Cycle is a common multiple of the lengths, so that wrapping around      *)
(* there keeps the remainders of the counter.                              *)
ASSUME ServersAssumption ==
  /\ ServerLists \subseteq Seq(Servers) /\ Public # <<>>
  /\ {Attempts, Cycle} \subseteq Nat \ {0}
  /\ \A list \in ServerLists \ {<<>>} : Cycle % Len(list) = 0
ASSUME TTLAssumption == TTL \in Nat \ {0}
ASSUME NoneAssumption == NoExit \notin Exits

Dials == Handlers \cup Sessions

VARIABLES os,      \* the exit as the kernel has it
          snap,    \* the exit in the monitor's snapshot
          cache,   \* the name's entry: family, age and time left
          srvIdx,  \* draws of a server, modulo Cycle
          d        \* the goroutines

vars == <<os, snap, cache, srvIdx, d>>

Families == {"v4", "v6"}

(* What a goroutine is after and how far it has come.  calm: the snapshot  *)
(* was right when the attempt began and the exit has not changed since.    *)
(* steady: since the lookup began, neither the snapshot has changed nor    *)
(* has another lookup drawn a server.                                      *)
Idle == [pc |-> "idle", kind |-> "none", held |-> NoExit,
         left |-> 0, asked |-> {}, fam |-> "none", age |-> 0,
         loose |-> FALSE, calm |-> FALSE, steady |-> FALSE]

Ended(r, pc) == [Idle EXCEPT !.pc = pc, !.kind = r.kind, !.loose = r.loose]

Failed(r) == [Idle EXCEPT !.pc = "failed"]

Looking == {"draw", "control", "asked"}

Init == /\ os \in Exits \cup {NoExit} /\ snap = os
        /\ cache = NoEntry /\ srvIdx = 0
        /\ d = [p \in Dials |-> Idle]

-----------------------------------------------------------------------------
(* The environment.                                                        *)

(* The connection is lost, set up, or dialled again with another interface *)
(* index, another address, or both.                                        *)
Redial ==
  /\ os' \in (Exits \cup {NoExit}) \ {os}
  /\ d' = [p \in Dials |-> [d[p] EXCEPT !.calm = FALSE]]
  /\ UNCHANGED <<snap, cache, srvIdx>>

(* The monitor's next successful poll.                                     *)
Poll ==
  /\ snap # os
  /\ snap' = os
  /\ d' = [p \in Dials |-> [d[p] EXCEPT !.steady = FALSE]]
  /\ UNCHANGED <<os, cache, srvIdx>>

(* Time passes while everybody waits; steps that do not wait take none.    *)
Tick ==
  /\ \A p \in Dials : d[p].pc \in {"idle", "asked", "dialling", "open", "failed"}
  /\ cache # NoEntry /\ cache.left > 0
  /\ cache' = [cache EXCEPT !.age = @ + 1, !.left = @ - 1]
  /\ UNCHANGED <<os, snap, srvIdx, d>>

-----------------------------------------------------------------------------
(* The resolver.                                                           *)

ServersOf(s) == IF Configured # <<>> THEN Configured
                ELSE IF s # NoExit /\ s.dns # <<>> THEN s.dns ELSE Public

(* Faulty variant: the index is read and not advanced.                     *)
NextServerFixed(i) == i

NextServer(i) == (i + 1) % Cycle

(* main prefers IPv4.                                                      *)
Pick(addrs) == IF "v4" \in addrs THEN "v4" ELSE "v6"

(* A goroutine that has its address goes on to its socket; a UDP session   *)
(* only wanted the address.                                                *)
WithAddress(r, fam, age) ==
  IF r.kind = "connect"
  THEN [Idle EXCEPT !.pc = "bind", !.kind = r.kind, !.held = r.held,
                    !.fam = fam, !.age = age]
  ELSE Ended(r, "open")

Fresh == cache # NoEntry /\ cache.left > 0

(* Faulty variant: a hit renews the entry.                                 *)
CacheHitRenewing(p) ==
  /\ d[p].pc = "look" /\ Fresh
  /\ d' = [d EXCEPT ![p] = WithAddress(@, cache.fam, cache.age)]
  /\ cache' = [cache EXCEPT !.left = TTL]
  /\ UNCHANGED <<os, snap, srvIdx>>

CacheHit(p) ==
  /\ d[p].pc = "look" /\ Fresh
  /\ d' = [d EXCEPT ![p] = WithAddress(@, cache.fam, cache.age)]
  /\ UNCHANGED <<os, snap, cache, srvIdx>>

(* No entry, or an expired one, which is deleted.                          *)
CacheMiss(p) ==
  /\ d[p].pc = "look" /\ ~Fresh
  /\ cache' = NoEntry
  /\ d' = [d EXCEPT ![p].pc = "draw", ![p].left = Attempts, ![p].steady = TRUE]
  /\ UNCHANGED <<os, snap, srvIdx>>

(* nextServer: the list of the moment, the counter shared by all lookups.  *)
Draw(p) ==
  /\ d[p].pc = "draw"
  /\ LET servers == ServersOf(snap)
         srv     == servers[(srvIdx % Len(servers)) + 1]
     IN d' = [q \in Dials |->
               IF q # p THEN [d[q] EXCEPT !.steady = FALSE]
               ELSE [d[p] EXCEPT !.pc = "control", !.left = @ - 1,
                                 !.asked = @ \cup {srv}, !.calm = snap = os]]
  /\ srvIdx' = NextServer(srvIdx)
  /\ UNCHANGED <<os, snap, cache>>

(* The attempt failed: net.Resolver makes the next one, if any is left.    *)
AttemptFails(r) == IF r.left > 0 THEN [r EXCEPT !.pc = "draw", !.loose = FALSE]
                   ELSE [r EXCEPT !.pc = "unanswered", !.loose = FALSE]

(* bind.Control: IP_UNICAST_IF takes an index the kernel knows; a failure  *)
(* is only logged, and leaves the socket to the routing table.             *)
Bound(s) == os # NoExit /\ s.idx = os.idx

(* Faulty variant: the socket of a query is bound to the exit the dial     *)
(* began with.                                                             *)
ControlHeld(p) ==
  /\ d[p].pc = "control"
  /\ LET s == IF d[p].held = NoExit THEN snap ELSE d[p].held
     IN d' = [d EXCEPT ![p] = IF s = NoExit THEN AttemptFails(@)
                              ELSE [@ EXCEPT !.pc = "asked", !.loose = ~Bound(s)]]
  /\ UNCHANGED <<os, snap, cache, srvIdx>>

(* Faulty variant: without an exit, the attempt is begun anew.             *)
ControlWaits(p) ==
  /\ d[p].pc = "control"
  /\ d' = [d EXCEPT ![p] = IF snap = NoExit THEN [@ EXCEPT !.pc = "draw", !.left = @ + 1]
                           ELSE [@ EXCEPT !.pc = "asked", !.loose = ~Bound(snap)]]
  /\ UNCHANGED <<os, snap, cache, srvIdx>>

(* The socket of a query has no local address; outbound.control binds it   *)
(* to the exit in the snapshot of the moment, and refuses without one.     *)
Control(p) ==
  /\ d[p].pc = "control"
  /\ d' = [d EXCEPT ![p] = IF snap = NoExit THEN AttemptFails(@)
                           ELSE [@ EXCEPT !.pc = "asked", !.loose = ~Bound(snap)]]
  /\ UNCHANGED <<os, snap, cache, srvIdx>>

(* No route, no answer within 5 s, or an answer that is an error.          *)
QueryFails(p) ==
  /\ d[p].pc = "asked"
  /\ d' = [d EXCEPT ![p] = AttemptFails(@)]
  /\ UNCHANGED <<os, snap, cache, srvIdx>>

Answered(p) ==
  /\ d[p].pc = "asked"
  /\ \E addrs \in SUBSET Families \ {{}} :
       d' = [d EXCEPT ![p] = [Idle EXCEPT !.pc = "store", !.kind = d[p].kind,
                                          !.held = d[p].held, !.fam = Pick(addrs)]]
  /\ UNCHANGED <<os, snap, cache, srvIdx>>

(* Whatever another lookup has stored in the meantime is overwritten.      *)
StoreAnswer(p) ==
  /\ d[p].pc = "store"
  /\ cache' = [fam |-> d[p].fam, age |-> 0, left |-> TTL]
  /\ d' = [d EXCEPT ![p] = WithAddress(@, d[p].fam, 0)]
  /\ UNCHANGED <<os, snap, srvIdx>>

(* All attempts failed, the server said there is no such name, or the      *)
(* dial's 20 s are over; a UDP session's lookup has no such limit.         *)
LookupFails(p) ==
  /\ \/ d[p].pc \in {"unanswered", "asked"}
     \/ d[p].pc \in Looking /\ d[p].kind = "connect"
  /\ d' = [d EXCEPT ![p] = Failed(@)]
  /\ UNCHANGED <<os, snap, cache, srvIdx>>

Resolver(p) == \/ CacheHit(p) \/ CacheMiss(p) \/ Draw(p) \/ Control(p)
               \/ QueryFails(p) \/ Answered(p) \/ StoreAnswer(p) \/ LookupFails(p)

-----------------------------------------------------------------------------
(* outbound.dial and udpEgress.                                            *)

Begins(p, r) == /\ d[p].pc = "idle"
                /\ d' = [d EXCEPT ![p] = r]
                /\ UNCHANGED <<os, snap, cache, srvIdx>>

(* A TCP dial holds on to the snapshot it has read.                        *)
BeginDial(p) ==
  \E host \in {"name"} \cup Families :
    LET r == [Idle EXCEPT !.kind = "connect", !.held = snap]
    IN Begins(p, IF snap = NoExit THEN Failed(r)
                 ELSE IF host = "name" THEN [r EXCEPT !.pc = "look"]
                 ELSE WithAddress(r, host, 0))

BeginEgress(p) ==
  LET r == [Idle EXCEPT !.pc = "bind", !.kind = "egress", !.held = snap,
                        !.calm = snap = os]
  IN Begins(p, IF snap = NoExit THEN Failed(r) ELSE r)

(* clientToEgress resolves a name, whatever the exit is.                   *)
BeginResolve(p) ==
  Begins(p, [Idle EXCEPT !.pc = "look", !.kind = "resolve"])

(* The snapshot's address is (still) one of the exit's.                    *)
Owned(s) == os # NoExit /\ s.ip = os.ip

(* Faulty variant: without the local address.                              *)
BindDialAnywhere(p) ==
  /\ d[p].pc = "bind" /\ d[p].kind = "connect"
  /\ d' = [d EXCEPT ![p] = Ended([@ EXCEPT !.loose = ~Bound(d[p].held)], "dialling")]
  /\ UNCHANGED <<os, snap, cache, srvIdx>>

(* The local address, which is IPv4, has to be the machine's and of the    *)
(* target's family; Windows sends from an address on its own adapter only. *)
BindDial(p) ==
  /\ d[p].pc = "bind" /\ d[p].kind = "connect"
  /\ LET s     == d[p].held
         loose == ~Bound(s) /\ ~Owned(s)
     IN d' = [d EXCEPT ![p] =
               IF Owned(s) /\ d[p].fam = "v4"
               THEN Ended([@ EXCEPT !.loose = loose], "dialling") ELSE Failed(@)]
  /\ UNCHANGED <<os, snap, cache, srvIdx>>

DialEnds(p) ==
  /\ d[p].pc = "dialling"
  /\ \/ d' = [d EXCEPT ![p].pc = "open"]
     \/ d' = [d EXCEPT ![p].pc = "failed"]
  /\ UNCHANGED <<os, snap, cache, srvIdx>>

(* The egress socket has no local address: ":0".                           *)
BindEgress(p) ==
  /\ d[p].pc = "bind" /\ d[p].kind = "egress"
  /\ d' = [d EXCEPT ![p] = [@ EXCEPT !.pc = "open", !.held = NoExit,
                                      !.loose = ~Bound(d[p].held)]]
  /\ UNCHANGED <<os, snap, cache, srvIdx>>

(* The goroutine is through with the outcome.                              *)
Over(p) ==
  /\ d[p].pc \in {"open", "failed"}
  /\ d' = [d EXCEPT ![p] = Idle]
  /\ UNCHANGED <<os, snap, cache, srvIdx>>

Proceed(p) == Resolver(p) \/ BindDial(p) \/ DialEnds(p) \/ BindEgress(p) \/ Over(p)

Next == \/ Redial \/ Poll \/ Tick
        \/ \E p \in Handlers : BeginDial(p)
        \/ \E p \in Sessions : BeginEgress(p) \/ BeginResolve(p)
        \/ \E p \in Dials : Proceed(p)

Spec == Init /\ [][Next]_vars

(* The goroutines run; no dial has to begin, no exit has to stay.          *)
FairSpec == Spec /\ \A p \in Dials : WF_vars(Proceed(p))

-----------------------------------------------------------------------------
Entries == [fam : Families, age : 0..TTL, left : 0..TTL]

Records ==
  [pc : {"idle", "look", "store", "bind", "dialling", "open", "failed", "unanswered"}
          \cup Looking,
   kind : {"none", "connect", "egress", "resolve"},
   held : Exits \cup {NoExit},
   left : 0..Attempts, asked : SUBSET Servers,
   fam : {"none"} \cup Families, age : 0..TTL,
   loose : BOOLEAN, calm : BOOLEAN, steady : BOOLEAN]

(* Only dials keep a snapshot, and an entry's age and time left add up.    *)
TypeOK ==
  /\ {os, snap} \subseteq Exits \cup {NoExit}
  /\ cache \in Entries \cup {NoEntry} /\ srvIdx \in 0..(Cycle - 1)
  /\ d \in [Dials -> Records]
  /\ cache # NoEntry => cache.age + cache.left = TTL
  /\ \A p \in Dials : d[p].pc = "bind" => d[p].held # NoExit

-----------------------------------------------------------------------------
(* main.go:149-189, bind_windows.go:32-46.  Setting IP_UNICAST_IF may fail *)
(* without an error, and the exit may change during a lookup of seconds.   *)
(* A TCP connection is still never made from anywhere but the exit.  The   *)
(* sockets of DNS queries and UDP sessions are left to the routing table   *)
(* only if the exit changed unseen, before the attempt began or since: not *)
(* when the snapshot was right when it began and the exit has stayed.      *)
StaysOnExit ==
  \A p \in Dials : d[p].loose =>
    \/ d[p].kind = "egress" /\ ~d[p].calm
    \/ d[p].pc = "asked" /\ ~d[p].calm

(* resolver.go:93-118.  With several lookups under way at once, each       *)
(* overwriting the entry the other one has read or stored, no address is   *)
(* used that was learnt more than 60 s ago, over whatever exit.            *)
AddressesAreRecent ==
  \A p \in Dials : d[p].pc = "bind" => d[p].age < TTL

(* resolver.go:67-74.  Lookups draw their servers from one counter.  One   *)
(* that gives up after all of its attempts has asked every server, if they *)
(* are as many as the servers, unless another lookup drew in between or    *)
(* the list has changed.                                                   *)
EveryServerIsAsked ==
  \A p \in Dials :
    d[p].pc = "unanswered" /\ d[p].steady /\ Len(ServersOf(snap)) <= Attempts
      => d[p].asked = Range(ServersOf(snap))

(* main.go:158-179.  Whatever becomes of exit, servers and targets, a dial *)
(* comes to an end.                                                        *)
DialsEnd == \A p \in Dials : d[p].pc # "idle" ~> d[p].pc \in {"open", "failed"}
=============================================================================
