------------------------------ MODULE StartUp -------------------------------
(***************************************************************************)
(* What outlives a run of the relay: the configuration file                *)
(* (internal/config) and the Windows Firewall's rules (internal/firewall), *)
(* over any number of launches, with and without elevation, killed at any  *)
(* point, while the user edits the file, deletes rules or runs the         *)
(* commands the relay printed.                                             *)
(*                                                                         *)
(* A rule is known by its name only; the table keeps, for every name, the  *)
(* ports that rules of that name open.  Of the configuration only what the *)
(* rules and the monitor's ticker depend on is kept; a key that is missing *)
(* keeps its default.                                                      *)
(***************************************************************************)
EXTENDS Naturals, Sequences

CONSTANTS Ports,        \* values of listen_port a user may write
          AdminPorts,   \* values of admin_port a user may write
          DefaultPort,  \* 7890
          DefaultAdmin, \* 9090
          Absent,       \* there is no configuration file
          Broken        \* the file is not YAML

ASSUME PortsAssumption ==
  /\ Ports \subseteq Nat \ {0} /\ DefaultPort \in Ports
  /\ AdminPorts \subseteq Nat \ {0} /\ DefaultAdmin \in AdminPorts

VARIABLES
  file,      \* relay-config.yaml: Absent, Broken or settings
  rules,     \* the firewall: for each name the ports its rules open
  pc,        \* "off", "load", "firewall", "running"
  elevated,  \* the process runs as administrator
  cfg,       \* the configuration in force
  at,        \* position of the rule Ensure looks at
  manual,    \* what it reports: names to be added by hand
  failed,    \* what it reports: position of the rule that was not added, or 0
  blind,     \* history: names netsh failed to show in this run
  deleted,   \* history: names whose rules the user deleted during this run
  granted    \* history: rules whose port an elevated run left open

run  == <<elevated, cfg, at, manual, failed, blind, deleted>>
vars == <<file, rules, pc, run, granted>>

Settings == [port : Ports \cup {0}, admin : AdminPorts \cup {0},
             udp : BOOLEAN, poll : {0, 5}]

Default == [port |-> DefaultPort, admin |-> DefaultAdmin, udp |-> TRUE, poll |-> 5]

Names == {"Proxy TCP", "Proxy UDP", "Admin TCP"}

Rule(name, proto, port) == [name |-> name, proto |-> proto, port |-> port]

(* ensureFirewall: the rules a configuration asks for, in this order.      *)
Wanted(c) == <<Rule("Proxy TCP", "TCP", c.port)>>
               \o (IF c.udp THEN <<Rule("Proxy UDP", "UDP", c.port)>> ELSE <<>>)
               \o (IF c.admin > 0 THEN <<Rule("Admin TCP", "TCP", c.admin)>> ELSE <<>>)

Init == /\ file = Absent /\ rules = [n \in Names |-> {}] /\ granted = {}
        /\ pc = "off" /\ elevated = FALSE /\ cfg = Default
        /\ at = 1 /\ manual = {} /\ failed = 0 /\ blind = {} /\ deleted = {}

-----------------------------------------------------------------------------
(* The user.                                                               *)

EditConfig ==
  /\ file' \in Settings \cup {Broken, Absent}
  /\ UNCHANGED <<rules, pc, run, granted>>

(* A second process, `lan-relay -gen-config`: an existing file is kept;    *)
(* the write may fail half-way.                                            *)
GenConfig ==
  /\ file = Absent
  /\ file' \in {Default, Broken}
  /\ UNCHANGED <<rules, pc, run, granted>>

DeleteRule(n) ==
  /\ rules[n] # {}
  /\ rules' = [rules EXCEPT ![n] = {}]
  /\ granted' = {r \in granted : r.name # n}
  /\ deleted' = IF pc = "off" THEN deleted ELSE deleted \cup {n}
  /\ UNCHANGED <<file, pc, elevated, cfg, at, manual, failed, blind>>

(* The printed command adds the rule as the configuration in force has it. *)
RunManualCommand ==
  /\ pc = "running"
  /\ \E i \in DOMAIN Wanted(cfg) :
       LET r == Wanted(cfg)[i]
       IN /\ r.name \in manual
          /\ rules' = [rules EXCEPT ![r.name] = @ \cup {r.port}]
  /\ UNCHANGED <<file, pc, run, granted>>

User == EditConfig \/ GenConfig \/ RunManualCommand \/ \E n \in Names : DeleteRule(n)

-----------------------------------------------------------------------------
(* The relay.                                                              *)

Launch ==
  /\ pc = "off"
  /\ elevated' \in BOOLEAN
  /\ pc' = "load"
  /\ UNCHANGED <<file, rules, cfg, at, manual, failed, blind, deleted, granted>>

(* Faulty variant: the zeros of the file are kept.                         *)
NormalizeNothing(s) == s

(* Zero is no port to listen on and no interval; for admin_port it means   *)
(* that there is no status page.                                           *)
Normalize(s) == [s EXCEPT !.port = IF @ = 0 THEN DefaultPort ELSE @,
                          !.poll = IF @ = 0 THEN 5 ELSE @]

(* What a process knew and reported is forgotten when it ends.             *)
Ends ==
  /\ pc' = "off"
  /\ elevated' = FALSE /\ cfg' = Default /\ at' = 1 /\ manual' = {}
  /\ failed' = 0 /\ blind' = {} /\ deleted' = {}

(* A missing file is no error, a broken one is fatal.                      *)
Load ==
  /\ pc = "load"
  /\ IF file = Broken THEN Ends
     ELSE /\ cfg' = IF file = Absent THEN Normalize(Default) ELSE Normalize(file)
          /\ pc' = "firewall"
          /\ UNCHANGED <<elevated, at, manual, failed, blind, deleted>>
  /\ UNCHANGED <<file, rules, granted>>

Looking == pc = "firewall" /\ at \in DOMAIN Wanted(cfg)
Current == Wanted(cfg)[at]

Exists(r) == rules[r.name] # {}

(* An elevated run is through with the rule, and its port is open.         *)
Grant(r, ports) ==
  granted' = IF elevated /\ r.port \in ports THEN granted \cup {r} ELSE granted

(* netsh shows a rule of that name, for whatever port.                     *)
RuleFound ==
  /\ Looking /\ Exists(Current)
  /\ at' = at + 1
  /\ Grant(Current, rules[Current.name])
  /\ UNCHANGED <<file, rules, pc, elevated, cfg, manual, failed, blind, deleted>>

(* netsh shows none; it exits with an error for that, so that any other    *)
(* failure of it looks the same.                                           *)
NotShown(r) == blind' = IF Exists(r) THEN blind \cup {r.name} ELSE blind

RuleAdded ==
  /\ Looking /\ elevated
  /\ NotShown(Current)
  /\ rules' = [rules EXCEPT ![Current.name] = @ \cup {Current.port}]
  /\ Grant(Current, rules'[Current.name])
  /\ at' = at + 1
  /\ UNCHANGED <<file, pc, elevated, cfg, manual, failed, deleted>>

(* Faulty variant: the failure is not passed on.                           *)
AddFailsSilently ==
  /\ Looking /\ elevated
  /\ NotShown(Current)
  /\ at' = at + 1
  /\ UNCHANGED <<file, rules, pc, elevated, cfg, manual, failed, deleted, granted>>

(* A failure ends Ensure: the remaining rules are not looked at.           *)
AddFails ==
  /\ Looking /\ elevated
  /\ NotShown(Current)
  /\ failed' = at
  /\ at' = Len(Wanted(cfg)) + 1
  /\ UNCHANGED <<file, rules, pc, elevated, cfg, manual, deleted, granted>>

(* Faulty variant: elevation is looked at first.                           *)
NotElevatedFirst ==
  /\ Looking /\ ~elevated
  /\ manual' = manual \cup {Current.name}
  /\ at' = at + 1
  /\ UNCHANGED <<file, rules, pc, elevated, cfg, failed, blind, deleted, granted>>

NotElevated ==
  /\ Looking /\ ~elevated
  /\ NotShown(Current)
  /\ manual' = manual \cup {Current.name}
  /\ at' = at + 1
  /\ UNCHANGED <<file, rules, pc, elevated, cfg, failed, deleted, granted>>

(* The report is logged, and serveAll starts.                              *)
Serve ==
  /\ pc = "firewall" /\ at \notin DOMAIN Wanted(cfg)
  /\ pc' = "running"
  /\ UNCHANGED <<file, rules, run, granted>>

(* Whatever it was doing, the process may be stopped.                      *)
Stop ==
  /\ pc # "off"
  /\ Ends
  /\ UNCHANGED <<file, rules, granted>>

Ensure == RuleFound \/ RuleAdded \/ AddFails \/ NotElevated

Next == User \/ Launch \/ Load \/ Ensure \/ Serve \/ Stop

Spec == Init /\ [][Next]_vars

-----------------------------------------------------------------------------
(* Types; whatever the file says, the relay listens on a port of its own   *)
(* and polls with a period (a ticker of zero would panic).                 *)
TypeOK ==
  /\ file \in Settings \cup {Absent, Broken}
  /\ rules \in [Names -> SUBSET (Ports \cup AdminPorts)]
  /\ pc \in {"off", "load", "firewall", "running"} /\ elevated \in BOOLEAN
  /\ cfg \in Settings /\ cfg.port # 0 /\ cfg.poll # 0
  /\ at \in Nat \ {0} /\ failed \in Nat
  /\ (manual \cup blind \cup deleted) \subseteq Names
  /\ granted \subseteq [name : Names, proto : {"TCP", "UDP"}, port : Ports \cup AdminPorts]

-----------------------------------------------------------------------------
(* A rule of that name lets other ports through, those of an earlier       *)
(* configuration.                                                          *)
OnOtherPorts(r) == rules[r.name] \ {r.port} # {}

(* firewall_windows.go:29-58, main.go:279-305.  Once the relay serves, the *)
(* port of every rule it needs is open, or the log names the rule, as one  *)
(* to be added by hand or as the one whose addition failed.  There are     *)
(* three ways to a port that is closed without a word, and no other: a     *)
(* rule of that name was there for another port, an earlier rule's failure *)
(* ended Ensure before it came to this one, or the user deleted the rule   *)
(* since.                                                                  *)
MissingIsReported ==
  pc = "running" =>
    \A i \in DOMAIN Wanted(cfg) :
       LET r == Wanted(cfg)[i]
       IN  \/ r.port \in rules[r.name]
           \/ r.name \in manual \/ i = failed
           \/ OnOtherPorts(r)
           \/ 0 < failed /\ failed < i
           \/ r.name \in deleted

(* firewall_windows.go:29-52, main.go:279-305.  A port that an elevated    *)
(* run has found open or opened stays open, and no later run, elevated or  *)
(* not, under whatever configuration, asks for the rule again, unless the  *)
(* user deletes it or netsh fails to show it.  (Not every port becomes so: *)
(* README.md:107, one run as administrator, is no cure for a rule that is  *)
(* left from another listen_port, see MissingIsReported.)                  *)
OpenedStaysOpen ==
  \A r \in granted : /\ r.port \in rules[r.name]
                     /\ r.name \in manual => r.name \in blind
=============================================================================
