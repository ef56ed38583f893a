---------------------------- MODULE StartUpProofs ----------------------------
(***************************************************************************)
(* Proofs about StartUp, for all ports a user may write, over any number   *)
(* of launches.                                                            *)
(***************************************************************************)
EXTENDS StartUp, TLAPS

RuleRecords == [name : Names, proto : {"TCP", "UDP"}, port : Ports \cup AdminPorts]

(* Ensure is through with the rule: its port is open, the log tells, or    *)
(* one of the three exceptions applies.                                    *)
Settled(i) ==
  LET r == Wanted(cfg)[i]
  IN  \/ r.port \in rules[r.name]
      \/ r.name \in manual \/ i = failed
      \/ OnOtherPorts(r)
      \/ 0 < failed /\ failed < i
      \/ r.name \in deleted

(* Of the rules the configuration asks for, each one is still ahead of     *)
(* Ensure, or settled.                                                     *)
NoneForgotten == \A i \in DOMAIN Wanted(cfg) : i < at => Settled(i)

StartUpInv ==
  /\ TypeOK
  /\ at \in 1..(Len(Wanted(cfg)) + 1)
  /\ pc \in {"firewall", "running"} => NoneForgotten
  /\ pc \in {"off", "load"} => at = 1 /\ failed = 0
  /\ failed # 0 => at = Len(Wanted(cfg)) + 1
  /\ pc = "running" => at = Len(Wanted(cfg)) + 1
  /\ pc \in {"off", "load"} \/ elevated => manual = {}
  /\ OpenedStaysOpen

-----------------------------------------------------------------------------
LEMMA ElementOfSeq ==
  ASSUME NEW S, NEW s \in Seq(S), NEW i \in DOMAIN s
  PROVE  s[i] \in S
OBVIOUS

LEMMA AtMostOne ==
  ASSUME NEW S, NEW e, NEW b \in BOOLEAN, b => e \in S
  PROVE  (IF b THEN <<e>> ELSE <<>>) \in Seq(S)
<1>1. CASE b
  BY <1>1
<1>2. CASE ~b
  <2>1. <<>> \in Seq(S)
    OBVIOUS
  <2> QED
    BY <1>2, <2>1
<1> QED
  BY <1>1, <1>2

(* A normalised configuration asks for rules with ports to open.           *)
LEMMA WantedType ==
  ASSUME NEW c \in Settings, c.port # 0
  PROVE  Wanted(c) \in Seq(RuleRecords)
<1> DEFINE one   == <<Rule("Proxy TCP", "TCP", c.port)>>
           two   == IF c.udp THEN <<Rule("Proxy UDP", "UDP", c.port)>> ELSE <<>>
           three == IF c.admin > 0 THEN <<Rule("Admin TCP", "TCP", c.admin)>> ELSE <<>>
<1>1. c.port \in Ports /\ (c.admin > 0 => c.admin \in AdminPorts)
  <2>1. c.port \in Ports \cup {0} /\ c.admin \in AdminPorts \cup {0}
    BY DEF Settings
  <2> QED
    BY <2>1
<1>2. /\ Rule("Proxy TCP", "TCP", c.port) \in RuleRecords
      /\ Rule("Proxy UDP", "UDP", c.port) \in RuleRecords
      /\ c.admin > 0 => Rule("Admin TCP", "TCP", c.admin) \in RuleRecords
  BY <1>1 DEF Rule, RuleRecords, Names
<1>3. one \in Seq(RuleRecords)
  <2>1. \A e \in RuleRecords : <<e>> \in Seq(RuleRecords)
    BY AtMostOne
  <2> QED
    BY <1>2, <2>1
<1>4. two \in Seq(RuleRecords)
  <2>1. c.udp \in BOOLEAN
    BY DEF Settings
  <2> QED
    BY <1>2, <2>1, AtMostOne
<1>5. three \in Seq(RuleRecords)
  <2>1. (c.admin > 0) \in BOOLEAN
    OBVIOUS
  <2> QED
    BY <1>2, <2>1, AtMostOne
<1>6. Wanted(c) = one \o two \o three
  BY DEF Wanted
<1> HIDE DEF one, two, three
<1> QED
  BY <1>3, <1>4, <1>5, <1>6

(* Whatever the file says, there is a port to listen on and a period.      *)
LEMMA NormalizeType ==
  ASSUME NEW s \in Settings
  PROVE  /\ Normalize(s) \in Settings
         /\ Normalize(s).port # 0 /\ Normalize(s).poll # 0
<1> DEFINE port == IF s.port = 0 THEN DefaultPort ELSE s.port
           poll == IF s.poll = 0 THEN 5 ELSE s.poll
<1>1. DefaultPort \in Ports /\ DefaultPort # 0
  BY PortsAssumption
<1>2. Normalize(s) = [s EXCEPT !.port = port, !.poll = poll]
  BY DEF Normalize, Settings
<1>3. port \in Ports \cup {0} /\ port # 0 /\ poll \in {0, 5} /\ poll # 0
  BY <1>1 DEF Settings
<1> HIDE DEF port, poll
<1> QED
  BY <1>2, <1>3 DEF Settings

LEMMA DefaultType == Default \in Settings /\ Default.port # 0 /\ Default.poll # 0
<1>1. DefaultPort \in Ports /\ DefaultPort # 0 /\ DefaultAdmin \in AdminPorts
  BY PortsAssumption
<1> QED
  BY <1>1 DEF Default, Settings

-----------------------------------------------------------------------------
LEMMA WantedKnown ==
  ASSUME TypeOK
  PROVE  /\ Wanted(cfg) \in Seq(RuleRecords)
         /\ \A i \in DOMAIN Wanted(cfg) :
              /\ Wanted(cfg)[i] \in RuleRecords
              /\ Wanted(cfg)[i].name \in Names
              /\ Wanted(cfg)[i].port \in Ports \cup AdminPorts
         /\ DOMAIN Wanted(cfg) = 1..Len(Wanted(cfg)) /\ Len(Wanted(cfg)) \in Nat
<1>1. Wanted(cfg) \in Seq(RuleRecords)
  BY WantedType DEF TypeOK
<1>2. \A i \in DOMAIN Wanted(cfg) : Wanted(cfg)[i] \in RuleRecords
  BY <1>1, ElementOfSeq
<1>3. \A r \in RuleRecords : r.name \in Names /\ r.port \in Ports \cup AdminPorts
  BY DEF RuleRecords
<1>4. DOMAIN Wanted(cfg) = 1..Len(Wanted(cfg)) /\ Len(Wanted(cfg)) \in Nat
  BY <1>1
<1> QED
  BY <1>1, <1>2, <1>3, <1>4

(* What was settled stays so.                                              *)
LEMMA StillSettled ==
  ASSUME TypeOK, NoneForgotten, cfg' = cfg, at' = at, failed' = failed,
         manual \subseteq manual', deleted \subseteq deleted',
         \A n \in Names : rules[n] \subseteq rules'[n] \/ n \in deleted'
  PROVE  NoneForgotten'
<1>1. Wanted(cfg)' = Wanted(cfg)
  BY DEF Wanted
<1>2. ASSUME NEW i \in DOMAIN Wanted(cfg), i < at
      PROVE  Settled(i)'
  <2>1. Settled(i) /\ Wanted(cfg)[i].name \in Names
    BY <1>2, WantedKnown DEF NoneForgotten
  <2> QED
    BY <1>1, <2>1 DEF Settled, OnOtherPorts
<1> QED
  BY <1>1, <1>2 DEF NoneForgotten

(* Ensure is through with the rule it looks at.                            *)
LEMMA OneMoreSettled ==
  ASSUME TypeOK, NoneForgotten, Looking, cfg' = cfg, at' = at + 1, failed' = failed,
         manual \subseteq manual', deleted' = deleted,
         \A n \in Names : rules[n] \subseteq rules'[n],
         \/ rules'[Current.name] # {}
         \/ Current.name \in manual'
  PROVE  NoneForgotten'
<1>1. Wanted(cfg)' = Wanted(cfg)
  BY DEF Wanted
<1>2. ASSUME NEW i \in DOMAIN Wanted(cfg), i < at + 1
      PROVE  Settled(i)'
  <2>1. Wanted(cfg)[i].name \in Names /\ i \in Nat /\ at \in Nat
    BY WantedKnown DEF TypeOK
  <2>2. CASE i < at
    <3>1. Settled(i)
      BY <2>2 DEF NoneForgotten
    <3> QED
      BY <1>1, <2>1, <3>1 DEF Settled, OnOtherPorts
  <2>3. CASE i = at
    BY <1>1, <2>3 DEF Settled, OnOtherPorts, Current
  <2> QED
    BY <1>2, <2>1, <2>2, <2>3
<1> QED
  BY <1>1, <1>2 DEF NoneForgotten

(* A rule is added, whatever for.                                          *)
LEMMA RuleComes ==
  ASSUME TypeOK, NEW r \in RuleRecords, rules' = [rules EXCEPT ![r.name] = @ \cup {r.port}]
  PROVE  /\ rules' \in [Names -> SUBSET (Ports \cup AdminPorts)]
         /\ r.port \in rules'[r.name] /\ \A n \in Names : rules[n] \subseteq rules'[n]
BY DEF TypeOK, RuleRecords

LEMMA UserStep ==
  ASSUME StartUpInv, User
  PROVE  StartUpInv'
<1>1. CASE EditConfig \/ GenConfig
  <2>1. UNCHANGED <<rules, pc, elevated, cfg, at, manual, failed, blind, deleted, granted>>
        /\ file' \in Settings \cup {Broken, Absent}
    BY <1>1, DefaultType DEF EditConfig, GenConfig, run
  <2>2. NoneForgotten => NoneForgotten'
    BY <2>1, StillSettled DEF StartUpInv
  <2>3. Wanted(cfg)' = Wanted(cfg) /\ TypeOK'
    BY <2>1 DEF Wanted, StartUpInv, TypeOK
  <2> QED
    BY <2>1, <2>2, <2>3 DEF StartUpInv, OpenedStaysOpen
<1>2. CASE RunManualCommand
  <2>1. PICK i \in DOMAIN Wanted(cfg) :
          rules' = [rules EXCEPT ![Wanted(cfg)[i].name] = @ \cup {Wanted(cfg)[i].port}]
    BY <1>2 DEF RunManualCommand
  <2>2. UNCHANGED <<file, pc, elevated, cfg, at, manual, failed, blind, deleted, granted>>
    BY <1>2 DEF RunManualCommand, run
  <2>3. Wanted(cfg)[i] \in RuleRecords
    BY WantedKnown DEF StartUpInv
  <2>4. /\ rules' \in [Names -> SUBSET (Ports \cup AdminPorts)]
        /\ \A n \in Names : rules[n] \subseteq rules'[n]
    BY <2>1, <2>3, RuleComes DEF StartUpInv
  <2>5. NoneForgotten => NoneForgotten'
    BY <2>2, <2>4, StillSettled DEF StartUpInv
  <2>6. Wanted(cfg)' = Wanted(cfg) /\ TypeOK'
    BY <2>2, <2>4 DEF Wanted, StartUpInv, TypeOK
  <2>7. \A r \in granted : r.name \in Names
    BY DEF StartUpInv, TypeOK
  <2>8. OpenedStaysOpen'
    BY <2>2, <2>4, <2>7 DEF StartUpInv, OpenedStaysOpen
  <2> QED
    BY <2>2, <2>5, <2>6, <2>8 DEF StartUpInv
<1>3. ASSUME NEW n \in Names, DeleteRule(n) PROVE StartUpInv'
  <2>1. /\ rules' = [rules EXCEPT ![n] = {}] /\ granted' = {r \in granted : r.name # n}
        /\ UNCHANGED <<file, pc, elevated, cfg, at, manual, failed, blind>>
        /\ deleted' = IF pc = "off" THEN deleted ELSE deleted \cup {n}
    BY <1>3 DEF DeleteRule
  <2>2. /\ rules' \in [Names -> SUBSET (Ports \cup AdminPorts)]
        /\ \A m \in Names : m = n \/ rules'[m] = rules[m]
    BY <2>1 DEF StartUpInv, TypeOK
  <2>3. pc \in {"firewall", "running"} => NoneForgotten'
    BY <2>1, <2>2, StillSettled DEF StartUpInv
  <2>4. Wanted(cfg)' = Wanted(cfg) /\ TypeOK'
    BY <2>1, <2>2 DEF Wanted, StartUpInv, TypeOK
  <2>5. OpenedStaysOpen'
    <3>1. \A r \in granted : r.name \in Names
      BY DEF StartUpInv, TypeOK
    <3> QED
      BY <2>1, <2>2, <3>1 DEF StartUpInv, OpenedStaysOpen
  <2> QED
    BY <2>1, <2>3, <2>4, <2>5 DEF StartUpInv
<1> QED
  BY <1>1, <1>2, <1>3 DEF User

LEMMA LifeStep ==
  ASSUME StartUpInv, Launch \/ Load \/ Serve \/ Stop
  PROVE  StartUpInv'
<1>1. CASE Launch
  <2>1. /\ UNCHANGED <<file, rules, cfg, at, manual, failed, blind, deleted, granted>>
        /\ pc = "off" /\ pc' = "load" /\ elevated' \in BOOLEAN
    BY <1>1 DEF Launch
  <2>2. Wanted(cfg)' = Wanted(cfg) /\ TypeOK'
    BY <2>1 DEF Wanted, StartUpInv, TypeOK
  <2> QED
    BY <2>1, <2>2 DEF StartUpInv, OpenedStaysOpen
<1>2. ASSUME Ends, UNCHANGED <<file, rules, granted>> PROVE StartUpInv'
  <2>1. TypeOK'
    <3>1. /\ cfg' \in Settings /\ cfg'.port # 0 /\ cfg'.poll # 0
      BY <1>2, DefaultType DEF Ends
    <3>2. /\ at' = 1 /\ failed' = 0 /\ manual' = {} /\ blind' = {} /\ deleted' = {}
          /\ pc' = "off" /\ elevated' = FALSE
      BY <1>2 DEF Ends
    <3>3. (manual \cup blind \cup deleted)' \subseteq Names
      BY <3>2
    <3>4. at' \in Nat \ {0} /\ failed' \in Nat
      BY <3>2
    <3> QED
      BY <1>2, <3>1, <3>2, <3>3, <3>4 DEF StartUpInv, TypeOK
  <2>2. at' \in 1..(Len(Wanted(cfg)') + 1)
    <3>1. Wanted(Default) \in Seq(RuleRecords)
      BY DefaultType, WantedType
    <3>2. Wanted(cfg)' = Wanted(Default)
      BY <1>2 DEF Ends, Wanted
    <3> QED
      BY <1>2, <3>1, <3>2 DEF Ends
  <2> QED
    BY <1>2, <2>1, <2>2 DEF Ends, StartUpInv, OpenedStaysOpen
<1>3. CASE Load /\ file # Broken
  <2>1. /\ cfg' = IF file = Absent THEN Normalize(Default) ELSE Normalize(file)
        /\ pc = "load" /\ pc' = "firewall"
        /\ UNCHANGED <<file, rules, granted, elevated, at, manual, failed, blind, deleted>>
    BY <1>3 DEF Load
  <2>2. cfg' \in Settings /\ cfg'.port # 0 /\ cfg'.poll # 0
    BY <1>3, <2>1, DefaultType, NormalizeType DEF StartUpInv, TypeOK
  <2>3. Len(Wanted(cfg)') \in Nat /\ DOMAIN (Wanted(cfg)') \subseteq Nat \ {0}
    <3>1. Wanted(cfg') \in Seq(RuleRecords) /\ Wanted(cfg)' = Wanted(cfg')
      BY <2>2, WantedType DEF Wanted
    <3> QED
      BY <3>1
  <2>4. at' = 1
    BY <2>1 DEF StartUpInv
  <2>5. NoneForgotten'
    BY <2>3, <2>4 DEF NoneForgotten
  <2>6. TypeOK'
    BY <2>1, <2>2 DEF StartUpInv, TypeOK
  <2> QED
    BY <2>1, <2>3, <2>4, <2>5, <2>6 DEF StartUpInv, OpenedStaysOpen
<1>4. CASE Serve
  <2>1. /\ UNCHANGED <<file, rules, elevated, cfg, at, manual, failed, blind, deleted, granted>>
        /\ pc \in {"firewall", "running"} /\ pc' = "running"
        /\ pc = "firewall" => at \notin DOMAIN Wanted(cfg)
    BY <1>4 DEF Serve, run, StartUpInv, TypeOK
  <2>2. NoneForgotten'
    BY <2>1, StillSettled DEF StartUpInv
  <2>3. Wanted(cfg)' = Wanted(cfg) /\ TypeOK'
    BY <2>1 DEF Wanted, StartUpInv, TypeOK
  <2>4. at = Len(Wanted(cfg)) + 1
    BY <2>1, WantedKnown DEF StartUpInv
  <2> QED
    BY <2>1, <2>2, <2>3, <2>4 DEF StartUpInv, OpenedStaysOpen
<1> QED
  BY <1>1, <1>2, <1>3, <1>4 DEF Load, Stop

LEMMA EnsureStep ==
  ASSUME StartUpInv, Ensure
  PROVE  StartUpInv'
<1> DEFINE c == Current
<1>1. /\ Looking /\ NoneForgotten /\ TypeOK /\ UNCHANGED <<file, pc, cfg, elevated, deleted>>
      /\ pc = "firewall"
  BY DEF Ensure, RuleFound, RuleAdded, AddFails, NotElevated, Looking, StartUpInv
<1>2. c \in RuleRecords /\ c.name \in Names /\ at \in 1..Len(Wanted(cfg)) /\ Len(Wanted(cfg)) \in Nat
  BY <1>1, WantedKnown DEF Looking, Current
<1>3. Wanted(cfg)' = Wanted(cfg)
  BY <1>1 DEF Wanted
<1>4. \A r \in granted : r.name \in Names
  BY <1>1 DEF TypeOK
<1>5. CASE RuleFound
  <2>1. /\ rules[c.name] # {} /\ at' = at + 1
        /\ granted' = (IF elevated /\ c.port \in rules[c.name] THEN granted \cup {c} ELSE granted)
        /\ UNCHANGED <<rules, manual, failed, blind>>
    BY <1>5 DEF RuleFound, Exists, Grant
  <2>2. NoneForgotten'
    BY <1>1, <2>1, OneMoreSettled
  <2>3. TypeOK'
    BY <1>1, <1>2, <2>1 DEF TypeOK, RuleRecords
  <2>4. OpenedStaysOpen'
    BY <2>1 DEF StartUpInv, OpenedStaysOpen
  <2> QED
    BY <1>1, <1>2, <1>3, <2>1, <2>2, <2>3, <2>4 DEF StartUpInv
<1>6. CASE RuleAdded
  <2>1. /\ rules' = [rules EXCEPT ![c.name] = @ \cup {c.port}] /\ at' = at + 1
        /\ granted' = (IF elevated /\ c.port \in rules'[c.name] THEN granted \cup {c} ELSE granted)
        /\ elevated /\ UNCHANGED <<manual, failed>>
        /\ blind' = IF rules[c.name] # {} THEN blind \cup {c.name} ELSE blind
    BY <1>6 DEF RuleAdded, NotShown, Exists, Grant
  <2>2. /\ rules' \in [Names -> SUBSET (Ports \cup AdminPorts)]
        /\ c.port \in rules'[c.name] /\ \A n \in Names : rules[n] \subseteq rules'[n]
    BY <1>1, <1>2, <2>1, RuleComes
  <2>3. NoneForgotten'
    BY <1>1, <2>1, <2>2, OneMoreSettled
  <2>4. TypeOK'
    BY <1>1, <1>2, <2>1, <2>2 DEF TypeOK, RuleRecords
  <2>5. manual' = {}
    BY <2>1 DEF StartUpInv
  <2>6. OpenedStaysOpen'
    BY <1>4, <2>1, <2>2, <2>5 DEF StartUpInv, OpenedStaysOpen
  <2> QED
    BY <1>1, <1>2, <1>3, <2>1, <2>3, <2>4, <2>5, <2>6 DEF StartUpInv
<1>7. CASE AddFails
  <2>1. /\ elevated /\ failed' = at /\ at' = Len(Wanted(cfg)) + 1
        /\ UNCHANGED <<rules, manual, granted>>
        /\ blind' = IF rules[c.name] # {} THEN blind \cup {c.name} ELSE blind
    BY <1>7 DEF AddFails, NotShown, Exists
  <2>2. failed = 0
    BY <1>2 DEF StartUpInv
  <2>3. ASSUME NEW i \in DOMAIN Wanted(cfg) PROVE Settled(i)'
    <3>1. i \in Nat \ {0}
      BY <1>1, WantedKnown
    <3>2. CASE i < at
      <4>1. Settled(i)
        BY <1>1, <3>2 DEF NoneForgotten
      <4> QED
        BY <1>1, <1>3, <2>1, <2>2, <3>1, <4>1 DEF Settled, OnOtherPorts
    <3>3. CASE at =< i
      BY <1>2, <2>1, <3>1, <3>3 DEF Settled
    <3> QED
      BY <1>2, <3>1, <3>2, <3>3
  <2>4. NoneForgotten'
    BY <1>3, <2>3 DEF NoneForgotten
  <2>5. TypeOK'
    BY <1>1, <1>2, <2>1 DEF TypeOK
  <2>6. manual' = {}
    BY <2>1 DEF StartUpInv
  <2>7. OpenedStaysOpen'
    BY <2>1, <2>6 DEF StartUpInv, OpenedStaysOpen
  <2> QED
    BY <1>1, <1>2, <1>3, <2>1, <2>4, <2>5, <2>6, <2>7 DEF StartUpInv
<1>8. CASE NotElevated
  <2>1. /\ ~elevated /\ manual' = manual \cup {c.name} /\ at' = at + 1
        /\ UNCHANGED <<rules, failed, granted>>
        /\ blind' = IF rules[c.name] # {} THEN blind \cup {c.name} ELSE blind
    BY <1>8 DEF NotElevated, NotShown, Exists
  <2>2. NoneForgotten'
    BY <1>1, <2>1, OneMoreSettled
  <2>3. TypeOK'
    BY <1>1, <1>2, <2>1 DEF TypeOK
  <2>4. ASSUME NEW r \in granted' PROVE r.port \in rules'[r.name] /\ (r.name \in manual' => r.name \in blind')
    <3>1. r.port \in rules[r.name] /\ (r.name \in manual => r.name \in blind)
      BY <2>1, <2>4 DEF StartUpInv, OpenedStaysOpen
    <3> QED
      BY <2>1, <3>1
  <2>5. OpenedStaysOpen'
    BY <2>4 DEF OpenedStaysOpen
  <2>6. failed = 0
    BY <1>2 DEF StartUpInv
  <2> QED
    BY <1>1, <1>2, <1>3, <2>1, <2>2, <2>3, <2>5, <2>6 DEF StartUpInv
<1> QED
  BY <1>5, <1>6, <1>7, <1>8 DEF Ensure

-----------------------------------------------------------------------------
(* What holds of the file, the firewall and Ensure's way through its list, *)
(* over any number of launches, elevated or not (main.go:279-305,          *)
(* firewall_windows.go:26-55).                                             *)
THEOREM StartUpInvariant == Spec => []StartUpInv
<1>1. Init => StartUpInv
  <2>1. SUFFICES ASSUME Init PROVE StartUpInv
    OBVIOUS
  <2>2. TypeOK
    <3>1. cfg \in Settings /\ cfg.port # 0 /\ cfg.poll # 0
      BY <2>1, DefaultType DEF Init
    <3>2. rules \in [Names -> SUBSET (Ports \cup AdminPorts)]
      BY <2>1 DEF Init
    <3>3. /\ at = 1 /\ failed = 0 /\ manual = {} /\ blind = {} /\ deleted = {}
          /\ pc = "off" /\ elevated = FALSE /\ granted = {} /\ file = Absent
      BY <2>1 DEF Init
    <3>4. (manual \cup blind \cup deleted) \subseteq Names
      BY <3>3
    <3>5. granted \subseteq RuleRecords
      BY <3>3
    <3>6. at \in Nat \ {0} /\ failed \in Nat
      BY <3>3
    <3> QED
      BY <3>1, <3>2, <3>3, <3>4, <3>5, <3>6 DEF TypeOK, RuleRecords
  <2>3. Len(Wanted(cfg)) \in Nat
    BY <2>2, WantedKnown
  <2> QED
    BY <2>1, <2>2, <2>3 DEF Init, StartUpInv, OpenedStaysOpen
<1>2. StartUpInv /\ [Next]_vars => StartUpInv'
  <2>1. SUFFICES ASSUME StartUpInv, [Next]_vars PROVE StartUpInv'
    OBVIOUS
  <2>2. CASE UNCHANGED vars
    <3>1. UNCHANGED <<file, rules, pc, elevated, cfg, at, manual, failed, blind, deleted, granted>>
      BY <2>2 DEF vars, run
    <3>2. NoneForgotten => NoneForgotten'
      BY <2>1, <3>1, StillSettled DEF StartUpInv
    <3>3. Wanted(cfg)' = Wanted(cfg) /\ TypeOK'
      BY <2>1, <3>1 DEF Wanted, StartUpInv, TypeOK
    <3> QED
      BY <2>1, <3>1, <3>2, <3>3 DEF StartUpInv, OpenedStaysOpen
  <2> QED
    BY <2>1, <2>2, UserStep, LifeStep, EnsureStep DEF Next
<1> QED
  BY <1>1, <1>2, PTL DEF Spec

(* Whatever a user writes into the file, the relay has a port to listen on *)
(* and a period to poll with, and its rules have ports (config.go:114-127).*)
THEOREM StartUpTypes == Spec => []TypeOK
<1>1. StartUpInv => TypeOK
  BY DEF StartUpInv
<1> QED
  BY <1>1, StartUpInvariant, PTL

(* A port that is closed while the relay serves is named in the log, but   *)
(* for the three exceptions of MissingIsReported                           *)
(* (firewall_windows.go:29-58, main.go:279-305).                           *)
THEOREM MissingRulesAreReported == Spec => []MissingIsReported
<1>1. StartUpInv => MissingIsReported
  <2>1. SUFFICES ASSUME StartUpInv, pc = "running", NEW i \in DOMAIN Wanted(cfg)
                 PROVE  Settled(i)
    BY DEF MissingIsReported, Settled
  <2>2. i < at
    BY <2>1, WantedKnown DEF StartUpInv
  <2> QED
    BY <2>1, <2>2 DEF StartUpInv, NoneForgotten
<1> QED
  BY <1>1, StartUpInvariant, PTL

(* A port that an elevated run left open stays open and is never asked for *)
(* again (firewall_windows.go:29-40).                                      *)
THEOREM OpenedPortsStayOpen == Spec => []OpenedStaysOpen
<1>1. StartUpInv => OpenedStaysOpen
  BY DEF StartUpInv
<1> QED
  BY <1>1, StartUpInvariant, PTL
=============================================================================
