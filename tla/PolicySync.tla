------------------------------ MODULE PolicySync ------------------------------
(***************************************************************************)
(* The distribution of the policy: the tables of PolicyStore, the handler  *)
(* of GET /api/v1/policy/<agent_id> (do_GET of manager/app.py), which      *)
(* reads the five tables one after the other, each under the lock but not  *)
(* all of them together, and sync_policy of agent/src/main.rs, which       *)
(* rewrites the five eBPF maps one entry at a time while the kernel hooks  *)
(* look keys up in them.                                                   *)
(*                                                                         *)
(* An agent is at one of these points (pc):                                *)
(*   down      no process, no hooks;                                       *)
(*   idle      main's loop between two calls of sync_policy;               *)
(*   asking    the manager's handler is about to read table stage;         *)
(*   answered  the answer is on its way;                                   *)
(*   clearing  sync_policy removes the entries of map stage;               *)
(*   filling   sync_policy inserts the entries of map stage.               *)
(*                                                                         *)
(* before, outcome and granted are history variables: the maps when the    *)
(* last call of sync_policy began, how the last call ended, and the rows   *)
(* that have ever been enabled. faults counts the crashes and the lost     *)
(* answers up to the bound MaxFaults. The rules of a list are inserted in  *)
(* any order, where the code takes the order of their text. The agents'    *)
(* last_seen, which the handler also writes, is no part of this module.    *)
(***************************************************************************)
EXTENDS PolicyStore

CONSTANTS Capacity,    \* max_entries of the eBPF map of each kind
          ManagerKey,  \* the key the connect hook looks up for the manager
          MaxFaults    \* bound on crashes and lost answers

ASSUME PolicySyncAssumption ==
  /\ MaxFaults \in Nat
  /\ \A k \in Kinds : Capacity[k] \in Nat \ {0}

VARIABLES pc, stage, fetched, maps, before, outcome, granted, faults

agentVars == <<pc, stage, fetched, maps, before, outcome>>
vars == <<storeVars, agentVars, granted, faults>>

Points == {"down", "idle", "asking", "answered", "clearing", "filling"}
Outcomes == {"none", "applied", "refused", "partial"}

\* The map keys of a list of rules, as far as its rules can be read.
KeysOf(k, list) == {MapKey(k, r) : r \in {r \in list : Parses(k, r)}}

\* The keys agent a would enforce after reading table k now.
Wanted(a, k) == KeysOf(k, PolicyFor(a, k))

\* The keys of the list of kind k in the answer to agent a.
Answer(a, k) == KeysOf(k, fetched[a][k])

Empty == [k \in Kinds |-> {}]

EnabledRows(tables, k) == {row \in Rows(k) : tables[k][row] = "on"}

\* Mutant of Reachable: the hook lets the agent's connections pass.
ReachableWhenUp(a) == managerUp

\* A connection of the agent passes the socket_connect hook like any other:
\* the hook makes no exception for the agent.
Reachable(a) == managerUp /\ ManagerKey \notin maps[a][IPV4]

\* Every map takes its list: max_entries is not exceeded.
Fits(a) == \A k \in Kinds : Cardinality(Wanted(a, k)) <= Capacity[k]

Readable(a) == \A k \in Kinds : \A r \in PolicyFor(a, k) : Parses(k, r)

-------------------------------------------------------------------------------

Init ==
  /\ StoreInit
  /\ pc = [a \in Agents |-> "down"]
  /\ stage = [a \in Agents |-> IPV4]
  /\ fetched = [a \in Agents |-> Empty]
  /\ maps = [a \in Agents |-> Empty]
  /\ before = maps
  /\ outcome = [a \in Agents |-> "none"]
  /\ granted = [k \in Kinds |-> EnabledRows(rules, k)]
  /\ faults = 0

Fault == faults < MaxFaults /\ faults' = faults + 1

Grant == granted' = [k \in Kinds |-> granted[k] \cup EnabledRows(rules', k)]

\* A request of the operator.
Operate == OperatorRequest /\ Grant /\ UNCHANGED <<agentVars, faults>>

\* sync_policy returns: on success or with the error main only prints.
EndSync(a, how) ==
  /\ pc' = [pc EXCEPT ![a] = "idle"]
  /\ outcome' = [outcome EXCEPT ![a] = how]

\* The manager's process ends: the requests in a handler are reset, the
\* answers already sent still arrive.
ManagerCrashes ==
  /\ ManagerStops
  /\ Fault
  /\ pc' = [a \in Agents |-> IF pc[a] = "asking" THEN "idle" ELSE pc[a]]
  /\ outcome' = [a \in Agents |->
                   IF pc[a] = "asking" THEN "refused" ELSE outcome[a]]
  /\ UNCHANGED <<stage, fetched, maps, before, granted>>

ManagerRestarts == ManagerStarts /\ Grant /\ UNCHANGED <<agentVars, faults>>

\* main registers, which takes a manager, loads the hooks and enters its loop
\* with empty maps.
AgentStarts(a) ==
  /\ pc[a] = "down"
  /\ managerUp
  /\ pc' = [pc EXCEPT ![a] = "idle"]
  /\ UNCHANGED <<storeVars, stage, fetched, maps, before, outcome, granted, faults>>

\* The agent's process ends; the kernel detaches its hooks and frees its maps.
AgentCrashes(a) ==
  /\ pc[a] # "down"
  /\ Fault
  /\ pc' = [pc EXCEPT ![a] = "down"]
  /\ stage' = [stage EXCEPT ![a] = IPV4]
  /\ fetched' = [fetched EXCEPT ![a] = Empty]
  /\ maps' = [maps EXCEPT ![a] = Empty]
  /\ before' = [before EXCEPT ![a] = Empty]
  /\ outcome' = [outcome EXCEPT ![a] = "none"]
  /\ UNCHANGED <<storeVars, granted>>

\* Mutant of StartSync: main ends its loop with the error of a sync.
StartUnlessFailed(a) ==
  /\ pc[a] = "idle"
  /\ outcome[a] \in {"none", "applied"}
  /\ before' = [before EXCEPT ![a] = maps[a]]
  /\ IF Reachable(a)
       THEN /\ pc' = [pc EXCEPT ![a] = "asking"]
            /\ stage' = [stage EXCEPT ![a] = IPV4]
            /\ UNCHANGED outcome
       ELSE EndSync(a, "refused") /\ UNCHANGED stage
  /\ UNCHANGED <<storeVars, fetched, maps, granted, faults>>

\* policy_sync_secs have passed: sync_policy connects to the manager.
StartSync(a) ==
  /\ pc[a] = "idle"
  /\ before' = [before EXCEPT ![a] = maps[a]]
  /\ IF Reachable(a)
       THEN /\ pc' = [pc EXCEPT ![a] = "asking"]
            /\ stage' = [stage EXCEPT ![a] = IPV4]
            /\ UNCHANGED outcome
       ELSE EndSync(a, "refused") /\ UNCHANGED stage
  /\ UNCHANGED <<storeVars, fetched, maps, granted, faults>>

\* The handler takes the lock and reads table stage for the agent.
ReadTable(a) ==
  /\ pc[a] = "asking"
  /\ fetched' = [fetched EXCEPT ![a][stage[a]] = PolicyFor(a, stage[a])]
  /\ IF stage[a] = PTRACE
       THEN pc' = [pc EXCEPT ![a] = "answered"] /\ UNCHANGED stage
       ELSE stage' = [stage EXCEPT ![a] = stage[a] + 1] /\ UNCHANGED pc
  /\ UNCHANGED <<storeVars, maps, before, outcome, granted, faults>>

\* The connection breaks.
LoseAnswer(a) ==
  /\ pc[a] \in {"asking", "answered"}
  /\ Fault
  /\ EndSync(a, "refused")
  /\ UNCHANGED <<storeVars, stage, fetched, maps, before, granted>>

\* Mutant of ReceiveAnswer: rules that cannot be read are skipped.
SkipUnreadable(a) ==
  /\ pc[a] = "answered"
  /\ pc' = [pc EXCEPT ![a] = "clearing"]
  /\ stage' = [stage EXCEPT ![a] = IPV4]
  /\ UNCHANGED <<storeVars, fetched, maps, before, outcome, granted, faults>>

\* The agent reads the whole answer before it touches a map; one rule it
\* cannot read makes it give the answer up.
ReceiveAnswer(a) ==
  /\ pc[a] = "answered"
  /\ IF \A k \in Kinds : \A r \in fetched[a][k] : Parses(k, r)
       THEN /\ pc' = [pc EXCEPT ![a] = "clearing"]
            /\ stage' = [stage EXCEPT ![a] = IPV4]
            /\ UNCHANGED outcome
       ELSE EndSync(a, "refused") /\ UNCHANGED stage
  /\ UNCHANGED <<storeVars, fetched, maps, before, granted, faults>>

RemoveEntry(a) ==
  /\ pc[a] = "clearing"
  /\ \E key \in maps[a][stage[a]] :
       maps' = [maps EXCEPT ![a][stage[a]] = maps[a][stage[a]] \ {key}]
  /\ UNCHANGED <<storeVars, pc, stage, fetched, before, outcome, granted, faults>>

\* Mutant of MapCleared: the insertions begin before the map is empty.
MapNotCleared(a) ==
  /\ pc[a] = "clearing"
  /\ pc' = [pc EXCEPT ![a] = "filling"]
  /\ UNCHANGED <<storeVars, stage, fetched, maps, before, outcome, granted, faults>>

MapCleared(a) ==
  /\ pc[a] = "clearing"
  /\ maps[a][stage[a]] = {}
  /\ pc' = [pc EXCEPT ![a] = "filling"]
  /\ UNCHANGED <<storeVars, stage, fetched, maps, before, outcome, granted, faults>>

\* The entries of the map that are still to insert.
Missing(a) == Answer(a, stage[a]) \ maps[a][stage[a]]

MapFull(a) == Cardinality(maps[a][stage[a]]) >= Capacity[stage[a]]

InsertEntry(a) ==
  /\ pc[a] = "filling"
  /\ ~MapFull(a)
  /\ \E key \in Missing(a) :
       maps' = [maps EXCEPT ![a][stage[a]] = maps[a][stage[a]] \cup {key}]
  /\ UNCHANGED <<storeVars, pc, stage, fetched, before, outcome, granted, faults>>

\* The insertion fails with E2BIG and the ? operator leaves sync_policy.
InsertFails(a) ==
  /\ pc[a] = "filling"
  /\ MapFull(a)
  /\ Missing(a) # {}
  /\ EndSync(a, "partial")
  /\ UNCHANGED <<storeVars, stage, fetched, maps, before, granted, faults>>

\* Mutant of MapFilled: one map too many.
OneMapTooMany(a) ==
  /\ pc[a] = "filling"
  /\ Missing(a) = {}
  /\ IF stage[a] > PTRACE
       THEN EndSync(a, "applied") /\ UNCHANGED stage
       ELSE /\ pc' = [pc EXCEPT ![a] = "clearing"]
            /\ stage' = [stage EXCEPT ![a] = stage[a] + 1]
            /\ UNCHANGED outcome
  /\ UNCHANGED <<storeVars, fetched, maps, before, granted, faults>>

\* The list is inserted; the next map follows, or the call returns.
MapFilled(a) ==
  /\ pc[a] = "filling"
  /\ Missing(a) = {}
  /\ IF stage[a] = PTRACE
       THEN EndSync(a, "applied") /\ UNCHANGED stage
       ELSE /\ pc' = [pc EXCEPT ![a] = "clearing"]
            /\ stage' = [stage EXCEPT ![a] = stage[a] + 1]
            /\ UNCHANGED outcome
  /\ UNCHANGED <<storeVars, fetched, maps, before, granted, faults>>

SyncStep(a) ==
  \/ StartSync(a)
  \/ ReadTable(a)
  \/ ReceiveAnswer(a)
  \/ RemoveEntry(a)
  \/ MapCleared(a)
  \/ InsertEntry(a)
  \/ InsertFails(a)
  \/ MapFilled(a)

Next ==
  \/ Operate
  \/ ManagerCrashes
  \/ ManagerRestarts
  \/ \E a \in Agents :
       \/ AgentStarts(a)
       \/ AgentCrashes(a)
       \/ LoseAnswer(a)
       \/ SyncStep(a)

Spec == Init /\ [][Next]_vars

\* main's loop never blocks for good on anything but the manager's answer, the
\* handler threads of the manager are scheduled, and the agent's unit has
\* Restart=always. Nobody restarts the manager: no fairness of ManagerRestarts.
Fairness ==
  \A a \in Agents : WF_vars(AgentStarts(a)) /\ WF_vars(SyncStep(a))

FairSpec == Spec /\ Fairness

-------------------------------------------------------------------------------

PerKind(f) == DOMAIN f = Agents /\ \A a \in Agents : DOMAIN f[a] = Kinds

\* The shape of the state: the maps hold keys of readable rules only.
TypeOK ==
  /\ StoreTypeOK
  /\ pc \in [Agents -> Points]
  /\ stage \in [Agents -> Kinds]
  /\ outcome \in [Agents -> Outcomes]
  /\ PerKind(fetched) /\ PerKind(maps) /\ PerKind(before)
  /\ \A a \in Agents : \A k \in Kinds :
       /\ fetched[a][k] \subseteq RuleKeys[k]
       /\ maps[a][k] \subseteq KeysOf(k, RuleKeys[k])
       /\ before[a][k] \subseteq KeysOf(k, RuleKeys[k])
  /\ DOMAIN granted = Kinds
  /\ \A k \in Kinds : granted[k] \subseteq Rows(k)
  /\ faults \in 0 .. MaxFaults

\* An agent enforces only what an operator enabled, at some time, for that
\* agent or for all of them: no rule of another agent's scope, no rule that was
\* always disabled and no key left by a crash or a torn answer gets into a map.
Isolation ==
  \A a \in Agents : \A k \in Kinds : \A key \in maps[a][k] :
    \E row \in granted[k] :
      /\ row[2] \in {Global, a}
      /\ Parses(k, row[1])
      /\ MapKey(k, row[1]) = key

\* While sync_policy is under way the maps change in order: those before the
\* one at work hold the answer, those behind it what they held when the call
\* began, and the one at work a part of the old keys or a part of the new ones
\* but never some of each. Before the answer is accepted nothing has changed.
RewriteInOrder ==
  \A a \in Agents :
    /\ pc[a] \in {"asking", "answered"} => maps[a] = before[a]
    /\ pc[a] \in {"clearing", "filling"} =>
         /\ \A k \in Kinds : k < stage[a] => maps[a][k] = Answer(a, k)
         /\ \A k \in Kinds : k > stage[a] => maps[a][k] = before[a][k]
    /\ pc[a] = "clearing" => maps[a][stage[a]] \subseteq before[a][stage[a]]
    /\ pc[a] = "filling" => maps[a][stage[a]] \subseteq Answer(a, stage[a])

\* What a call of sync_policy leaves behind. After a success every rule of the
\* answer is in its map and nothing else is; after a failure to get or to read
\* the answer no map has changed; after a failed insertion one map is full and
\* lacks a key, those before it are new and those behind it are still old.
SyncOutcome ==
  \A a \in Agents : pc[a] = "idle" =>
    /\ outcome[a] = "applied" => \A k \in Kinds :
         /\ \A r \in fetched[a][k] : Parses(k, r)
         /\ maps[a][k] = Answer(a, k)
    /\ outcome[a] = "refused" => maps[a] = before[a]
    /\ outcome[a] = "partial" =>
         /\ MapFull(a)
         /\ Missing(a) # {}
         /\ \A k \in Kinds : k < stage[a] => maps[a][k] = Answer(a, k)
         /\ \A k \in Kinds : k > stage[a] => maps[a][k] = before[a][k]
    /\ outcome[a] = "none" => maps[a] = Empty

\* Two names of objects no key tells apart: the bytes of a key hold no more.
LongNamesAlike(r, o) ==
  /\ Len(r) >= KeySize - 1 /\ Len(o) >= KeySize - 1
  /\ \A i \in 1 .. KeySize - 1 : r[i] = o[i]

\* After a success the hooks of four kinds refuse exactly the objects that a
\* rule of the answer names: every such port, path and file name, in whatever
\* byte order and cut off wherever the agent stores it and the hook looks it
\* up, and no other, but for paths and names alike as far as a key goes.
AppliedRulesBite ==
  \A a \in Agents : pc[a] = "idle" /\ outcome[a] = "applied" =>
    \A k \in Kinds \ {IPV4} : \A o \in RuleKeys[k] : Parses(k, o) =>
      (Refuses(k, maps[a][k], o) <=>
         \E r \in fetched[a][k] :
           r = o \/ (k \in {EXEC, WRITE} /\ LongNamesAlike(r, o)))

\* The same of lsm/socket_connect, which docs/architecture.md:35 calls inline
\* IPv4 destination blocking.
AppliedAddressesBite ==
  \A a \in Agents : pc[a] = "idle" /\ outcome[a] = "applied" =>
    \A r \in fetched[a][IPV4] : Refuses(IPV4, maps[a][IPV4], r)

\* docs/architecture.md:64: LSM hooks return -EPERM for blocked actions. While
\* the agent runs, a key that is in force and that the policy wants before and
\* after a step is in force after the step.
NoGap ==
  [][\A a \in Agents : \A k \in Kinds : pc'[a] # "down" =>
       maps[a][k] \cap Wanted(a, k) \cap Wanted(a, k)' \subseteq maps'[a][k]]_vars

\* An agent that blocks its own way to the manager keeps the maps it has, for
\* as long as its process lives, whatever the operator does.
LockedOutStaysSo ==
  [][\A a \in Agents :
       pc[a] = "idle" /\ ManagerKey \in maps[a][IPV4] /\ pc'[a] # "down"
         => pc'[a] = "idle" /\ maps'[a] = maps[a]]_vars

\* The manager is up and the agent can reach it, read its answer and store it.
Served(a) == Reachable(a) /\ Readable(a) /\ Fits(a)

\* The maps hold what the policy now wants, unless they are being rewritten.
InForce(a) ==
  pc[a] \notin {"clearing", "filling"} => \A k \in Kinds : maps[a][k] = Wanted(a, k)

\* Once an agent is served for good it enforces the operator's last word, and
\* goes on applying it, whatever changes, crashes, lost answers, unreadable
\* rules and full maps there were before.
Converges ==
  \A a \in Agents :
    <>[]Served(a) => /\ <>[]InForce(a)
                     /\ []<>(pc[a] = "idle" /\ outcome[a] = "applied")

\* docs/architecture.md:62-63: the agent polls the policy and rewrites the
\* relevant maps; so the operator's last word on the ports reaches the agent.
PortsFollow ==
  \A a \in Agents : <>[](pc[a] = "idle" => maps[a][BIND] = Wanted(a, BIND))

\* The distribution is a fail-open copy of the policy: see PolicyReplica.
Replica == INSTANCE PolicyReplica WITH
  source    <- [a \in Agents |-> [k \in Kinds |-> Wanted(a, k)]],
  delivered <- [a \in Agents |-> [k \in Kinds |-> Answer(a, k)]],
  copy      <- maps

ReplicaSpec == Replica!Spec
===============================================================================
