--------------------------- MODULE PolicySyncProofs ---------------------------
(***************************************************************************)
(* Proofs about PolicySync, for any agents, rules, legacy tables, map      *)
(* sizes and bounds that satisfy PolicyStoreAssumption and                 *)
(* PolicySyncAssumption. That the hooks look up what the agent stores is   *)
(* proved from the two sides' conversions, for every port and for texts of *)
(* any length.                                                             *)
(***************************************************************************)
EXTENDS PolicySync, PolicyStoreProofs, SequenceTheorems

LEMMA KeysOfMonotone ==
  ASSUME NEW k, NEW S, NEW T, S \subseteq T
  PROVE  KeysOf(k, S) \subseteq KeysOf(k, T)
BY DEF KeysOf

LEMMA ListedInRuleKeys ==
  ASSUME NEW tables, NEW k, NEW scope
  PROVE  Listed(tables, k, scope) \subseteq RuleKeys[k]
BY DEF Listed

LEMMA KindsAre == IPV4 \in Kinds /\ PTRACE \in Kinds /\ Kinds \subseteq Int
BY DEF Kinds, IPV4, PTRACE

\* The part of TypeOK that is not about the store.
AgentTypeOK ==
  /\ pc \in [Agents -> Points]
  /\ stage \in [Agents -> Kinds]
  /\ outcome \in [Agents -> Outcomes]
  /\ PerKind(fetched) /\ PerKind(maps) /\ PerKind(before)
  /\ \A a \in Agents : \A k \in Kinds :
       /\ fetched[a][k] \subseteq RuleKeys[k]
       /\ maps[a][k] \subseteq KeysOf(k, RuleKeys[k])
       /\ before[a][k] \subseteq KeysOf(k, RuleKeys[k])
  /\ DOMAIN granted = Kinds
  /\ \A k \in Kinds : granted[k] \subseteq Rows(k)
  /\ faults \in 0 .. MaxFaults

LEMMA InitType == Init => TypeOK
<1>1. SUFFICES ASSUME Init PROVE TypeOK
  OBVIOUS
<1>2. StoreTypeOK
  BY <1>1, StoreInitType DEF Init
<1>3. PerKind(fetched) /\ PerKind(maps) /\ PerKind(before)
  BY <1>1 DEF Init, PerKind, Empty
<1>4. \A a \in Agents : \A k \in Kinds :
        fetched[a][k] = {} /\ maps[a][k] = {} /\ before[a][k] = {}
  BY <1>1 DEF Init, Empty
<1>5. DOMAIN granted = Kinds /\ \A k \in Kinds : granted[k] \subseteq Rows(k)
  BY <1>1 DEF Init, EnabledRows
<1>6. /\ pc \in [Agents -> Points] /\ stage \in [Agents -> Kinds]
      /\ outcome \in [Agents -> Outcomes] /\ faults \in 0 .. MaxFaults
  BY <1>1, KindsAre, PolicySyncAssumption DEF Init, Points, Outcomes
<1>7. QED BY <1>2, <1>3, <1>4, <1>5, <1>6 DEF TypeOK

LEMMA GrantType ==
  Grant => DOMAIN granted' = Kinds /\ (AgentTypeOK => \A k \in Kinds : granted'[k] \subseteq Rows(k))
BY DEF Grant, EnabledRows, AgentTypeOK

LEMMA FaultType == faults \in 0 .. MaxFaults /\ Fault => faults' \in 0 .. MaxFaults
BY PolicySyncAssumption DEF Fault

\* Each step of an agent keeps the shape of its variables.
LEMMA AgentStepType ==
  ASSUME AgentTypeOK, NEW a \in Agents,
         AgentStarts(a) \/ AgentCrashes(a) \/ LoseAnswer(a) \/ SyncStep(a)
  PROVE  AgentTypeOK'
<1> USE DEF PerKind
<1>1. CASE AgentStarts(a)
  BY <1>1 DEF AgentStarts, AgentTypeOK, Points
<1>2. CASE AgentCrashes(a)
  BY <1>2, FaultType, KindsAre DEF AgentCrashes, AgentTypeOK, Points, Outcomes, Empty
<1>3. CASE LoseAnswer(a)
  BY <1>3, FaultType DEF LoseAnswer, EndSync, AgentTypeOK, Points, Outcomes
<1>4. CASE StartSync(a)
  BY <1>4, KindsAre DEF StartSync, EndSync, AgentTypeOK, Points, Outcomes
<1>5. CASE ReadTable(a)
  <2>1. fetched' = [fetched EXCEPT ![a][stage[a]] = PolicyFor(a, stage[a])]
    BY <1>5 DEF ReadTable
  <2>2. PolicyFor(a, stage[a]) \subseteq RuleKeys[stage[a]]
    BY ListedInRuleKeys DEF PolicyFor
  <2>3. \A b \in Agents : \A k \in Kinds : fetched'[b][k] \subseteq RuleKeys[k]
    BY <2>1, <2>2 DEF AgentTypeOK
  <2>4. PerKind(fetched)'
    BY <2>1 DEF AgentTypeOK
  <2>5. pc' \in [Agents -> Points] /\ stage' \in [Agents -> Kinds]
    BY <1>5 DEF ReadTable, AgentTypeOK, Points, Kinds, PTRACE
  <2>6. QED BY <1>5, <2>3, <2>4, <2>5 DEF ReadTable, AgentTypeOK
<1>6. CASE ReceiveAnswer(a)
  <2>1. \/ pc' = [pc EXCEPT ![a] = "clearing"] /\ stage' = [stage EXCEPT ![a] = IPV4]
           /\ UNCHANGED outcome
        \/ EndSync(a, "refused") /\ UNCHANGED stage
    BY <1>6 DEF ReceiveAnswer
  <2>2. /\ pc' \in [Agents -> Points] /\ stage' \in [Agents -> Kinds]
        /\ outcome' \in [Agents -> Outcomes]
    BY <2>1, KindsAre DEF EndSync, AgentTypeOK, Points, Outcomes
  <2>3. QED BY <1>6, <2>2 DEF ReceiveAnswer, AgentTypeOK
<1>7. CASE RemoveEntry(a)
  BY <1>7 DEF RemoveEntry, AgentTypeOK
<1>8. CASE MapCleared(a)
  BY <1>8 DEF MapCleared, AgentTypeOK, Points
<1>9. CASE InsertEntry(a)
  <2>1. Answer(a, stage[a]) \subseteq KeysOf(stage[a], RuleKeys[stage[a]])
    BY KeysOfMonotone DEF Answer, AgentTypeOK
  <2>2. QED BY <1>9, <2>1 DEF InsertEntry, Missing, AgentTypeOK
<1>10. CASE InsertFails(a)
  BY <1>10 DEF InsertFails, EndSync, AgentTypeOK, Points, Outcomes
<1>11. CASE MapFilled(a)
  BY <1>11 DEF MapFilled, EndSync, AgentTypeOK, Points, Outcomes, Kinds, PTRACE
<1>12. QED BY <1>1, <1>2, <1>3, <1>4, <1>5, <1>6, <1>7, <1>8, <1>9, <1>10, <1>11 DEF SyncStep

LEMMA StoreUnchangedType == StoreTypeOK /\ UNCHANGED storeVars => StoreTypeOK'
BY DEF StoreTypeOK, storeVars

LEMMA NextType == TypeOK /\ [Next]_vars => TypeOK'
<1>1. SUFFICES ASSUME StoreTypeOK, AgentTypeOK, [Next]_vars
               PROVE  StoreTypeOK' /\ AgentTypeOK'
  BY DEF TypeOK, AgentTypeOK
<1>2. CASE Operate
  <2>1. StoreTypeOK'
    BY <1>1, <1>2, RequestType DEF Operate
  <2>2. AgentTypeOK'
    BY <1>1, <1>2, GrantType DEF Operate, agentVars, AgentTypeOK, PerKind
  <2>3. QED BY <2>1, <2>2
<1>3. CASE ManagerCrashes
  <2>1. StoreTypeOK'
    BY <1>1, <1>3, ManagerType DEF ManagerCrashes
  <2>2. AgentTypeOK'
    BY <1>1, <1>3, FaultType
       DEF ManagerCrashes, AgentTypeOK, PerKind, Points, Outcomes
  <2>3. QED BY <2>1, <2>2
<1>4. CASE ManagerRestarts
  <2>1. StoreTypeOK'
    BY <1>1, <1>4, ManagerType DEF ManagerRestarts
  <2>2. AgentTypeOK'
    BY <1>1, <1>4, GrantType DEF ManagerRestarts, agentVars, AgentTypeOK, PerKind
  <2>3. QED BY <2>1, <2>2
<1>5. CASE \E a \in Agents :
             AgentStarts(a) \/ AgentCrashes(a) \/ LoseAnswer(a) \/ SyncStep(a)
  <2>1. UNCHANGED storeVars
    BY <1>5 DEF AgentStarts, AgentCrashes, LoseAnswer, SyncStep, StartSync,
       ReadTable, ReceiveAnswer, RemoveEntry, MapCleared, InsertEntry,
       InsertFails, MapFilled
  <2>2. QED BY <1>1, <1>5, <2>1, StoreUnchangedType, AgentStepType
<1>6. CASE UNCHANGED vars
  BY <1>1, <1>6, StoreUnchangedType DEF vars, agentVars, AgentTypeOK, PerKind
<1>7. QED BY <1>1, <1>2, <1>3, <1>4, <1>5, <1>6 DEF Next

\* The variables keep their shape; in particular no map ever holds a key that
\* is not the key of a readable rule.
THEOREM TypeCorrect == Spec => []TypeOK
BY InitType, NextType, PTL DEF Spec

-------------------------------------------------------------------------------

\* A rule in granted gives agent a the right to a map key.
GrantedTo(a, k, r) == \E row \in granted[k] : row[1] = r /\ row[2] \in {Global, a}

\* Isolation is not inductive: an entry comes from the answer, the answer from
\* the tables, and each of the three has to be within granted.
IsolationInv ==
  /\ \A k \in Kinds : EnabledRows(rules, k) \subseteq granted[k]
  /\ \A a \in Agents : \A k \in Kinds : \A r \in fetched[a][k] : GrantedTo(a, k, r)
  /\ Isolation

LEMMA IsolationInit == Init => IsolationInv
<1>1. SUFFICES ASSUME Init PROVE IsolationInv
  OBVIOUS
<1>2. \A a \in Agents : \A k \in Kinds : fetched[a][k] = {} /\ maps[a][k] = {}
  BY <1>1 DEF Init, Empty
<1>3. \A k \in Kinds : EnabledRows(rules, k) \subseteq granted[k]
  BY <1>1 DEF Init
<1>4. QED BY <1>2, <1>3 DEF IsolationInv, Isolation

\* A change of the tables extends granted and leaves the agents alone.
LEMMA IsolationGrant ==
  ASSUME IsolationInv, Grant, fetched' = fetched, maps' = maps
  PROVE  IsolationInv'
<1>1. \A k \in Kinds : granted[k] \subseteq granted'[k]
  BY DEF Grant
<1>2. \A k \in Kinds : EnabledRows(rules', k) \subseteq granted'[k]
  BY DEF Grant
<1>3. ASSUME NEW a \in Agents, NEW k \in Kinds, NEW r \in fetched'[a][k]
      PROVE  GrantedTo(a, k, r)'
  BY <1>1, <1>3 DEF IsolationInv, GrantedTo
<1>4. Isolation'
  BY <1>1 DEF IsolationInv, Isolation
<1>5. QED BY <1>2, <1>3, <1>4 DEF IsolationInv

\* The tables as they are, what is read for a sub-list or nothing, and the maps
\* with fewer entries: nothing new to justify.
LEMMA IsolationShrink ==
  ASSUME IsolationInv, rules' = rules, granted' = granted,
         \A a \in Agents : \A k \in Kinds :
           fetched'[a][k] \subseteq fetched[a][k] /\ maps'[a][k] \subseteq maps[a][k]
  PROVE  IsolationInv'
<1>1. \A k \in Kinds : EnabledRows(rules', k) \subseteq granted'[k]
  BY DEF IsolationInv
<1>2. ASSUME NEW a \in Agents, NEW k \in Kinds, NEW r \in fetched'[a][k]
      PROVE  GrantedTo(a, k, r)'
  BY <1>2 DEF IsolationInv, GrantedTo
<1>3. Isolation'
  BY DEF IsolationInv, Isolation
<1>4. QED BY <1>1, <1>2, <1>3 DEF IsolationInv

\* What the handler lists for an agent is granted to it.
LEMMA ListedGranted ==
  ASSUME IsolationInv, NEW a \in Agents, NEW k \in Kinds, NEW r \in PolicyFor(a, k)
  PROVE  GrantedTo(a, k, r)
<1>1. PICK s \in {Global, a} : rules[k][<<r, s>>] = "on"
  BY PolicyStoreAssumption DEF PolicyFor, Listed, VisibleTo
<1>2. r \in RuleKeys[k] /\ s \in Scopes
  BY <1>1 DEF PolicyFor, Listed, Scopes
<1>3. <<r, s>> \in EnabledRows(rules, k)
  BY <1>1, <1>2 DEF EnabledRows, Rows
<1>4. QED BY <1>3 DEF IsolationInv, GrantedTo

LEMMA IsolationRead ==
  ASSUME TypeOK, IsolationInv, NEW a \in Agents, ReadTable(a)
  PROVE  IsolationInv'
<1>1. /\ rules' = rules /\ granted' = granted /\ maps' = maps
      /\ fetched' = [fetched EXCEPT ![a][stage[a]] = PolicyFor(a, stage[a])]
      /\ stage[a] \in Kinds
  BY DEF ReadTable, storeVars, TypeOK
<1>2. ASSUME NEW b \in Agents, NEW k \in Kinds, NEW r \in fetched'[b][k]
      PROVE  GrantedTo(b, k, r)
  <2>1. CASE b = a /\ k = stage[a]
    BY <1>1, <1>2, <2>1, ListedGranted DEF TypeOK, PerKind
  <2>2. CASE ~(b = a /\ k = stage[a])
    BY <1>1, <1>2, <2>2 DEF IsolationInv, TypeOK, PerKind
  <2>3. QED BY <2>1, <2>2
<1>3. QED BY <1>1, <1>2 DEF IsolationInv, Isolation, GrantedTo

LEMMA IsolationInsert ==
  ASSUME TypeOK, IsolationInv, NEW a \in Agents, InsertEntry(a)
  PROVE  IsolationInv'
<1>1. /\ rules' = rules /\ granted' = granted /\ fetched' = fetched
      /\ stage[a] \in Kinds
  BY DEF InsertEntry, storeVars, TypeOK
<1>2. PICK key \in Missing(a) :
        maps' = [maps EXCEPT ![a][stage[a]] = maps[a][stage[a]] \cup {key}]
  BY DEF InsertEntry
<1>3. PICK r \in fetched[a][stage[a]] : Parses(stage[a], r) /\ MapKey(stage[a], r) = key
  BY <1>2 DEF Missing, Answer, KeysOf
<1>4. PICK row \in granted[stage[a]] : row[1] = r /\ row[2] \in {Global, a}
  BY <1>1, <1>3 DEF IsolationInv, GrantedTo
<1>5. ASSUME NEW b \in Agents, NEW k \in Kinds, NEW new \in maps'[b][k]
      PROVE  \E other \in granted[k] :
               /\ other[2] \in {Global, b}
               /\ Parses(k, other[1])
               /\ MapKey(k, other[1]) = new
  <2>1. CASE b = a /\ k = stage[a] /\ new = key
    BY <1>3, <1>4, <2>1
  <2>2. CASE ~(b = a /\ k = stage[a] /\ new = key)
    <3>1. new \in maps[b][k]
      BY <1>1, <1>2, <1>5, <2>2 DEF TypeOK, PerKind
    <3>2. QED BY <3>1 DEF IsolationInv, Isolation
  <2>3. QED BY <2>1, <2>2
<1>6. Isolation'
  BY <1>1, <1>5 DEF Isolation
<1>7. QED BY <1>1, <1>6 DEF IsolationInv, GrantedTo

LEMMA IsolationStep == TypeOK /\ IsolationInv /\ [Next]_vars => IsolationInv'
<1>1. SUFFICES ASSUME TypeOK, IsolationInv, [Next]_vars PROVE IsolationInv'
  OBVIOUS
<1>2. CASE Operate \/ ManagerRestarts
  BY <1>1, <1>2, IsolationGrant DEF Operate, ManagerRestarts, agentVars
<1>3. CASE ManagerCrashes \/ UNCHANGED vars
  BY <1>1, <1>3, IsolationShrink
     DEF ManagerCrashes, ManagerStops, vars, storeVars, agentVars
<1>4. ASSUME NEW a \in Agents,
             AgentStarts(a) \/ AgentCrashes(a) \/ LoseAnswer(a) \/ SyncStep(a)
      PROVE  IsolationInv'
  <2>1. CASE ReadTable(a)
    BY <1>1, <2>1, IsolationRead
  <2>2. CASE InsertEntry(a)
    BY <1>1, <2>2, IsolationInsert
  <2>3. CASE AgentCrashes(a) \/ RemoveEntry(a)
    <3>1. rules' = rules /\ granted' = granted
      BY <2>3 DEF AgentCrashes, RemoveEntry, storeVars
    <3>2. \A b \in Agents : \A k \in Kinds :
            fetched'[b][k] \subseteq fetched[b][k] /\ maps'[b][k] \subseteq maps[b][k]
      BY <1>1, <2>3 DEF AgentCrashes, RemoveEntry, Empty, TypeOK, PerKind
    <3>3. QED BY <1>1, <3>1, <3>2, IsolationShrink
  <2>4. CASE \/ AgentStarts(a) \/ LoseAnswer(a) \/ StartSync(a) \/ ReceiveAnswer(a)
             \/ MapCleared(a) \/ InsertFails(a) \/ MapFilled(a)
    <3>1. /\ rules' = rules /\ granted' = granted
          /\ fetched' = fetched /\ maps' = maps
      BY <2>4 DEF AgentStarts, LoseAnswer, StartSync, ReceiveAnswer, MapCleared,
         InsertFails, MapFilled, storeVars
    <3>2. QED BY <1>1, <3>1, IsolationShrink
  <2>5. QED BY <1>4, <2>1, <2>2, <2>3, <2>4 DEF SyncStep
<1>5. QED BY <1>1, <1>2, <1>3, <1>4 DEF Next

\* An agent never enforces a rule that no operator enabled for it or for all.
THEOREM IsolationHolds == Spec => []Isolation
<1>1. IsolationInv => Isolation
  BY DEF IsolationInv
<1>2. QED BY <1>1, IsolationInit, IsolationStep, TypeCorrect, PTL DEF Spec

-------------------------------------------------------------------------------

\* The maps before map n hold the answer, those behind it what they held when
\* the call of sync_policy began.
Split(a, n) ==
  /\ \A k \in Kinds : k < n => maps[a][k] = Answer(a, k)
  /\ \A k \in Kinds : k > n => maps[a][k] = before[a][k]

AllRead(a) == \A k \in Kinds : \A r \in fetched[a][k] : Parses(k, r)

\* RewriteInOrder and SyncOutcome for one agent, with what makes them
\* inductive: an answer in use is one that was read in full, and an agent that
\* is down has empty maps.
OrderOK(a) ==
  /\ pc[a] = "down" => outcome[a] = "none" /\ maps[a] = Empty
  /\ pc[a] \in {"asking", "answered"} => maps[a] = before[a]
  /\ pc[a] = "clearing" => /\ AllRead(a) /\ Split(a, stage[a])
                          /\ maps[a][stage[a]] \subseteq before[a][stage[a]]
  /\ pc[a] = "filling" => /\ AllRead(a) /\ Split(a, stage[a])
                         /\ maps[a][stage[a]] \subseteq Answer(a, stage[a])
  /\ pc[a] = "idle" =>
       /\ outcome[a] = "applied" =>
            AllRead(a) /\ \A k \in Kinds : maps[a][k] = Answer(a, k)
       /\ outcome[a] = "refused" => maps[a] = before[a]
       /\ outcome[a] = "partial" =>
            MapFull(a) /\ Missing(a) # {} /\ Split(a, stage[a])
       /\ outcome[a] = "none" => maps[a] = Empty

OrderInv == \A a \in Agents : OrderOK(a)

LEMMA OrderImplies == OrderInv => RewriteInOrder /\ SyncOutcome
BY DEF OrderInv, OrderOK, AllRead, Split, RewriteInOrder, SyncOutcome

LEMMA OrderInit == Init => OrderInv
BY DEF Init, OrderInv, OrderOK

\* An agent whose variables stay as they are stays in order.
LEMMA OrderFrame ==
  ASSUME NEW a \in Agents, OrderOK(a),
         pc'[a] = pc[a], stage'[a] = stage[a], fetched'[a] = fetched[a],
         maps'[a] = maps[a], before'[a] = before[a], outcome'[a] = outcome[a]
  PROVE  OrderOK(a)'
<1>1. \A k : Answer(a, k)' = Answer(a, k)
  BY DEF Answer
<1>2. Missing(a)' = Missing(a) /\ MapFull(a)' = MapFull(a)
  BY <1>1 DEF Missing, MapFull
<1>3. AllRead(a)' = AllRead(a)
  BY DEF AllRead
<1>4. Split(a, stage[a])' = Split(a, stage[a])
  BY <1>1 DEF Split
<1>5. QED BY <1>1, <1>2, <1>3, <1>4 DEF OrderOK

\* A step of one agent leaves the variables of the others alone.
LEMMA OthersFrame ==
  ASSUME TypeOK, NEW a \in Agents, NEW b \in Agents, b # a,
         AgentStarts(a) \/ AgentCrashes(a) \/ LoseAnswer(a) \/ SyncStep(a)
  PROVE  /\ pc'[b] = pc[b] /\ stage'[b] = stage[b] /\ fetched'[b] = fetched[b]
         /\ maps'[b] = maps[b] /\ before'[b] = before[b]
         /\ outcome'[b] = outcome[b]
<1> USE DEF TypeOK, PerKind, EndSync
<1>1. CASE AgentStarts(a) \/ AgentCrashes(a) \/ LoseAnswer(a)
  BY <1>1 DEF AgentStarts, AgentCrashes, LoseAnswer
<1>2. CASE StartSync(a) \/ ReadTable(a)
  BY <1>2 DEF StartSync, ReadTable
<1>3. CASE ReceiveAnswer(a)
  <2>1. \/ pc' = [pc EXCEPT ![a] = "clearing"] /\ stage' = [stage EXCEPT ![a] = IPV4]
           /\ UNCHANGED outcome
        \/ EndSync(a, "refused") /\ UNCHANGED stage
    BY <1>3 DEF ReceiveAnswer
  <2>2. UNCHANGED <<fetched, maps, before>>
    BY <1>3 DEF ReceiveAnswer
  <2>3. QED BY <2>1, <2>2
<1>4. CASE RemoveEntry(a) \/ InsertEntry(a)
  BY <1>4 DEF RemoveEntry, InsertEntry
<1>5. CASE MapCleared(a) \/ InsertFails(a) \/ MapFilled(a)
  BY <1>5 DEF MapCleared, InsertFails, MapFilled
<1>6. QED BY <1>1, <1>2, <1>3, <1>4, <1>5 DEF SyncStep

\* The steps of an agent outside the rewriting of its maps.
LEMMA OrderOutside ==
  ASSUME TypeOK, NEW a \in Agents, OrderOK(a),
         \/ AgentStarts(a) \/ AgentCrashes(a) \/ LoseAnswer(a)
         \/ StartSync(a) \/ ReadTable(a)
  PROVE  OrderOK(a)'
<1> USE DEF TypeOK, PerKind, EndSync
<1>1. CASE AgentStarts(a)
  <2>1. pc'[a] = "idle" /\ outcome'[a] = "none" /\ maps'[a] = Empty
    BY <1>1 DEF AgentStarts, OrderOK
  <2>2. QED BY <2>1 DEF OrderOK
<1>2. CASE AgentCrashes(a)
  <2>1. pc'[a] = "down" /\ outcome'[a] = "none" /\ maps'[a] = Empty
    BY <1>2 DEF AgentCrashes
  <2>2. QED BY <2>1 DEF OrderOK
<1>3. CASE LoseAnswer(a)
  <2>1. pc'[a] = "idle" /\ outcome'[a] = "refused" /\ maps'[a] = before'[a]
    BY <1>3 DEF LoseAnswer, OrderOK
  <2>2. QED BY <2>1 DEF OrderOK
<1>4. CASE StartSync(a)
  <2>1. \/ pc'[a] = "asking"
        \/ pc'[a] = "idle" /\ outcome'[a] = "refused"
    BY <1>4 DEF StartSync
  <2>2. maps'[a] = before'[a]
    BY <1>4 DEF StartSync
  <2>3. QED BY <2>1, <2>2 DEF OrderOK
<1>5. CASE ReadTable(a)
  <2>1. pc'[a] \in {"asking", "answered"} /\ maps'[a] = before'[a]
    BY <1>5 DEF ReadTable, OrderOK
  <2>2. QED BY <2>1 DEF OrderOK
<1>6. QED BY <1>1, <1>2, <1>3, <1>4, <1>5

\* The answer is accepted: nothing has changed yet, so the maps are split
\* before the first of them.
LEMMA OrderReceive ==
  ASSUME TypeOK, NEW a \in Agents, OrderOK(a), ReceiveAnswer(a)
  PROVE  OrderOK(a)'
<1> USE DEF TypeOK, PerKind, EndSync
<1>1. maps' = maps /\ before' = before /\ fetched' = fetched /\ maps[a] = before[a]
  BY DEF ReceiveAnswer, OrderOK
<1>2. CASE AllRead(a)
  <2>1. pc'[a] = "clearing" /\ stage'[a] = IPV4
    BY <1>2 DEF ReceiveAnswer, AllRead
  <2>2. AllRead(a)'
    BY <1>1, <1>2 DEF AllRead
  <2>3. Split(a, stage[a])'
    BY <1>1, <2>1 DEF Split, Kinds, IPV4
  <2>4. maps'[a][stage'[a]] \subseteq before'[a][stage'[a]]
    BY <1>1
  <2>5. QED BY <2>1, <2>2, <2>3, <2>4 DEF OrderOK
<1>3. CASE ~AllRead(a)
  <2>1. pc'[a] = "idle" /\ outcome'[a] = "refused"
    BY <1>3 DEF ReceiveAnswer, AllRead
  <2>2. QED BY <1>1, <2>1 DEF OrderOK
<1>4. QED BY <1>2, <1>3

\* One entry goes or comes in the map at work.
LEMMA OrderEntry ==
  ASSUME TypeOK, NEW a \in Agents, OrderOK(a), RemoveEntry(a) \/ InsertEntry(a)
  PROVE  OrderOK(a)'
<1> USE DEF TypeOK, PerKind
<1>1. /\ pc' = pc /\ stage' = stage /\ fetched' = fetched /\ before' = before
      /\ pc[a] \in {"clearing", "filling"}
  BY DEF RemoveEntry, InsertEntry
<1>2. \A k \in Kinds : k # stage[a] => maps'[a][k] = maps[a][k]
  BY DEF RemoveEntry, InsertEntry
<1>3. \A k : Answer(a, k)' = Answer(a, k)
  BY <1>1 DEF Answer
<1>4. AllRead(a)' /\ Split(a, stage[a])'
  BY <1>1, <1>2, <1>3 DEF OrderOK, AllRead, Split, Kinds
<1>5. CASE RemoveEntry(a)
  <2>1. pc[a] = "clearing" /\ maps'[a][stage[a]] \subseteq maps[a][stage[a]]
    BY <1>5 DEF RemoveEntry
  <2>2. QED BY <1>1, <1>4, <2>1 DEF OrderOK
<1>6. CASE InsertEntry(a)
  <2>1. pc[a] = "filling"
    BY <1>6 DEF InsertEntry
  <2>2. maps'[a][stage[a]] \subseteq Answer(a, stage[a])
    BY <1>6, <2>1 DEF InsertEntry, Missing, OrderOK
  <2>3. QED BY <1>1, <1>3, <1>4, <2>1, <2>2 DEF OrderOK
<1>7. QED BY <1>5, <1>6

\* A map is cleared, is full, or is filled.
LEMMA OrderMapDone ==
  ASSUME TypeOK, NEW a \in Agents, OrderOK(a),
         MapCleared(a) \/ InsertFails(a) \/ MapFilled(a)
  PROVE  OrderOK(a)'
<1> USE DEF TypeOK, PerKind, EndSync
<1>1. maps' = maps /\ fetched' = fetched /\ before' = before
  BY DEF MapCleared, InsertFails, MapFilled
<1>2. \A k : Answer(a, k)' = Answer(a, k)
  BY <1>1 DEF Answer
<1>3. /\ AllRead(a)' = AllRead(a)
      /\ \A n : Split(a, n)' = Split(a, n)
  BY <1>1, <1>2 DEF AllRead, Split
<1>4. AllRead(a) /\ Split(a, stage[a])
  BY DEF OrderOK, MapCleared, InsertFails, MapFilled
<1>5. CASE MapCleared(a)
  <2>1. /\ pc'[a] = "filling" /\ stage'[a] = stage[a]
        /\ maps'[a][stage[a]] = {}
    BY <1>5 DEF MapCleared
  <2>2. Split(a, stage[a])'
    BY <1>1, <1>2, <1>4, <2>1 DEF Split
  <2>3. QED BY <1>3, <1>4, <2>1, <2>2 DEF OrderOK
<1>6. CASE InsertFails(a)
  <2>1. /\ pc'[a] = "idle" /\ outcome'[a] = "partial" /\ stage'[a] = stage[a]
        /\ MapFull(a) /\ Missing(a) # {}
    BY <1>6 DEF InsertFails
  <2>2. MapFull(a)' /\ (Missing(a) # {})'
    BY <1>1, <1>2, <2>1 DEF MapFull, Missing
  <2>3. Split(a, stage[a])'
    BY <1>1, <1>2, <1>4, <2>1 DEF Split
  <2>4. QED BY <2>1, <2>2, <2>3 DEF OrderOK
<1>7. CASE MapFilled(a)
  <2>1. pc[a] = "filling" /\ Answer(a, stage[a]) = maps[a][stage[a]]
    BY <1>7 DEF MapFilled, Missing, OrderOK
  <2>2. CASE stage[a] = PTRACE
    <3>1. pc'[a] = "idle" /\ outcome'[a] = "applied"
      BY <1>7, <2>2 DEF MapFilled
    <3>2. \A k \in Kinds : maps'[a][k] = Answer(a, k)'
      BY <1>1, <1>2, <1>4, <2>1, <2>2 DEF Split, Kinds, PTRACE
    <3>3. QED BY <1>3, <1>4, <3>1, <3>2 DEF OrderOK
  <2>3. CASE stage[a] # PTRACE
    <3>1. /\ pc'[a] = "clearing" /\ stage'[a] = stage[a] + 1
          /\ stage[a] + 1 \in Kinds
      BY <1>7, <2>3 DEF MapFilled, Kinds, PTRACE
    <3>2. Split(a, stage[a] + 1)
      BY <1>4, <2>1, <3>1 DEF Split, Kinds
    <3>3. maps[a][stage[a] + 1] = before[a][stage[a] + 1]
      BY <1>4, <3>1 DEF Split, Kinds
    <3>4. Split(a, stage[a])'
      BY <1>1, <1>2, <3>1, <3>2 DEF Split
    <3>5. QED BY <1>1, <1>3, <1>4, <3>1, <3>3, <3>4 DEF OrderOK
  <2>4. QED BY <2>2, <2>3
<1>8. QED BY <1>5, <1>6, <1>7

LEMMA OrderStep == TypeOK /\ OrderInv /\ [Next]_vars => OrderInv'
<1>1. SUFFICES ASSUME TypeOK, OrderInv, [Next]_vars, NEW b \in Agents
               PROVE  OrderOK(b)'
  BY DEF OrderInv
<1>2. OrderOK(b)
  BY <1>1 DEF OrderInv
<1>3. CASE Operate \/ ManagerRestarts \/ UNCHANGED vars
  BY <1>1, <1>2, <1>3, OrderFrame DEF Operate, ManagerRestarts, vars, agentVars
<1>4. CASE ManagerCrashes
  <2>1. UNCHANGED <<stage, fetched, maps, before>>
    BY <1>4 DEF ManagerCrashes
  <2>2. CASE pc[b] = "asking"
    <3>1. pc'[b] = "idle" /\ outcome'[b] = "refused" /\ maps'[b] = before'[b]
      BY <1>1, <1>2, <1>4, <2>1, <2>2 DEF ManagerCrashes, OrderOK
    <3>2. QED BY <3>1 DEF OrderOK
  <2>3. CASE pc[b] # "asking"
    <3>1. pc'[b] = pc[b] /\ outcome'[b] = outcome[b]
      BY <1>1, <1>4, <2>3 DEF ManagerCrashes
    <3>2. QED BY <1>2, <2>1, <3>1, OrderFrame
  <2>4. QED BY <2>2, <2>3
<1>5. ASSUME NEW a \in Agents,
             AgentStarts(a) \/ AgentCrashes(a) \/ LoseAnswer(a) \/ SyncStep(a)
      PROVE  OrderOK(b)'
  <2>1. CASE a = b
    BY <1>1, <1>2, <1>5, <2>1, OrderOutside, OrderReceive, OrderEntry, OrderMapDone
       DEF SyncStep
  <2>2. CASE a # b
    BY <1>1, <1>2, <1>5, <2>2, OthersFrame, OrderFrame
  <2>3. QED BY <2>1, <2>2
<1>6. QED BY <1>1, <1>3, <1>4, <1>5 DEF Next

LEMMA OrderHolds == Spec => []OrderInv
BY OrderInit, OrderStep, TypeCorrect, PTL DEF Spec

\* The maps are rewritten one after the other, each old until its turn and new
\* after it, and none is touched before the answer has been read in full.
THEOREM RewriteInOrderHolds == Spec => []RewriteInOrder
BY OrderHolds, OrderImplies, PTL

\* However a call of sync_policy ends, it leaves the maps as SyncOutcome says.
THEOREM SyncOutcomeHolds == Spec => []SyncOutcome
BY OrderHolds, OrderImplies, PTL

LEMMA KindsDiffer ==
  /\ IPV4 # BIND /\ IPV4 \notin {EXEC, WRITE} /\ IPV4 # PTRACE
  /\ BIND \notin {EXEC, WRITE} /\ BIND # PTRACE /\ PTRACE \notin {EXEC, WRITE}
BY DEF IPV4, BIND, EXEC, WRITE, PTRACE

LEMMA PortsAreSmall ==
  ASSUME NEW n \in Ports
  PROVE  n \in Int /\ 0 <= n /\ n < 65536
BY DEF Ports

LEMMA Halves ==
  ASSUME NEW n \in Int, 0 <= n, n < 65536
  PROVE  /\ n \div 256 \in Int /\ 0 <= n \div 256 /\ n \div 256 < 256
         /\ n % 256 \in Int /\ 0 <= n % 256 /\ n % 256 < 256
         /\ n = 256 * (n \div 256) + (n % 256)
OBVIOUS

\* A port goes into the map as it comes out of the sockaddr: loaded, swapped
\* and stored it has the bytes of the number the operator gave.
LEMMA PortKeys ==
  ASSUME NEW n \in Int, 0 <= n, n < 65536
  PROVE  HookKey(BIND, n) = MapKey(BIND, n)
<1> DEFINE h == n \div 256
           l == n % 256
<1>1. /\ h \in Int /\ l \in Int /\ 0 <= h /\ h < 256 /\ 0 <= l /\ l < 256
      /\ n = 256 * h + l
  BY Halves
<1>2. Load16(Network16(n)) = h + 256 * l
  BY DEF Load16, Network16
<1> HIDE DEF h, l
<1>3. (h + 256 * l) % 256 = h /\ (h + 256 * l) \div 256 = l
  BY <1>1
<1>4. Bswap16(h + 256 * l) = 256 * h + l
  BY <1>3 DEF Bswap16
<1>5. Bswap16(Load16(Network16(n))) = n
  BY <1>1, <1>2, <1>4
<1>6. HookKey(BIND, n) = Native16(Bswap16(Load16(Network16(n))))
  BY KindsDiffer DEF HookKey
<1>7. MapKey(BIND, n) = Native16(n)
  BY KindsDiffer DEF MapKey
<1>8. QED BY <1>5, <1>6, <1>7

LEMMA PortKeysDiffer ==
  ASSUME NEW m \in Int, NEW n \in Int, 0 <= m, m < 65536, 0 <= n, n < 65536,
         MapKey(BIND, m) = MapKey(BIND, n)
  PROVE  m = n
<1>1. Native16(m) = Native16(n)
  BY KindsDiffer DEF MapKey
<1>2. m % 256 = n % 256 /\ m \div 256 = n \div 256
  BY <1>1 DEF Native16
<1>3. QED BY <1>2, Halves

\* The bytes of a text a key has room for.
KeyRoom == KeySize - 1

LEMMA KeyRoomType == KeyRoom \in Nat /\ 1 <= KeyRoom
BY PolicyKeysAssumption DEF KeyRoom

\* from_str and bpf_probe_read_kernel_str cut a text off at the same place.
LEMMA TextKeys ==
  ASSUME NEW text \in Seq(Bytes)
  PROVE  KernelStr(text) = StringKey(text)
<1>1. SubSeq(text, 1, Len(text)) = text
  OBVIOUS
<1>2. Len(text) < KeySize <=> Len(text) <= KeySize - 1
  BY PolicyKeysAssumption
<1>3. QED BY <1>1, <1>2 DEF KernelStr, StringKey

LEMMA LenIsInt == \A s \in Seq(Bytes) : Len(s) \in Int
OBVIOUS

LEMMA Cut ==
  ASSUME NEW n \in Int
  PROVE  (IF n <= KeyRoom THEN n ELSE KeyRoom) = IF n < KeyRoom THEN n ELSE KeyRoom
BY KeyRoomType

LEMMA TextKeyIs ==
  ASSUME NEW s \in Seq(Bytes)
  PROVE  /\ Len(s) < KeyRoom => StringKey(s) = s
         /\ ~(Len(s) < KeyRoom) => StringKey(s) = SubSeq(s, 1, KeyRoom)
<1>1. SubSeq(s, 1, Len(s)) = s
  OBVIOUS
<1>2. KeySize - 1 = KeyRoom
  BY DEF KeyRoom
<1>3. StringKey(s) = SubSeq(s, 1, IF Len(s) <= KeyRoom THEN Len(s) ELSE KeyRoom)
  BY <1>2 DEF StringKey
<1>4. StringKey(s) = SubSeq(s, 1, IF Len(s) < KeyRoom THEN Len(s) ELSE KeyRoom)
  BY <1>3, Cut, LenIsInt
<1>5. QED BY <1>1, <1>4

LEMMA LongTextKey ==
  ASSUME NEW s \in Seq(Bytes), ~(Len(s) < KeyRoom)
  PROVE  /\ StringKey(s) \in Seq(Bytes)
         /\ Len(StringKey(s)) = KeyRoom
         /\ \A i \in 1 .. KeyRoom : StringKey(s)[i] = s[i]
<1>1. \A n \in Int : ~(n < KeyRoom) => \A i \in 1 .. KeyRoom : i \in 1 .. n
  BY KeyRoomType
<1>2. \A i \in 1 .. KeyRoom : i \in 1 .. Len(s)
  BY <1>1, LenIsInt
<1>3. \A i \in 1 .. KeyRoom : s[i] \in Bytes
  BY <1>2, ElementOfSeq
<1>4. \A i \in 1 .. KeyRoom : 1 + i - 1 = i
  OBVIOUS
<1>5. KeyRoom \in Int /\ KeyRoom - 1 + 1 = KeyRoom /\ (IF 1 <= KeyRoom THEN KeyRoom - 1 + 1 ELSE 0) = KeyRoom
  BY KeyRoomType
<1>6. /\ SubSeq(s, 1, KeyRoom) \in Seq(Bytes)
      /\ Len(SubSeq(s, 1, KeyRoom)) = KeyRoom
      /\ \A i \in 1 .. KeyRoom : SubSeq(s, 1, KeyRoom)[i] = s[i]
  <2>1. /\ SubSeq(s, 1, KeyRoom) \in Seq(Bytes)
        /\ Len(SubSeq(s, 1, KeyRoom)) = IF 1 <= KeyRoom THEN KeyRoom - 1 + 1 ELSE 0
        /\ \A i \in 1 .. KeyRoom - 1 + 1 : SubSeq(s, 1, KeyRoom)[i] = s[1 + i - 1]
    BY <1>3, <1>5, SubSeqProperties
  <2>2. QED BY <1>4, <1>5, <2>1
<1>7. StringKey(s) = SubSeq(s, 1, KeyRoom)
  BY TextKeyIs
<1>8. QED BY <1>6, <1>7, Zenon

\* A long text and a short one have different keys.
LEMMA LongAndShort ==
  ASSUME NEW r \in Seq(Bytes), NEW o \in Seq(Bytes), ~(Len(r) < KeyRoom), Len(o) < KeyRoom
  PROVE  StringKey(r) # StringKey(o) /\ r # o
<1>1. \A n \in Int : n < KeyRoom => n # KeyRoom
  OBVIOUS
<1>2. Len(o) # KeyRoom
  BY <1>1, LenIsInt
<1>3. StringKey(o) = o
  BY TextKeyIs
<1>4. Len(StringKey(r)) = KeyRoom
  BY LongTextKey
<1>5. QED BY <1>2, <1>3, <1>4, Zenon

\* Two texts have one key when they are the same or alike as far as it goes.
LEMMA TextKeysDiffer ==
  ASSUME NEW r \in Seq(Bytes), NEW o \in Seq(Bytes)
  PROVE  StringKey(r) = StringKey(o) <=> r = o \/ LongNamesAlike(r, o)
<1>1. LongNamesAlike(r, o) <=>
        ~(Len(r) < KeyRoom) /\ ~(Len(o) < KeyRoom) /\ \A i \in 1 .. KeyRoom : r[i] = o[i]
  <2>1. KeySize - 1 = KeyRoom /\ \A n \in Int : n >= KeyRoom <=> ~(n < KeyRoom)
    BY KeyRoomType DEF KeyRoom
  <2>2. QED BY <2>1, LenIsInt DEF LongNamesAlike
<1>2. CASE ~(Len(r) < KeyRoom) /\ ~(Len(o) < KeyRoom)
  <2> DEFINE x == StringKey(r)
             y == StringKey(o)
  <2>1. /\ x \in Seq(Bytes) /\ Len(x) = KeyRoom /\ \A i \in 1 .. KeyRoom : x[i] = r[i]
        /\ y \in Seq(Bytes) /\ Len(y) = KeyRoom /\ \A i \in 1 .. KeyRoom : y[i] = o[i]
    BY <1>2, LongTextKey, Zenon
  <2> HIDE DEF x, y
  <2>2. x = y <=> \A i \in 1 .. KeyRoom : r[i] = o[i]
    <3>1. (\A i \in 1 .. KeyRoom : r[i] = o[i]) => \A i \in 1 .. Len(x) : x[i] = y[i]
      BY <2>1, Zenon
    <3>2. Len(x) = Len(y)
      BY <2>1, Zenon
    <3>3. (\A i \in 1 .. Len(x) : x[i] = y[i]) => x = y
      BY <2>1, <3>2, SeqEqual
    <3>4. ASSUME x = y, NEW i \in 1 .. KeyRoom
          PROVE  r[i] = o[i]
      <4>1. x[i] = r[i] /\ y[i] = o[i] /\ x[i] = y[i]
        BY <2>1, <3>4, Zenon
      <4>2. QED BY <4>1
    <3>5. QED BY <3>1, <3>3, <3>4, Zenon
  <2>3. r = o => x = y
    BY DEF x, y
  <2>4. QED BY <1>1, <1>2, <2>2, <2>3, Zenon DEF x, y
<1>3. CASE Len(r) < KeyRoom /\ Len(o) < KeyRoom
  BY <1>1, <1>3, TextKeyIs
<1>4. CASE ~(Len(r) < KeyRoom) /\ Len(o) < KeyRoom
  BY <1>1, <1>4, LongAndShort
<1>5. CASE Len(r) < KeyRoom /\ ~(Len(o) < KeyRoom)
  <2>1. StringKey(o) # StringKey(r) /\ o # r
    BY <1>5, LongAndShort
  <2>2. QED BY <1>1, <1>5, <2>1
<1>6. QED BY <1>2, <1>3, <1>4, <1>5

\* An object has the key of a rule when the rule names it.
LEMMA KeysAgree ==
  ASSUME NEW k \in Kinds \ {IPV4}, NEW r, NEW o, Parses(k, r), Parses(k, o),
         k \in {EXEC, WRITE} => r \in Seq(Bytes) /\ o \in Seq(Bytes),
         k = PTRACE => r = o
  PROVE  HookKey(k, o) = MapKey(k, r) <=>
           r = o \/ (k \in {EXEC, WRITE} /\ LongNamesAlike(r, o))
<1>1. CASE k = BIND
  <2>1. r \in Ports /\ o \in Ports
    BY <1>1 DEF Parses
  <2>2. /\ r \in Int /\ 0 <= r /\ r < 65536
        /\ o \in Int /\ 0 <= o /\ o < 65536
    BY <2>1, PortsAreSmall
  <2>3. k \notin {EXEC, WRITE}
    BY <1>1, KindsDiffer
  <2>4. QED BY <1>1, <2>2, <2>3, PortKeys, PortKeysDiffer
<1>2. CASE k \in {EXEC, WRITE}
  <2>1. r \in Seq(Bytes) /\ o \in Seq(Bytes)
    BY <1>2
  <2>2. HookKey(k, o) = KernelStr(o) /\ MapKey(k, r) = StringKey(r)
    <3>1. k # IPV4 /\ k # BIND /\ k # PTRACE
      BY <1>2, KindsDiffer
    <3>2. QED BY <1>2, <3>1 DEF HookKey, MapKey
  <2>3. KernelStr(o) = StringKey(o)
    BY <2>1, TextKeys
  <2>4. StringKey(r) = StringKey(o) <=> r = o \/ LongNamesAlike(r, o)
    BY <2>1, TextKeysDiffer
  <2>5. QED BY <1>2, <2>2, <2>3, <2>4
<1>3. CASE k = PTRACE
  <2>1. HookKey(k, o) = <<0>> /\ MapKey(k, r) = <<0>>
    <3>1. k # IPV4 /\ k # BIND /\ k \notin {EXEC, WRITE}
      BY <1>3, KindsDiffer
    <3>2. QED BY <1>3, <3>1 DEF HookKey, MapKey
  <2>2. QED BY <1>3, <2>1
<1>4. QED BY <1>1, <1>2, <1>3 DEF Kinds, IPV4, BIND, EXEC, WRITE, PTRACE

\* What is stored is what is looked up: after a success the hooks of four kinds
\* refuse what the rules of the answer name and nothing else.
THEOREM AppliedRulesBiteHolds == Spec => []AppliedRulesBite
<1>1. TypeOK /\ SyncOutcome => AppliedRulesBite
  <2>1. SUFFICES ASSUME TypeOK, SyncOutcome, NEW a \in Agents, pc[a] = "idle",
                        outcome[a] = "applied", NEW k \in Kinds \ {IPV4},
                        NEW o \in RuleKeys[k], Parses(k, o)
                 PROVE  Refuses(k, maps[a][k], o) <=>
                          \E r \in fetched[a][k] :
                            r = o \/ (k \in {EXEC, WRITE} /\ LongNamesAlike(r, o))
    BY DEF AppliedRulesBite
  <2>2. maps[a][k] = {MapKey(k, r) : r \in fetched[a][k]}
    BY <2>1 DEF SyncOutcome, Answer, KeysOf
  <2>3. ASSUME NEW r \in fetched[a][k]
        PROVE  HookKey(k, o) = MapKey(k, r) <=>
                 r = o \/ (k \in {EXEC, WRITE} /\ LongNamesAlike(r, o))
    <3>1. r \in RuleKeys[k] /\ Parses(k, r)
      BY <2>1, <2>3 DEF SyncOutcome, TypeOK
    <3>2. /\ k \in {EXEC, WRITE} => r \in Seq(Bytes) /\ o \in Seq(Bytes)
          /\ k = PTRACE => r = o
      BY <2>1, <3>1, PolicyStoreAssumption
    <3>3. QED BY <2>1, <3>1, <3>2, KeysAgree
  <2>4. QED BY <2>2, <2>3 DEF Refuses
<1>2. QED BY <1>1, SyncOutcomeHolds, TypeCorrect, PTL

-------------------------------------------------------------------------------

\* The variables of PolicyReplica as PolicySync implements them.
Source == [a \in Agents |-> [k \in Kinds |-> Wanted(a, k)]]
Delivered == [a \in Agents |-> [k \in Kinds |-> Answer(a, k)]]

LEMMA ReplicaInit == Init => Replica!Init
<1>1. SUFFICES ASSUME Init PROVE Replica!Init
  OBVIOUS
<1>2. maps = [a \in Agents |-> [k \in Kinds |-> {}]]
  BY <1>1 DEF Init, Empty
<1>3. \A a \in Agents : \A k \in Kinds : Answer(a, k) = {}
  BY <1>1 DEF Init, Empty, Answer, KeysOf
<1>4. QED BY <1>2, <1>3 DEF Replica!Init

\* Reading a table is the delivery of that kind.
LEMMA ReplicaRead ==
  ASSUME TypeOK, NEW a \in Agents, ReadTable(a)
  PROVE  Replica!Deliver(a, stage[a])
<1> DEFINE n == stage[a]
<1>1. /\ rules' = rules /\ maps' = maps /\ n \in Kinds
      /\ fetched' = [fetched EXCEPT ![a][n] = PolicyFor(a, n)]
  BY DEF ReadTable, storeVars, TypeOK
<1>2. Source' = Source
  BY <1>1 DEF Source, Wanted, PolicyFor
<1>3. ASSUME NEW b \in Agents, NEW k \in Kinds
      PROVE  Answer(b, k)' = IF b = a /\ k = n THEN Wanted(a, n) ELSE Answer(b, k)
  BY <1>1 DEF Answer, Wanted, TypeOK, PerKind
<1>4. Delivered' = [Delivered EXCEPT ![a][n] = Source[a][n]]
  BY <1>1, <1>3 DEF Delivered, Source
<1>5. QED BY <1>1, <1>2, <1>4 DEF Replica!Deliver, Source, Delivered

\* Neither the tables nor the answers change.
LEMMA ReplicaSame ==
  ASSUME rules' = rules, fetched' = fetched
  PROVE  Source' = Source /\ Delivered' = Delivered
BY DEF Source, Delivered, Wanted, Answer, PolicyFor

LEMMA ReplicaStep == TypeOK /\ OrderInv /\ [Next]_vars => [Replica!Next]_Replica!replicaVars
<1>1. SUFFICES ASSUME TypeOK, OrderInv, [Next]_vars
               PROVE  [Replica!Next]_Replica!replicaVars
  OBVIOUS
<1>2. CASE Operate \/ ManagerRestarts
  <2>1. fetched' = fetched /\ maps' = maps
    BY <1>2 DEF Operate, ManagerRestarts, agentVars
  <2>2. Delivered' = Delivered
    BY <2>1 DEF Delivered, Answer
  <2>3. QED BY <2>1, <2>2 DEF Replica!Next, Replica!SourceChanges, Replica!replicaVars,
              Source, Delivered
<1>3. CASE ManagerCrashes \/ UNCHANGED vars
  <2>1. rules' = rules /\ fetched' = fetched /\ maps' = maps
    BY <1>3 DEF ManagerCrashes, ManagerStops, vars, storeVars, agentVars
  <2>2. QED BY <2>1, ReplicaSame DEF Replica!replicaVars, Source, Delivered
<1>4. ASSUME NEW a \in Agents,
             AgentStarts(a) \/ AgentCrashes(a) \/ LoseAnswer(a) \/ SyncStep(a)
      PROVE  [Replica!Next]_Replica!replicaVars
  <2>1. CASE ReadTable(a)
    BY <1>1, <2>1, ReplicaRead DEF Replica!Next, TypeOK
  <2>2. CASE AgentCrashes(a)
    <3>1. rules' = rules /\ maps' = [maps EXCEPT ![a] = [k \in Kinds |-> {}]]
      BY <2>2 DEF AgentCrashes, storeVars, Empty
    <3>2. Source' = Source
      BY <3>1 DEF Source, Wanted, PolicyFor
    <3>3. \A b \in Agents : \A k \in Kinds :
            Answer(b, k)' = IF b = a THEN {} ELSE Answer(b, k)
      BY <1>1, <2>2 DEF AgentCrashes, Answer, KeysOf, Empty, TypeOK, PerKind
    <3>4. Delivered' = [Delivered EXCEPT ![a] = [k \in Kinds |-> {}]]
      BY <3>3 DEF Delivered
    <3>5. Replica!Vanish(a)
      BY <3>1, <3>2, <3>4 DEF Replica!Vanish, Source, Delivered
    <3>6. QED BY <3>5 DEF Replica!Next
  <2>3. CASE RemoveEntry(a)
    <3>1. rules' = rules /\ fetched' = fetched /\ stage[a] \in Kinds
      BY <1>1, <2>3 DEF RemoveEntry, storeVars, TypeOK
    <3>2. \E kept \in SUBSET maps[a][stage[a]] :
            maps' = [maps EXCEPT ![a][stage[a]] = kept]
      BY <2>3 DEF RemoveEntry
    <3>3. Replica!Shrink(a, stage[a])
      BY <3>1, <3>2, ReplicaSame DEF Replica!Shrink, Source, Delivered
    <3>4. QED BY <3>1, <3>3 DEF Replica!Next
  <2>4. CASE InsertEntry(a)
    <3>1. rules' = rules /\ fetched' = fetched /\ stage[a] \in Kinds
      BY <1>1, <2>4 DEF InsertEntry, storeVars, TypeOK
    <3>2. maps[a][stage[a]] \subseteq Delivered[a][stage[a]]
      BY <1>1, <2>4, <3>1 DEF InsertEntry, OrderInv, OrderOK, Delivered
    <3>3. \E key \in Delivered[a][stage[a]] :
            maps' = [maps EXCEPT ![a][stage[a]] = maps[a][stage[a]] \cup {key}]
      BY <2>4, <3>1 DEF InsertEntry, Missing, Delivered
    <3>4. Replica!Grow(a, stage[a])
      BY <3>1, <3>2, <3>3, ReplicaSame DEF Replica!Grow, Source, Delivered
    <3>5. QED BY <3>1, <3>4 DEF Replica!Next
  <2>5. CASE \/ AgentStarts(a) \/ LoseAnswer(a) \/ StartSync(a) \/ ReceiveAnswer(a)
             \/ MapCleared(a) \/ InsertFails(a) \/ MapFilled(a)
    <3>1. rules' = rules /\ fetched' = fetched /\ maps' = maps
      BY <2>5 DEF AgentStarts, LoseAnswer, StartSync, ReceiveAnswer, MapCleared,
         InsertFails, MapFilled, storeVars
    <3>2. QED BY <3>1, ReplicaSame DEF Replica!replicaVars, Source, Delivered
  <2>6. QED BY <1>4, <2>1, <2>2, <2>3, <2>4, <2>5 DEF SyncStep
<1>5. QED BY <1>1, <1>2, <1>3, <1>4 DEF Next

\* The distribution of the policy is the fail-open copy of PolicyReplica: what
\* an agent enforces of a kind is at any time a part of one list that the
\* manager's table held for that agent.
THEOREM SyncImplementsReplica == Spec => ReplicaSpec
<1>1. Spec => [][Replica!Next]_Replica!replicaVars
  BY ReplicaStep, TypeCorrect, OrderHolds, PTL DEF Spec
<1>2. QED BY <1>1, ReplicaInit, PTL DEF Spec, ReplicaSpec, Replica!Spec

-------------------------------------------------------------------------------

\* What a step of an idle agent that cannot reach the manager may do.
LEMMA LockedOutStep ==
  ASSUME TypeOK, [Next]_vars, NEW a \in Agents, pc[a] = "idle",
         ManagerKey \in maps[a][IPV4], pc'[a] # "down"
  PROVE  pc'[a] = "idle" /\ maps'[a] = maps[a]
<1>1. CASE Operate \/ ManagerRestarts \/ UNCHANGED vars
  BY <1>1 DEF Operate, ManagerRestarts, vars, agentVars
<1>2. CASE ManagerCrashes
  BY <1>2 DEF ManagerCrashes
<1>3. ASSUME NEW b \in Agents,
             AgentStarts(b) \/ AgentCrashes(b) \/ LoseAnswer(b) \/ SyncStep(b)
      PROVE  pc'[a] = "idle" /\ maps'[a] = maps[a]
  <2>1. CASE b # a
    BY <1>3, <2>1, OthersFrame
  <2>2. CASE b = a
    <3>1. StartSync(a) \/ AgentCrashes(a)
      BY <1>3, <2>2 DEF AgentStarts, LoseAnswer, SyncStep, ReadTable, ReceiveAnswer,
         RemoveEntry, MapCleared, InsertEntry, InsertFails, MapFilled
    <3>2. ~AgentCrashes(a)
      BY DEF AgentCrashes, TypeOK
    <3>3. ~Reachable(a)
      BY DEF Reachable
    <3>4. QED BY <3>1, <3>2, <3>3 DEF StartSync, EndSync, TypeOK
  <2>3. QED BY <2>1, <2>2
<1>4. QED BY <1>1, <1>2, <1>3 DEF Next

\* An agent whose own map refuses it the manager never sees another policy in
\* the life of its process.
THEOREM LockedOutStaysSoHolds == Spec => LockedOutStaysSo
<1>1. TypeOK /\ [Next]_vars =>
        [\A a \in Agents :
           pc[a] = "idle" /\ ManagerKey \in maps[a][IPV4] /\ pc'[a] # "down"
             => pc'[a] = "idle" /\ maps'[a] = maps[a]]_vars
  BY LockedOutStep
<1>2. QED BY <1>1, TypeCorrect, PTL DEF Spec, LockedOutStaysSo

-------------------------------------------------------------------------------

\* The distribution only reads the tables: every step is one of the store, or
\* leaves it alone.
THEOREM SyncImplementsStore == Spec => StoreSpec
<1>1. Init => StoreInit
  BY DEF Init
<1>2. [Next]_vars => [StoreNext]_storeVars
  <2> SUFFICES ASSUME [Next]_vars PROVE [StoreNext]_storeVars
    OBVIOUS
  <2>1. CASE Operate \/ ManagerCrashes \/ ManagerRestarts
    BY <2>1 DEF Operate, ManagerCrashes, ManagerRestarts, StoreNext
  <2>2. ASSUME NEW a \in Agents,
               AgentStarts(a) \/ AgentCrashes(a) \/ LoseAnswer(a) \/ SyncStep(a)
        PROVE  UNCHANGED storeVars
    BY <2>2 DEF AgentStarts, AgentCrashes, LoseAnswer, SyncStep, StartSync, ReadTable,
                ReceiveAnswer, RemoveEntry, MapCleared, InsertEntry, InsertFails, MapFilled
  <2>3. CASE UNCHANGED vars
    BY <2>3 DEF vars
  <2> QED
    BY <2>1, <2>2, <2>3 DEF Next
<1> QED
  BY <1>1, <1>2, PTL DEF Spec, StoreSpec

\* So what agents and their syncs do never changes what the operator asked for.
THEOREM AgentsKeepWhatWasAsked == Spec => []DiffersOnlyByMigration
BY SyncImplementsStore, StoreKeepsWhatWasAsked, PTL
===============================================================================
