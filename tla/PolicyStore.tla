----------------------------- MODULE PolicyStore ------------------------------
(***************************************************************************)
(* The policy tables of the manager (class Storage of manager/app.py): for *)
(* each kind a table of rows (rule, agent_scope) -> enabled. A request is  *)
(* served under the storage lock and in a transaction of its own, so each  *)
(* operation is one step. The tables survive the manager; at each start    *)
(* _init_schema copies the legacy tables into the two kinds that had one,  *)
(* when the new table is empty.                                            *)
(*                                                                         *)
(* asked is a history variable: what the operator last asked of each row.  *)
(* changes counts the operator's requests up to the bound MaxChanges.      *)
(***************************************************************************)
EXTENDS PolicyKeys, FiniteSets

CONSTANTS Agents,       \* agent ids
          Global,       \* agent_scope = ''
          RuleKeys,     \* for each kind, the rules an operator may submit
          Legacy,       \* for each kind, the rows of its legacy table
          MaxChanges    \* bound on the operator's requests

Scopes == {Global} \cup Agents

\* The rows of the table of kind k.
Rows(k) == RuleKeys[k] \X Scopes

\* A row is missing, disabled or enabled.
RowStates == {"none", "off", "on"}

ASSUME PolicyStoreAssumption ==
  /\ Global \notin Agents
  /\ MaxChanges \in Nat
  /\ \A k \in {EXEC, WRITE} : RuleKeys[k] \subseteq Seq(Bytes)
  /\ RuleKeys[PTRACE] \subseteq {0}
  /\ \A k \in Kinds :
       /\ DOMAIN Legacy[k] \subseteq RuleKeys[k]
       /\ \A r \in DOMAIN Legacy[k] : Legacy[k][r] \in {"off", "on"}
       /\ k \notin {IPV4, BIND} => DOMAIN Legacy[k] = {}

VARIABLES rules, asked, managerUp, changes

storeVars == <<rules, asked, managerUp, changes>>

NoRows == [k \in Kinds |-> [row \in Rows(k) |-> "none"]]

\* Mutant of MigrateTable: the legacy rows are copied into any table.
MigrateAlways(k, table) ==
  [row \in Rows(k) |->
     IF row[2] = Global /\ row[1] \in DOMAIN Legacy[k]
       THEN Legacy[k][row[1]] ELSE table[row]]

\* The copy of blocked_ipv4 and blocked_bind_ports into the tables that have
\* replaced them, for the table of kind k.
MigrateTable(k, table) ==
  IF \A row \in Rows(k) : table[row] = "none"
    THEN [row \in Rows(k) |->
            IF row[2] = Global /\ row[1] \in DOMAIN Legacy[k]
              THEN Legacy[k][row[1]] ELSE "none"]
    ELSE table

Migrate(tables) == [k \in Kinds |-> MigrateTable(k, tables[k])]

\* Mutant of VisibleTo: the condition on agent_scope is missing.
VisibleToAll(scope) == Scopes

\* A query for an agent sees its rows and the global ones; a query without a
\* scope, as the dashboard's, sees every row.
VisibleTo(scope) == IF scope = Global THEN Scopes ELSE {Global, scope}

\* SELECT DISTINCT ... WHERE enabled = 1: the list of kind k for a scope.
Listed(tables, k, scope) ==
  {r \in RuleKeys[k] : \E s \in VisibleTo(scope) : tables[k][<<r, s>>] = "on"}

\* The list the manager would now answer to agent a.
PolicyFor(a, k) == Listed(rules, k, a)

StoreInit ==
  /\ rules = Migrate(NoRows)
  /\ asked = rules
  /\ managerUp = TRUE
  /\ changes = 0

\* INSERT ... ON CONFLICT DO UPDATE of one row.
Upsert(k, row, state) == rules' = [rules EXCEPT ![k][row] = state]

\* DELETE of one row; a row that is not there is no error.
Remove(k, row) == rules' = [rules EXCEPT ![k][row] = "none"]

Requested ==
  /\ managerUp
  /\ changes < MaxChanges
  /\ changes' = changes + 1
  /\ UNCHANGED managerUp

\* A POST of one of the five policy routes.
SetRule(k, r, s, enabled) ==
  /\ Requested
  /\ Accepted(k, r)
  /\ LET state == IF enabled THEN "on" ELSE "off"
     IN /\ Upsert(k, <<r, s>>, state)
        /\ asked' = [asked EXCEPT ![k][<<r, s>>] = state]

\* A DELETE of one of the five policy routes.
DeleteRule(k, r, s) ==
  /\ Requested
  /\ Accepted(k, r)
  /\ Remove(k, <<r, s>>)
  /\ asked' = [asked EXCEPT ![k][<<r, s>>] = "none"]

OperatorRequest ==
  \E k \in Kinds : \E r \in RuleKeys[k], s \in Scopes :
    \/ \E enabled \in BOOLEAN : SetRule(k, r, s, enabled)
    \/ DeleteRule(k, r, s)

\* The process ends; what is committed stays in the database.
ManagerStops ==
  /\ managerUp
  /\ managerUp' = FALSE
  /\ UNCHANGED <<rules, asked, changes>>

\* main: Storage opens the database and runs _init_schema.
ManagerStarts ==
  /\ ~managerUp
  /\ managerUp' = TRUE
  /\ rules' = Migrate(rules)
  /\ UNCHANGED <<asked, changes>>

StoreNext == OperatorRequest \/ ManagerStops \/ ManagerStarts

StoreSpec == StoreInit /\ [][StoreNext]_storeVars

-------------------------------------------------------------------------------

\* Every table holds the rows of its kind and nothing else.
StoreTypeOK ==
  /\ \A tables \in {rules, asked} :
       /\ DOMAIN tables = Kinds
       /\ \A k \in Kinds : tables[k] \in [Rows(k) -> RowStates]
  /\ managerUp \in BOOLEAN
  /\ changes \in 0 .. MaxChanges

\* Across any sequence of requests and restarts a row is what the operator
\* last asked for; the only rows that can differ are global ones the operator
\* has deleted and the legacy table still has, back as they stand there. In
\* particular no start of the manager overwrites a row the operator has set.
DiffersOnlyByMigration ==
  \A k \in Kinds : \A row \in Rows(k) :
    rules[k][row] # asked[k][row] =>
      /\ row[2] = Global
      /\ row[1] \in DOMAIN Legacy[k]
      /\ rules[k][row] = Legacy[k][row[1]]
      /\ asked[k][row] = "none"

\* docs/api-reference.md:57 lets the operator remove policies by DELETE: a
\* rule that was removed stays removed, also when the manager restarts.
DeletedRuleStaysDeleted ==
  \A k \in Kinds : \A row \in Rows(k) :
    asked[k][row] = "none" => rules[k][row] = "none"
===============================================================================
