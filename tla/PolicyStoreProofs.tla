--------------------------- MODULE PolicyStoreProofs --------------------------
(***************************************************************************)
(* Proofs about PolicyStore, for any agents, rules, legacy tables and      *)
(* bound that satisfy PolicyStoreAssumption.                               *)
(***************************************************************************)
EXTENDS PolicyStore, TLAPS

TableOK(tables) ==
  /\ DOMAIN tables = Kinds
  /\ \A k \in Kinds : tables[k] \in [Rows(k) -> RowStates]

\* The copy of the legacy tables yields tables of the right shape.
LEMMA MigrateOK ==
  ASSUME NEW tables, TableOK(tables)
  PROVE  TableOK(Migrate(tables))
<1>1. ASSUME NEW k \in Kinds, NEW table \in [Rows(k) -> RowStates]
      PROVE  MigrateTable(k, table) \in [Rows(k) -> RowStates]
  <2>1. ASSUME NEW row \in Rows(k)
        PROVE  (IF row[2] = Global /\ row[1] \in DOMAIN Legacy[k]
                  THEN Legacy[k][row[1]] ELSE "none") \in RowStates
    BY PolicyStoreAssumption DEF RowStates
  <2>2. QED BY <2>1 DEF MigrateTable
<1>2. QED BY <1>1 DEF TableOK, Migrate

\* Writing one row keeps the shape.
LEMMA WriteOK ==
  ASSUME NEW tables, TableOK(tables), NEW k \in Kinds, NEW row \in Rows(k),
         NEW state \in RowStates
  PROVE  TableOK([tables EXCEPT ![k][row] = state])
BY DEF TableOK

\* The store's part of TypeOK, with its tables as TableOK.
LEMMA StoreTypeTables ==
  StoreTypeOK <=> /\ TableOK(rules) /\ TableOK(asked)
                  /\ managerUp \in BOOLEAN /\ changes \in 0 .. MaxChanges
BY DEF StoreTypeOK, TableOK

LEMMA NoRowsOK == TableOK(NoRows)
BY DEF TableOK, NoRows, RowStates

LEMMA StoreInitType == StoreInit => StoreTypeOK
<1>1. SUFFICES ASSUME StoreInit PROVE StoreTypeOK
  OBVIOUS
<1>2. TableOK(rules) /\ TableOK(asked)
  BY <1>1, NoRowsOK, MigrateOK DEF StoreInit
<1>3. managerUp \in BOOLEAN /\ changes \in 0 .. MaxChanges
  BY <1>1, PolicyStoreAssumption DEF StoreInit
<1>4. QED BY <1>2, <1>3, StoreTypeTables

\* A request of the operator writes one row, the same in rules and in asked.
LEMMA RequestWrites ==
  OperatorRequest =>
    \E k \in Kinds : \E row \in Rows(k), state \in RowStates :
      /\ rules' = [rules EXCEPT ![k][row] = state]
      /\ asked' = [asked EXCEPT ![k][row] = state]
<1>1. SUFFICES ASSUME NEW k \in Kinds, NEW r \in RuleKeys[k], NEW s \in Scopes,
                      \/ \E enabled \in BOOLEAN : SetRule(k, r, s, enabled)
                      \/ DeleteRule(k, r, s)
               PROVE  \E row \in Rows(k), state \in RowStates :
                        /\ rules' = [rules EXCEPT ![k][row] = state]
                        /\ asked' = [asked EXCEPT ![k][row] = state]
  BY DEF OperatorRequest
<1>2. <<r, s>> \in Rows(k)
  BY DEF Rows
<1>3. CASE \E enabled \in BOOLEAN : SetRule(k, r, s, enabled)
  BY <1>2, <1>3 DEF SetRule, Upsert, RowStates
<1>4. CASE DeleteRule(k, r, s)
  BY <1>2, <1>4 DEF DeleteRule, Remove, RowStates
<1>5. QED BY <1>1, <1>3, <1>4

LEMMA RequestType == StoreTypeOK /\ OperatorRequest => StoreTypeOK'
<1>1. SUFFICES ASSUME StoreTypeOK, OperatorRequest PROVE StoreTypeOK'
  OBVIOUS
<1>2. PICK k \in Kinds : \E row \in Rows(k), state \in RowStates :
        /\ rules' = [rules EXCEPT ![k][row] = state]
        /\ asked' = [asked EXCEPT ![k][row] = state]
  BY <1>1, RequestWrites
<1>3. PICK row \in Rows(k), state \in RowStates :
        /\ rules' = [rules EXCEPT ![k][row] = state]
        /\ asked' = [asked EXCEPT ![k][row] = state]
  BY <1>2
<1>4. TableOK(rules') /\ TableOK(asked')
  BY <1>1, <1>3, StoreTypeTables, WriteOK
<1>5. Requested
  BY <1>1 DEF OperatorRequest, SetRule, DeleteRule
<1>6. managerUp' \in BOOLEAN /\ changes' \in 0 .. MaxChanges
  BY <1>1, <1>5, PolicyStoreAssumption DEF Requested, StoreTypeOK
<1>7. QED BY <1>4, <1>6 DEF StoreTypeOK, TableOK

LEMMA ManagerType ==
  StoreTypeOK /\ (ManagerStops \/ ManagerStarts) => StoreTypeOK'
<1>1. SUFFICES ASSUME StoreTypeOK, ManagerStops \/ ManagerStarts
               PROVE  StoreTypeOK'
  OBVIOUS
<1>2. TableOK(rules') /\ TableOK(asked')
  BY <1>1, StoreTypeTables, MigrateOK DEF ManagerStops, ManagerStarts
<1>3. managerUp' \in BOOLEAN /\ changes' \in 0 .. MaxChanges
  BY <1>1 DEF ManagerStops, ManagerStarts, StoreTypeOK
<1>4. QED BY <1>2, <1>3 DEF StoreTypeOK, TableOK

\* The tables keep their shape in every behaviour of the store.
THEOREM StoreTypeCorrect == StoreSpec => []StoreTypeOK
<1>1. StoreTypeOK /\ UNCHANGED storeVars => StoreTypeOK'
  BY DEF StoreTypeOK, storeVars
<1>2. StoreTypeOK /\ [StoreNext]_storeVars => StoreTypeOK'
  BY <1>1, RequestType, ManagerType DEF StoreNext
<1>3. QED BY <1>2, StoreInitType, PTL DEF StoreSpec

-------------------------------------------------------------------------------

\* A request sets what is asked and what is stored to the same state.
LEMMA RequestDiffers ==
  StoreTypeOK /\ DiffersOnlyByMigration /\ OperatorRequest
    => DiffersOnlyByMigration'
<1>1. SUFFICES ASSUME StoreTypeOK, DiffersOnlyByMigration, OperatorRequest
               PROVE  DiffersOnlyByMigration'
  OBVIOUS
<1>2. PICK k \in Kinds : \E written \in Rows(k), state \in RowStates :
        /\ rules' = [rules EXCEPT ![k][written] = state]
        /\ asked' = [asked EXCEPT ![k][written] = state]
  BY <1>1, RequestWrites
<1>3. PICK written \in Rows(k), state \in RowStates :
        /\ rules' = [rules EXCEPT ![k][written] = state]
        /\ asked' = [asked EXCEPT ![k][written] = state]
  BY <1>2
<1>4. ASSUME NEW j \in Kinds, NEW row \in Rows(j), rules'[j][row] # asked'[j][row]
      PROVE  rules'[j][row] = rules[j][row] /\ asked'[j][row] = asked[j][row]
  <2>1. CASE j = k /\ row = written
    BY <1>1, <1>3, <1>4, <2>1, StoreTypeTables DEF TableOK
  <2>2. CASE ~(j = k /\ row = written)
    BY <1>1, <1>3, <1>4, <2>2, StoreTypeTables DEF TableOK
  <2>3. QED BY <2>1, <2>2
<1>5. QED BY <1>1, <1>4 DEF DiffersOnlyByMigration

\* A start of the manager touches only a table without rows; the operator had
\* then asked for every row of it to be deleted, or never asked for it.
LEMMA StartDiffers ==
  StoreTypeOK /\ DiffersOnlyByMigration /\ ManagerStarts
    => DiffersOnlyByMigration'
<1>1. SUFFICES ASSUME StoreTypeOK, DiffersOnlyByMigration, ManagerStarts,
                      NEW k \in Kinds, NEW row \in Rows(k),
                      rules'[k][row] # asked'[k][row]
               PROVE  /\ row[2] = Global
                      /\ row[1] \in DOMAIN Legacy[k]
                      /\ rules'[k][row] = Legacy[k][row[1]]
                      /\ asked'[k][row] = "none"
  BY DEF DiffersOnlyByMigration
<1>2. rules'[k] = MigrateTable(k, rules[k]) /\ asked' = asked
  BY <1>1 DEF ManagerStarts, Migrate
<1>3. CASE \E other \in Rows(k) : rules[k][other] # "none"
  <2>1. rules'[k] = rules[k]
    BY <1>2, <1>3 DEF MigrateTable
  <2>2. QED BY <1>1, <1>2, <2>1 DEF DiffersOnlyByMigration
<1>4. CASE \A other \in Rows(k) : rules[k][other] = "none"
  <2>1. asked[k][row] = "none"
    BY <1>1, <1>4, PolicyStoreAssumption DEF DiffersOnlyByMigration
  <2>2. rules'[k][row] = IF row[2] = Global /\ row[1] \in DOMAIN Legacy[k]
                           THEN Legacy[k][row[1]] ELSE "none"
    BY <1>2, <1>4 DEF MigrateTable
  <2>3. QED BY <1>1, <1>2, <2>1, <2>2
<1>5. QED BY <1>3, <1>4

\* Whatever the operator and the restarts of the manager do, a row is what the
\* operator last asked for, but for deleted global rows that the legacy table
\* brings back.
THEOREM StoreKeepsWhatWasAsked == StoreSpec => []DiffersOnlyByMigration
<1>1. StoreInit => DiffersOnlyByMigration
  BY DEF StoreInit, DiffersOnlyByMigration
<1>2. DiffersOnlyByMigration /\ ManagerStops => DiffersOnlyByMigration'
  BY DEF DiffersOnlyByMigration, ManagerStops
<1>3. DiffersOnlyByMigration /\ UNCHANGED storeVars => DiffersOnlyByMigration'
  BY DEF DiffersOnlyByMigration, storeVars
<1>4. StoreTypeOK /\ DiffersOnlyByMigration /\ [StoreNext]_storeVars
        => DiffersOnlyByMigration'
  BY <1>2, <1>3, RequestDiffers, StartDiffers DEF StoreNext
<1>5. QED BY <1>1, <1>4, StoreTypeCorrect, PTL DEF StoreSpec
===============================================================================
