---------------------------- MODULE DashboardProofs ---------------------------
(***************************************************************************)
(* Proofs about Dashboard, for any pages, refreshes under way, rules,      *)
(* legacy tables and bounds that satisfy the assumptions: the shape of the *)
(* state, ShownInOrder, NoBlindSwitch, and the store's own invariant under *)
(* the requests of the pages.                                              *)
(*                                                                         *)
(* A refresh has read its lists at moments that come one after the other   *)
(* (Dated), whatever is served in between; a page shows the lists of one   *)
(* refresh, so that its lists are dated too. A request asks for what the   *)
(* page offered under what it showed (RequestsInv), however late it is     *)
(* served.                                                                 *)
(***************************************************************************)
EXTENDS Dashboard, PolicyStoreProofs, SequenceTheorems

\* The tables of any kind, and the five tables together.
AnyTable == UNION {[Rows(k) -> RowStates] : k \in Kinds}
Tables == {t \in [Kinds -> AnyTable] : \A k \in Kinds : t[k] \in [Rows(k) -> RowStates]}

\* The first lists of a refresh.
Partial(lists) ==
  /\ lists \in Seq(AnyTable)
  /\ Len(lists) <= PTRACE
  /\ \A k \in 1 .. Len(lists) : lists[k] \in [Rows(k) -> RowStates]

SomeRefreshes == UNION {[Slots(p) -> Seq(AnyTable)] : p \in Pages}

Reading(table) ==
  /\ table \in [Pages -> SomeRefreshes]
  /\ \A p \in Pages :
       /\ table[p] \in [Slots(p) -> Seq(AnyTable)]
       /\ \A i \in Slots(p) : Partial(table[p][i])

Request == [page : Pages, kind : Kinds, row : UNION {Rows(k) : k \in Kinds},
            state : RowStates, sight : RowStates]

\* What the page offers under what it shows of the row.
Offers == {w \in Request : w.row \in Rows(w.kind) /\ w.state \in Asks(w.sight)}

RequestsInv == requests \in Seq(Offers)

\* A migration that is still to come has a request behind it.
ToMigrate == IF Migrate(rules) = rules THEN 0 ELSE 1

PastInv ==
  /\ past \in Seq(Tables)
  /\ Len(past) >= 1
  /\ past[Len(past)] = rules
  /\ Len(past) + ToMigrate <= 2 * changes + 2

TInv ==
  /\ StoreTypeOK
  /\ rules \in Tables
  /\ shown \in [Pages -> Tables]
  /\ Reading(refreshes)
  /\ RequestsInv
  /\ losses \in 0 .. MaxLosses
  /\ PastInv

\* The first n lists were those of the tables at moments one after the other.
Dated(n, lists, moments) ==
  \E f \in [1 .. n -> 1 .. Len(moments)] :
    /\ \A a, b \in 1 .. n : a <= b => f[a] <= f[b]
    /\ \A k \in 1 .. n : lists[k] = moments[f[k]][k]

DatedInv ==
  \A p \in Pages :
    /\ Dated(PTRACE, shown[p], past)
    /\ \A i \in Slots(p) : Dated(Len(refreshes[p][i]), refreshes[p][i], past)

IInv == TInv /\ DatedInv

-------------------------------------------------------------------------------

LEMMA TablesOK ==
  ASSUME NEW t \in Tables
  PROVE  TableOK(t)
BY DEF Tables, TableOK

LEMMA NoRowsTables == NoRows \in Tables
<1>1. \A k \in Kinds : NoRows[k] \in [Rows(k) -> RowStates]
  BY DEF NoRows, RowStates
<1>2. NoRows \in [Kinds -> AnyTable]
  BY <1>1 DEF NoRows, AnyTable
<1> QED
  BY <1>1, <1>2 DEF Tables

\* A start of the manager leaves tables.
LEMMA MigrateTables ==
  ASSUME NEW t \in Tables
  PROVE  Migrate(t) \in Tables
<1>1. TableOK(Migrate(t))
  BY TablesOK, MigrateOK
<1>2. Migrate(t) \in [Kinds -> AnyTable]
  BY <1>1 DEF TableOK, Migrate, AnyTable
<1> QED
  BY <1>1, <1>2 DEF TableOK, Tables

\* So does a request for one row.
LEMMA WriteTables ==
  ASSUME NEW t \in Tables, NEW k \in Kinds, NEW row \in Rows(k), NEW state \in RowStates
  PROVE  [t EXCEPT ![k][row] = state] \in Tables
<1> DEFINE u == [t EXCEPT ![k][row] = state]
<1>1. t \in [Kinds -> AnyTable] /\ \A j \in Kinds : t[j] \in [Rows(j) -> RowStates]
  BY DEF Tables
<1>2. \A j \in Kinds : u[j] \in [Rows(j) -> RowStates]
  BY <1>1
<1>3. u = [j \in Kinds |-> u[j]]
  BY <1>1
<1> HIDE DEF u
<1>4. \A j \in Kinds : u[j] \in AnyTable
  BY <1>2 DEF AnyTable
<1>5. u \in [Kinds -> AnyTable]
  BY <1>3, <1>4
<1>6. u \in Tables
  BY <1>2, <1>5 DEF Tables
<1> QED
  BY <1>6 DEF u

\* The rows a start copies are there at the next one.
LEMMA MigrateOnce ==
  ASSUME NEW t \in Tables
  PROVE  Migrate(Migrate(t)) = Migrate(t)
<1> DEFINE u == Migrate(t)
<1>1. ASSUME NEW k \in Kinds
      PROVE  MigrateTable(k, u[k]) = u[k]
  <2>1. u[k] = MigrateTable(k, t[k]) /\ t[k] \in [Rows(k) -> RowStates]
    BY DEF Migrate, Tables
  <2>2. CASE \E row \in Rows(k) : u[k][row] # "none"
    BY <2>2 DEF MigrateTable
  <2>3. CASE \A row \in Rows(k) : u[k][row] = "none"
    <3>1. \A row \in Rows(k) : t[k][row] = "none"
      BY <2>1, <2>3 DEF MigrateTable
    <3>2. u[k] = [row \in Rows(k) |->
            IF row[2] = Global /\ row[1] \in DOMAIN Legacy[k]
              THEN Legacy[k][row[1]] ELSE "none"]
      BY <2>1, <3>1 DEF MigrateTable
    <3>3. MigrateTable(k, u[k]) = [row \in Rows(k) |->
            IF row[2] = Global /\ row[1] \in DOMAIN Legacy[k]
              THEN Legacy[k][row[1]] ELSE "none"]
      BY <2>3 DEF MigrateTable
    <3> QED
      BY <3>2, <3>3
  <2> QED
    BY <2>2, <2>3
<1>2. u = [k \in Kinds |-> u[k]]
  BY DEF Migrate
<1>3. Migrate(u) = [k \in Kinds |-> MigrateTable(k, u[k])]
  BY DEF Migrate
<1> QED
  BY <1>1, <1>2, <1>3

-------------------------------------------------------------------------------

\* A further moment changes nothing for those before it.
LEMMA DatedGrow ==
  ASSUME NEW moments \in Seq(Tables), NEW t \in Tables, NEW n \in Nat, NEW lists,
         Dated(n, lists, moments)
  PROVE  Dated(n, lists, Append(moments, t))
<1>1. PICK f \in [1 .. n -> 1 .. Len(moments)] :
        /\ \A a, b \in 1 .. n : a <= b => f[a] <= f[b]
        /\ \A k \in 1 .. n : lists[k] = moments[f[k]][k]
  BY DEF Dated
<1>2. /\ Len(moments) \in Nat /\ Len(Append(moments, t)) = Len(moments) + 1
      /\ \A m \in 1 .. Len(moments) : Append(moments, t)[m] = moments[m]
  BY LenProperties, AppendProperties
<1>3. f \in [1 .. n -> 1 .. Len(Append(moments, t))]
  BY <1>2
<1>4. \A k \in 1 .. n : lists[k] = Append(moments, t)[f[k]][k]
  BY <1>1, <1>2
<1> QED
  BY <1>1, <1>3, <1>4 DEF Dated

LEMMA DatedIdle ==
  ASSUME NEW moments \in Seq(Tables)
  PROVE  Dated(Len(Idle), Idle, moments)
<1>1. Len(Idle) = 0 /\ 1 .. 0 = {}
  BY DEF Idle
<1>2. [k \in 1 .. 0 |-> 1] \in [1 .. 0 -> 1 .. Len(moments)]
  BY <1>1
<1> QED
  BY <1>1, <1>2 DEF Dated

\* A list read now is dated now, behind the lists read before.
LEMMA DatedNext ==
  ASSUME NEW moments \in Seq(Tables), Len(moments) >= 1,
         NEW lists \in Seq(AnyTable), Dated(Len(lists), lists, moments),
         NEW list \in AnyTable, list = moments[Len(moments)][Len(lists) + 1]
  PROVE  Dated(Len(Append(lists, list)), Append(lists, list), moments)
<1> DEFINE n == Len(lists)
           now == Len(moments)
           more == Append(lists, list)
<1>1. n \in Nat /\ now \in Nat
  BY LenProperties
<1>2. PICK f \in [1 .. n -> 1 .. now] :
        /\ \A a, b \in 1 .. n : a <= b => f[a] <= f[b]
        /\ \A k \in 1 .. n : lists[k] = moments[f[k]][k]
  BY DEF Dated
<1>3. /\ Len(more) = n + 1 /\ more[n + 1] = list
      /\ \A k \in 1 .. n : more[k] = lists[k]
  BY AppendProperties
<1> HIDE DEF n, now, more
<1> DEFINE g == [k \in 1 .. n + 1 |-> IF k <= n THEN f[k] ELSE now]
<1>4. g \in [1 .. n + 1 -> 1 .. now]
  <2>1. \A k \in 1 .. n + 1 : k <= n => k \in 1 .. n
    BY <1>1
  <2>2. now \in 1 .. now
    BY <1>1 DEF now
  <2> QED
    BY <1>2, <2>1, <2>2
<1>5. \A a, b \in 1 .. n + 1 : a <= b => g[a] <= g[b]
  <2> SUFFICES ASSUME NEW a \in 1 .. n + 1, NEW b \in 1 .. n + 1, a <= b
               PROVE  g[a] <= g[b]
    OBVIOUS
  <2>1. CASE b <= n
    <3>1. a \in 1 .. n /\ b \in 1 .. n
      BY <1>1, <2>1
    <3>2. g[a] = f[a] /\ g[b] = f[b]
      BY <1>1, <3>1
    <3> QED
      BY <1>2, <3>1, <3>2
  <2>2. CASE ~(b <= n)
    <3>1. g[b] = now
      BY <2>2
    <3>2. g[a] \in 1 .. now
      BY <1>4
    <3> QED
      BY <1>1, <3>1, <3>2
  <2> QED
    BY <2>1, <2>2
<1>6. \A k \in 1 .. n + 1 : more[k] = moments[g[k]][k]
  <2> SUFFICES ASSUME NEW k \in 1 .. n + 1
               PROVE  more[k] = moments[g[k]][k]
    OBVIOUS
  <2>1. CASE k <= n
    <3>1. k \in 1 .. n /\ g[k] = f[k]
      BY <1>1, <2>1
    <3> QED
      BY <1>2, <1>3, <3>1
  <2>2. CASE ~(k <= n)
    <3>1. k = n + 1 /\ g[k] = now
      BY <1>1, <2>2
    <3> QED
      BY <1>3, <3>1 DEF now, n
  <2> QED
    BY <2>1, <2>2
<1> HIDE DEF g
<1>7. Dated(n + 1, more, moments)
  BY <1>4, <1>5, <1>6 DEF Dated, now
<1> QED
  BY <1>3, <1>7 DEF more

-------------------------------------------------------------------------------

LEMMA PartialIdle == Partial(Idle) /\ Len(Idle) = 0
BY DEF Partial, Idle, PTRACE

\* Reading the next table.
LEMMA PartialNext ==
  ASSUME NEW lists, Partial(lists), ~Complete(lists), NEW t \in Tables
  PROVE  /\ t[Len(lists) + 1] \in AnyTable
         /\ Partial(Append(lists, t[Len(lists) + 1]))
<1>1. lists \in Seq(AnyTable) /\ Len(lists) \in Nat /\ Len(lists) <= 5
  BY LenProperties DEF Partial, PTRACE
<1>2. Len(lists) + 1 \in Kinds
  <2>1. Len(lists) # 5
    BY DEF Complete, PTRACE
  <2>2. \A n \in Nat : n <= 5 /\ n # 5 => n + 1 \in 1 .. 5
    OBVIOUS
  <2>3. Len(lists) + 1 \in 1 .. 5
    BY <1>1, <2>1, <2>2
  <2> QED
    BY <2>3 DEF Kinds
<1> DEFINE list == t[Len(lists) + 1]
<1>3. list \in AnyTable /\ list \in [Rows(Len(lists) + 1) -> RowStates]
  BY <1>2 DEF Tables
<1> HIDE DEF list
<1>4. /\ Append(lists, list) \in Seq(AnyTable)
      /\ Len(Append(lists, list)) = Len(lists) + 1
      /\ Append(lists, list)[Len(lists) + 1] = list
      /\ \A k \in 1 .. Len(lists) : Append(lists, list)[k] = lists[k]
  BY <1>1, <1>3, AppendProperties
<1>5. Len(lists) + 1 <= PTRACE
  BY <1>2 DEF Kinds, PTRACE
<1>6. \A k \in 1 .. Len(lists) + 1 : k \in 1 .. Len(lists) \/ k = Len(lists) + 1
  BY <1>1
<1>7. Partial(Append(lists, list))
  BY <1>3, <1>4, <1>5, <1>6 DEF Partial
<1> QED
  BY <1>3, <1>7 DEF list

LEMMA PartialFirst ==
  ASSUME NEW t \in Tables
  PROVE  /\ <<t[IPV4]>> = Append(Idle, t[Len(Idle) + 1])
         /\ Partial(<<t[IPV4]>>)
<1>1. <<t[IPV4]>> = Append(Idle, t[Len(Idle) + 1])
  BY DEF Idle, IPV4
<1>2. Partial(Idle) /\ ~Complete(Idle)
  BY PartialIdle DEF Complete, PTRACE
<1> QED
  BY <1>1, <1>2, PartialNext

\* All the lists are tables.
LEMMA WholeTables ==
  ASSUME NEW lists, Partial(lists), Complete(lists)
  PROVE  lists \in Tables
<1>1. lists \in Seq(AnyTable) /\ Len(lists) = 5
  BY DEF Partial, Complete, PTRACE
<1>2. lists \in [1 .. 5 -> AnyTable]
  BY <1>1, LenProperties
<1> QED
  BY <1>1, <1>2 DEF Tables, Partial, Kinds

\* One refresh of one page goes on; the others stay.
Written(new, table, p, i, lists) == new = [table EXCEPT ![p][i] = lists]

OneChanged(new, table, p, i, lists) ==
  \A q \in Pages : \A j \in Slots(q) :
    new[q][j] = IF q = p /\ j = i THEN lists ELSE table[q][j]

LEMMA WriteReading ==
  ASSUME NEW table, Reading(table), NEW p \in Pages, NEW i \in Slots(p),
         NEW lists, Partial(lists), NEW new, Written(new, table, p, i, lists)
  PROVE  Reading(new) /\ OneChanged(new, table, p, i, lists)
<1>1. /\ table \in [Pages -> SomeRefreshes]
      /\ \A q \in Pages : table[q] \in [Slots(q) -> Seq(AnyTable)]
  BY DEF Reading
<1> USE DEF Written
<1>2. lists \in Seq(AnyTable)
  BY DEF Partial
<1>3. \A q \in Pages : new[q] \in [Slots(q) -> Seq(AnyTable)]
  BY <1>1, <1>2
<1>4. \A q \in Pages : \A j \in Slots(q) :
        new[q][j] = IF q = p /\ j = i THEN lists ELSE table[q][j]
  BY <1>1
<1>5. new = [q \in Pages |-> new[q]]
  BY <1>1
<1> HIDE DEF Written
<1>6. new \in [Pages -> SomeRefreshes]
  BY <1>3, <1>5 DEF SomeRefreshes
<1>7. Reading(new)
  BY <1>3, <1>4, <1>6 DEF Reading
<1> QED
  BY <1>4, <1>7 DEF OneChanged

-------------------------------------------------------------------------------

LEMMA AsksStates ==
  ASSUME NEW sight
  PROVE  /\ Asks(sight) \subseteq RowStates
         /\ "none" \in Asks(sight) => sight # "none"
         /\ "off" \in Asks(sight) => sight = "on"
BY DEF Asks, RowStates

\* A request is written as it was asked for.
LEMMA ServeWrites ==
  ASSUME RequestsInv, NEW i \in DOMAIN requests, Serve(i)
  PROVE  /\ requests[i] \in Offers
         /\ OperatorRequest
         /\ managerUp' = managerUp /\ changes' = changes + 1 /\ changes < MaxChanges
         /\ rules' = [rules EXCEPT ![requests[i].kind][requests[i].row] = requests[i].state]
         /\ requests' = Without(requests, i)
         /\ Remember
         /\ UNCHANGED <<shown, refreshes, losses>>
<1> DEFINE w == requests[i]
<1>1. w \in Offers
  BY ElementOfSeq, LenProperties DEF RequestsInv
<1>2. w.kind \in Kinds /\ w.row \in Rows(w.kind) /\ w.state \in Asks(w.sight)
  BY <1>1 DEF Offers, Request
<1>3. /\ w.row[1] \in RuleKeys[w.kind] /\ w.row[2] \in Scopes
      /\ w.row = <<w.row[1], w.row[2]>>
  BY <1>2 DEF Rows
<1>4. w.state \in {"none", "on", "off"}
  BY <1>2, AsksStates DEF RowStates
<1>5. /\ IF w.state = "none" THEN DeleteRule(w.kind, w.row[1], w.row[2])
         ELSE SetRule(w.kind, w.row[1], w.row[2], w.state = "on")
      /\ requests' = Without(requests, i)
      /\ Remember
      /\ UNCHANGED <<shown, refreshes, losses>>
  BY DEF Serve
<1> HIDE DEF w
<1>6. CASE w.state = "none"
  <2>1. DeleteRule(w.kind, w.row[1], w.row[2])
    BY <1>5, <1>6
  <2>2. OperatorRequest
    BY <1>2, <1>3, <2>1 DEF OperatorRequest
  <2>3. Requested /\ rules' = [rules EXCEPT ![w.kind][w.row] = w.state]
    BY <1>3, <1>6, <2>1 DEF DeleteRule, Remove
  <2> QED
    BY <1>1, <1>5, <2>2, <2>3 DEF Requested, w
<1>7. CASE w.state # "none"
  <2>1. SetRule(w.kind, w.row[1], w.row[2], w.state = "on")
    BY <1>5, <1>7
  <2>2. OperatorRequest
    <3>1. (w.state = "on") \in BOOLEAN
      OBVIOUS
    <3> QED
      BY <1>2, <1>3, <2>1, <3>1 DEF OperatorRequest
  <2>3. Requested /\ rules' = [rules EXCEPT ![w.kind][w.row] = w.state]
    <3>1. CASE w.state = "on"
      BY <1>3, <2>1, <3>1 DEF SetRule, Upsert
    <3>2. CASE w.state = "off"
      BY <1>3, <2>1, <3>2 DEF SetRule, Upsert
    <3> QED
      BY <1>4, <1>7, <3>1, <3>2
  <2> QED
    BY <1>1, <1>5, <2>2, <2>3 DEF Requested, w
<1> QED
  BY <1>6, <1>7

\* What is remembered ends with the tables as they are, and keeps the dates of
\* lists read before.
LEMMA RememberPast ==
  ASSUME PastInv, rules' \in Tables, Remember
  PROVE  /\ past' \in Seq(Tables)
         /\ Len(past') >= 1
         /\ past'[Len(past')] = rules'
         /\ Len(past') <= Len(past) + 1
         /\ rules' = rules => past' = past
         /\ \A n \in Nat : \A lists : Dated(n, lists, past) => Dated(n, lists, past')
<1>1. past \in Seq(Tables) /\ Len(past) >= 1 /\ past[Len(past)] = rules
  BY DEF PastInv
<1>2. Len(past) \in Nat
  BY <1>1, LenProperties
<1>3. CASE rules' = rules
  <2>1. past' = past
    BY <1>3 DEF Remember
  <2> QED
    BY <1>1, <1>2, <1>3, <2>1
<1>4. CASE rules' # rules
  <2>1. past' = Append(past, rules')
    BY <1>4 DEF Remember
  <2>2. /\ past' \in Seq(Tables) /\ Len(past') = Len(past) + 1
        /\ past'[Len(past) + 1] = rules'
    BY <1>1, <2>1, AppendProperties
  <2>3. \A n \in Nat : \A lists : Dated(n, lists, past) => Dated(n, lists, past')
    BY <1>1, <2>1, DatedGrow
  <2> QED
    BY <1>2, <1>4, <2>2, <2>3
<1> QED
  BY <1>3, <1>4

\* Lists stay dated while no refresh goes on.
LEMMA DatedStays ==
  ASSUME TInv, DatedInv, rules' \in Tables, Remember, UNCHANGED <<shown, refreshes>>
  PROVE  DatedInv'
<1>1. \A n \in Nat : \A lists : Dated(n, lists, past) => Dated(n, lists, past')
  BY RememberPast DEF TInv
<1>2. PTRACE \in Nat
  BY DEF PTRACE
<1>3. \A p \in Pages : \A i \in Slots(p) : Len(refreshes[p][i]) \in Nat
  BY LenProperties DEF TInv, Reading, Partial
<1> QED
  BY <1>1, <1>2, <1>3 DEF DatedInv

LEMMA WithoutOffers ==
  ASSUME RequestsInv, NEW i \in DOMAIN requests
  PROVE  Without(requests, i) \in Seq(Offers)
<1>1. requests \in Seq(Offers) /\ Len(requests) \in Nat /\ i \in 1 .. Len(requests)
  BY LenProperties DEF RequestsInv
<1>2. SubSeq(requests, 1, i - 1) \in Seq(Offers)
  <2>1. \A j \in 1 .. i - 1 : requests[j] \in Offers
    BY <1>1, ElementOfSeq
  <2> QED
    BY <1>1, <2>1, SubSeqProperties
<1>3. SubSeq(requests, i + 1, Len(requests)) \in Seq(Offers)
  BY <1>1, SubSeqProperties
<1> QED
  BY <1>2, <1>3, ConcatProperties DEF Without

-------------------------------------------------------------------------------

LEMMA InitIInv == Init => IInv
<1> SUFFICES ASSUME Init PROVE IInv
  OBVIOUS
<1>1. NoRows \in Tables /\ Migrate(NoRows) \in Tables
  BY NoRowsTables, MigrateTables
<1>2. rules = Migrate(NoRows) /\ changes = 0 /\ past = <<NoRows, rules>>
  BY DEF Init, StoreInit
<1>3. StoreTypeOK
  BY StoreInitType DEF Init
<1>4. shown \in [Pages -> Tables] /\ \A p \in Pages : shown[p] = NoRows
  BY <1>1 DEF Init
<1>5. refreshes = [p \in Pages |-> [i \in Slots(p) |-> Idle]]
  BY DEF Init
<1>6. Reading(refreshes)
  <2>1. Partial(Idle) /\ Idle \in Seq(AnyTable)
    BY PartialIdle DEF Partial
  <2>2. \A p \in Pages : [i \in Slots(p) |-> Idle] \in [Slots(p) -> Seq(AnyTable)]
    BY <2>1
  <2>3. refreshes \in [Pages -> SomeRefreshes]
    BY <1>5, <2>2 DEF SomeRefreshes
  <2> QED
    BY <1>5, <2>1, <2>2, <2>3 DEF Reading
<1>7. RequestsInv
  BY DEF Init, RequestsInv
<1>8. losses \in 0 .. MaxLosses
  BY DashboardAssumption DEF Init
<1>9. past \in Seq(Tables) /\ Len(past) = 2 /\ past[1] = NoRows /\ past[2] = rules
  BY <1>1, <1>2
<1>10. PastInv
  <2>1. ToMigrate = 0
    BY <1>1, <1>2, MigrateOnce DEF ToMigrate
  <2> QED
    BY <1>2, <1>9, <2>1 DEF PastInv
<1>11. DatedInv
  <2>1. Dated(PTRACE, NoRows, past)
    <3> DEFINE f == [k \in 1 .. PTRACE |-> 1]
    <3>1. f \in [1 .. PTRACE -> 1 .. Len(past)] /\ \A k \in 1 .. PTRACE : f[k] = 1
      BY <1>9
    <3>2. \A k \in 1 .. PTRACE : NoRows[k] = past[f[k]][k]
      BY <1>9, <3>1
    <3>3. \A a, b \in 1 .. PTRACE : a <= b => f[a] <= f[b]
      BY <3>1
    <3> HIDE DEF f
    <3> QED
      BY <3>1, <3>2, <3>3 DEF Dated
  <2>2. Dated(Len(Idle), Idle, past)
    BY <1>9, DatedIdle
  <2> QED
    BY <1>4, <1>5, <2>1, <2>2 DEF DatedInv
<1> QED
  BY <1>1, <1>2, <1>3, <1>4, <1>6, <1>7, <1>8, <1>10, <1>11 DEF IInv, TInv

LEMMA ServeStep ==
  ASSUME IInv, NEW i \in DOMAIN requests, Serve(i)
  PROVE  IInv'
<1>1. TInv /\ DatedInv /\ RequestsInv /\ PastInv /\ StoreTypeOK /\ rules \in Tables
  BY DEF IInv, TInv
<1> DEFINE w == requests[i]
<1>2. /\ w \in Offers
      /\ OperatorRequest
      /\ changes' = changes + 1
      /\ rules' = [rules EXCEPT ![w.kind][w.row] = w.state]
      /\ requests' = Without(requests, i)
      /\ Remember
      /\ UNCHANGED <<shown, refreshes, losses>>
  BY <1>1, ServeWrites
<1>3. w.kind \in Kinds /\ w.row \in Rows(w.kind) /\ w.state \in RowStates
  BY <1>2 DEF Offers, Request
<1> HIDE DEF w
<1>4. rules' \in Tables
  BY <1>1, <1>2, <1>3, WriteTables
<1>5. StoreTypeOK'
  BY <1>1, <1>2, RequestType
<1>6. RequestsInv'
  BY <1>1, <1>2, WithoutOffers DEF RequestsInv
<1>7. PastInv'
  <2>1. /\ past' \in Seq(Tables) /\ Len(past') >= 1 /\ past'[Len(past')] = rules'
        /\ Len(past') <= Len(past) + 1
    BY <1>1, <1>2, <1>4, RememberPast
  <2>2. ToMigrate \in {0, 1} /\ ToMigrate' \in {0, 1}
    BY DEF ToMigrate
  <2>3. Len(past) + ToMigrate <= 2 * changes + 2
    BY <1>1 DEF PastInv
  <2>4. changes \in Nat /\ Len(past) \in Nat /\ Len(past') \in Nat
    BY <1>1, <2>1, LenProperties, PolicyStoreAssumption DEF StoreTypeOK, PastInv
  <2>5. Len(past') + ToMigrate' <= 2 * changes' + 2
    BY <1>2, <2>1, <2>2, <2>3, <2>4
  <2> QED
    BY <2>1, <2>5 DEF PastInv
<1>8. DatedInv'
  BY <1>1, <1>2, <1>4, DatedStays
<1>9. /\ (shown \in [Pages -> Tables])' /\ Reading(refreshes)'
      /\ losses' \in 0 .. MaxLosses
  BY <1>1, <1>2 DEF TInv
<1> QED
  BY <1>4, <1>5, <1>6, <1>7, <1>8, <1>9 DEF IInv, TInv

LEMMA ReturnStep ==
  ASSUME IInv, ManagerReturns
  PROVE  IInv'
<1>1. TInv /\ DatedInv /\ PastInv /\ StoreTypeOK /\ rules \in Tables
  BY DEF IInv, TInv
<1>2. /\ ManagerStarts /\ Remember
      /\ rules' = Migrate(rules) /\ changes' = changes
      /\ UNCHANGED <<shown, refreshes, requests, losses>>
  BY DEF ManagerReturns, ManagerStarts
<1>3. rules' \in Tables
  BY <1>1, <1>2, MigrateTables
<1>4. StoreTypeOK'
  BY <1>1, <1>2, ManagerType
<1>5. PastInv'
  <2>1. /\ past' \in Seq(Tables) /\ Len(past') >= 1 /\ past'[Len(past')] = rules'
        /\ Len(past') <= Len(past) + 1
        /\ rules' = rules => past' = past
    BY <1>1, <1>2, <1>3, RememberPast
  <2>2. Migrate(rules') = rules'
    BY <1>1, <1>2, MigrateOnce
  <2>3. ToMigrate' = 0
    BY <2>2 DEF ToMigrate
  <2>4. Len(past) + ToMigrate <= 2 * changes + 2
    BY <1>1 DEF PastInv
  <2>5. changes \in Nat /\ Len(past) \in Nat /\ Len(past') \in Nat
    BY <1>1, <2>1, LenProperties, PolicyStoreAssumption DEF StoreTypeOK, PastInv
  <2>6. Len(past') <= Len(past) + ToMigrate
    <3>1. CASE rules' = rules
      <4>1. past' = past /\ ToMigrate = 0
        BY <1>2, <2>1, <3>1 DEF ToMigrate
      <4> QED
        BY <2>5, <4>1
    <3>2. CASE rules' # rules
      <4>1. ToMigrate = 1
        BY <1>2, <3>2 DEF ToMigrate
      <4> QED
        BY <2>1, <4>1
    <3> QED
      BY <3>1, <3>2
  <2>7. ToMigrate \in {0, 1}
    BY DEF ToMigrate
  <2>8. Len(past') + ToMigrate' <= 2 * changes' + 2
    BY <1>2, <2>3, <2>4, <2>5, <2>6, <2>7
  <2> QED
    BY <2>1, <2>8 DEF PastInv
<1>6. DatedInv'
  BY <1>1, <1>2, <1>3, DatedStays
<1>7. /\ (shown \in [Pages -> Tables])' /\ Reading(refreshes)' /\ RequestsInv'
      /\ losses' \in 0 .. MaxLosses
  BY <1>1, <1>2 DEF TInv, RequestsInv
<1> QED
  BY <1>3, <1>4, <1>5, <1>6, <1>7 DEF IInv, TInv

LEMMA ClickStep ==
  ASSUME IInv, NEW p \in Pages, Click(p)
  PROVE  IInv'
<1>1. TInv /\ DatedInv
  BY DEF IInv
<1>2. UNCHANGED <<storeVars, shown, refreshes, losses, past>>
  BY DEF Click
<1>3. PICK k \in Kinds : \E row \in Rows(k) : \E state \in Asks(shown[p][k][row]) :
        requests' = Append(requests,
          [page |-> p, kind |-> k, row |-> row, state |-> state,
           sight |-> shown[p][k][row]])
  BY DEF Click
<1>4. PICK row \in Rows(k) : \E state \in Asks(shown[p][k][row]) :
        requests' = Append(requests,
          [page |-> p, kind |-> k, row |-> row, state |-> state,
           sight |-> shown[p][k][row]])
  BY <1>3
<1>5. PICK state \in Asks(shown[p][k][row]) :
        requests' = Append(requests,
          [page |-> p, kind |-> k, row |-> row, state |-> state,
           sight |-> shown[p][k][row]])
  BY <1>4
<1>6. shown[p][k][row] \in RowStates
  BY <1>1 DEF TInv, Tables
<1>7. state \in RowStates
  BY AsksStates
<1> DEFINE w == [page |-> p, kind |-> k, row |-> row, state |-> state,
                 sight |-> shown[p][k][row]]
<1>8. w \in Offers
  <2>1. row \in UNION {Rows(j) : j \in Kinds}
    OBVIOUS
  <2>2. w \in Request
    BY <1>6, <1>7, <2>1 DEF Request
  <2>3. w.row \in Rows(w.kind) /\ w.state \in Asks(w.sight)
    OBVIOUS
  <2> QED
    BY <2>2, <2>3 DEF Offers
<1>9. requests' = Append(requests, w)
  BY <1>5
<1> HIDE DEF w
<1>10. RequestsInv'
  BY <1>1, <1>8, <1>9, AppendProperties DEF TInv, RequestsInv
<1>11. /\ StoreTypeOK' /\ (rules \in Tables)' /\ (shown \in [Pages -> Tables])'
       /\ Reading(refreshes)' /\ losses' \in 0 .. MaxLosses /\ PastInv'
  BY <1>1, <1>2 DEF TInv, StoreTypeOK, storeVars, PastInv, ToMigrate
<1>12. DatedInv'
  BY <1>1, <1>2 DEF DatedInv
<1> QED
  BY <1>10, <1>11, <1>12 DEF IInv, TInv

\* A refresh that goes on, or ends, with lists that are dated.
LEMMA SlotStep ==
  ASSUME TInv, DatedInv, NEW p \in Pages, NEW i \in Slots(p), NEW lists,
         Partial(lists), Dated(Len(lists), lists, past),
         refreshes' = [refreshes EXCEPT ![p][i] = lists],
         past' = past,
         \A q \in Pages : Dated(PTRACE, shown'[q], past)
  PROVE  Reading(refreshes)' /\ DatedInv'
<1>1. Reading(refreshes') /\ OneChanged(refreshes', refreshes, p, i, lists)
  <2>1. Reading(refreshes)
    BY DEF TInv
  <2>2. Written(refreshes', refreshes, p, i, lists)
    BY DEF Written
  <2> QED
    BY <2>1, <2>2, WriteReading
<1>2. \A q \in Pages : \A j \in Slots(q) :
        Dated(Len(refreshes'[q][j]), refreshes'[q][j], past)
  BY <1>1 DEF DatedInv, OneChanged
<1> QED
  BY <1>1, <1>2 DEF DatedInv

\* The first list of a refresh, or the next one.
LEMMA ReadStep ==
  ASSUME IInv, NEW p \in Pages, NEW i \in Slots(p),
         StartRefresh(p, i) \/ ReadEntries(p, i)
  PROVE  IInv'
<1>1. TInv /\ DatedInv /\ rules \in Tables /\ PastInv
  BY DEF IInv, TInv
<1>2. UNCHANGED <<storeVars, shown, requests, losses, past>>
  BY DEF StartRefresh, ReadEntries
<1> DEFINE old == refreshes[p][i]
           list == rules[Len(old) + 1]
<1>3. Reading(refreshes) /\ Partial(old) /\ Dated(Len(old), old, past)
  BY <1>1 DEF TInv, Reading, DatedInv
<1>4. ~Complete(old) /\ refreshes' = [refreshes EXCEPT ![p][i] = Append(old, list)]
  <2>1. CASE StartRefresh(p, i)
    <3>1. old = Idle /\ refreshes' = [refreshes EXCEPT ![p][i] = <<rules[IPV4]>>]
      BY <2>1 DEF StartRefresh
    <3>2. ~Complete(Idle)
      BY PartialIdle DEF Complete, PTRACE
    <3> QED
      BY <1>1, <3>1, <3>2, PartialFirst
  <2>2. CASE ReadEntries(p, i)
    <3>1. refreshes \in [Pages -> SomeRefreshes] /\ refreshes[p] \in [Slots(p) -> Seq(AnyTable)]
      BY <1>3 DEF Reading
    <3> QED
      BY <2>2, <3>1 DEF ReadEntries
  <2> QED
    BY <2>1, <2>2
<1>5. list \in AnyTable /\ Partial(Append(old, list))
  BY <1>1, <1>3, <1>4, PartialNext
<1>6. /\ past \in Seq(Tables) /\ Len(past) >= 1 /\ old \in Seq(AnyTable)
      /\ list = past[Len(past)][Len(old) + 1]
  BY <1>1, <1>3 DEF PastInv, Partial
<1> HIDE DEF old, list
<1>7. Dated(Len(Append(old, list)), Append(old, list), past)
  BY <1>3, <1>5, <1>6, DatedNext
<1>8. \A q \in Pages : Dated(PTRACE, shown'[q], past)
  BY <1>1, <1>2 DEF DatedInv
<1>9. Reading(refreshes)' /\ DatedInv'
  BY <1>1, <1>2, <1>4, <1>5, <1>7, <1>8, SlotStep
<1>10. /\ StoreTypeOK' /\ (rules \in Tables)' /\ (shown \in [Pages -> Tables])'
       /\ RequestsInv' /\ losses' \in 0 .. MaxLosses /\ PastInv'
  BY <1>1, <1>2 DEF TInv, StoreTypeOK, storeVars, PastInv, ToMigrate, RequestsInv
<1> QED
  BY <1>9, <1>10 DEF IInv, TInv

\* A refresh ends: its lists are shown, or one of its requests has failed.
LEMMA EndStep ==
  ASSUME IInv, NEW p \in Pages, NEW i \in Slots(p),
         Show(p, i) \/ RefreshFails(p, i)
  PROVE  IInv'
<1>1. TInv /\ DatedInv /\ PastInv /\ Reading(refreshes)
  BY DEF IInv, TInv
<1>2. /\ UNCHANGED <<storeVars, requests, past>>
      /\ refreshes' = [refreshes EXCEPT ![p][i] = Idle]
  BY DEF Show, RefreshFails, EndRefresh
<1>3. Partial(Idle) /\ Dated(Len(Idle), Idle, past)
  BY <1>1, PartialIdle, DatedIdle DEF PastInv
<1>4. losses' \in 0 .. MaxLosses
  BY <1>1, DashboardAssumption DEF TInv, Show, RefreshFails
<1>5. /\ shown' \in [Pages -> Tables]
      /\ \A q \in Pages : Dated(PTRACE, shown'[q], past)
  <2>1. CASE Show(p, i)
    <3>1. Complete(refreshes[p][i]) /\ shown' = [shown EXCEPT ![p] = refreshes[p][i]]
      BY <2>1 DEF Show
    <3>2. refreshes[p][i] \in Tables
      BY <1>1, <3>1, WholeTables DEF Reading
    <3>3. Dated(PTRACE, refreshes[p][i], past)
      BY <1>1, <3>1 DEF DatedInv, Complete
    <3>4. shown \in [Pages -> Tables] /\ \A q \in Pages : Dated(PTRACE, shown[q], past)
      BY <1>1 DEF TInv, DatedInv
    <3>5. \A q \in Pages : shown'[q] = IF q = p THEN refreshes[p][i] ELSE shown[q]
      BY <3>1, <3>4
    <3>6. shown' \in [Pages -> Tables]
      BY <3>1, <3>2, <3>4
    <3> QED
      BY <3>3, <3>4, <3>5, <3>6
  <2>2. CASE RefreshFails(p, i)
    BY <1>1, <2>2 DEF RefreshFails, TInv, DatedInv
  <2> QED
    BY <2>1, <2>2
<1>6. Reading(refreshes)' /\ DatedInv'
  BY <1>1, <1>2, <1>3, <1>5, SlotStep
<1>7. StoreTypeOK' /\ (rules \in Tables)' /\ RequestsInv' /\ PastInv'
  BY <1>1, <1>2 DEF TInv, StoreTypeOK, storeVars, PastInv, ToMigrate, RequestsInv
<1> QED
  BY <1>4, <1>5, <1>6, <1>7 DEF IInv, TInv

\* The manager ends: the refreshes that are not complete are over.
LEMMA EndsStep ==
  ASSUME IInv, ManagerEnds
  PROVE  IInv'
<1>1. TInv /\ DatedInv /\ PastInv /\ Reading(refreshes) /\ StoreTypeOK
  BY DEF IInv, TInv
<1>2. /\ ManagerStops /\ requests' = <<>>
      /\ UNCHANGED <<shown, losses, past, rules, changes>>
      /\ refreshes' = [p \in Pages |-> [i \in Slots(p) |->
           IF Complete(refreshes[p][i]) THEN refreshes[p][i] ELSE Idle]]
  BY DEF ManagerEnds, ManagerStops
<1>3. ASSUME NEW p \in Pages, NEW i \in Slots(p)
      PROVE  /\ Partial(refreshes'[p][i])
             /\ Dated(Len(refreshes'[p][i]), refreshes'[p][i], past)
             /\ refreshes'[p][i] \in Seq(AnyTable)
  <2>1. refreshes'[p][i] = IF Complete(refreshes[p][i]) THEN refreshes[p][i] ELSE Idle
    BY <1>2
  <2>2. Partial(Idle) /\ Dated(Len(Idle), Idle, past)
    BY <1>1, PartialIdle, DatedIdle DEF PastInv
  <2>3. Partial(refreshes[p][i]) /\ Dated(Len(refreshes[p][i]), refreshes[p][i], past)
    BY <1>1 DEF Reading, DatedInv
  <2> QED
    BY <2>1, <2>2, <2>3 DEF Partial
<1>4. Reading(refreshes)'
  <2>1. \A p \in Pages : refreshes'[p] \in [Slots(p) -> Seq(AnyTable)]
    <3>1. \A p \in Pages : refreshes'[p] = [i \in Slots(p) |-> refreshes'[p][i]]
      BY <1>2
    <3> QED
      BY <1>3, <3>1
  <2>2. refreshes' = [p \in Pages |-> refreshes'[p]]
    BY <1>2
  <2>3. refreshes' \in [Pages -> SomeRefreshes]
    BY <2>1, <2>2 DEF SomeRefreshes
  <2> QED
    BY <1>3, <2>1, <2>3 DEF Reading
<1>5. DatedInv'
  BY <1>1, <1>2, <1>3 DEF DatedInv
<1>6. StoreTypeOK'
  BY <1>1, <1>2, ManagerType
<1>7. /\ (rules \in Tables)' /\ (shown \in [Pages -> Tables])' /\ RequestsInv'
      /\ losses' \in 0 .. MaxLosses /\ PastInv'
  BY <1>1, <1>2 DEF TInv, PastInv, ToMigrate, RequestsInv
<1> QED
  BY <1>4, <1>5, <1>6, <1>7 DEF IInv, TInv

LEMMA NextIInv == IInv /\ [Next]_vars => IInv'
<1> SUFFICES ASSUME IInv, [Next]_vars PROVE IInv'
  OBVIOUS
<1>1. CASE ManagerEnds
  BY <1>1, EndsStep
<1>2. CASE ManagerReturns
  BY <1>2, ReturnStep
<1>3. CASE \E i \in DOMAIN requests : Serve(i)
  BY <1>3, ServeStep
<1>4. ASSUME NEW p \in Pages, Click(p)
      PROVE  IInv'
  BY <1>4, ClickStep
<1>5. ASSUME NEW p \in Pages, RefreshStep(p)
      PROVE  IInv'
  BY <1>5, ReadStep, EndStep DEF RefreshStep
<1>6. ASSUME NEW p \in Pages, NEW i \in Slots(p), RefreshFails(p, i)
      PROVE  IInv'
  BY <1>6, EndStep
<1>7. CASE UNCHANGED vars
  <2>1. UNCHANGED <<storeVars, shown, refreshes, requests, losses, past>>
    BY <1>7 DEF vars
  <2>2. TInv'
    BY <2>1 DEF IInv, TInv, StoreTypeOK, storeVars, PastInv, ToMigrate, RequestsInv
  <2>3. DatedInv'
    BY <2>1 DEF IInv, DatedInv
  <2> QED
    BY <2>2, <2>3 DEF IInv
<1> QED
  BY <1>1, <1>2, <1>3, <1>4, <1>5, <1>6, <1>7 DEF Next

LEMMA IInvHolds == Spec => []IInv
BY InitIInv, NextIInv, PTL DEF Spec

-------------------------------------------------------------------------------

\* A page always shows five whole lists, and no counter or list outgrows its
\* bound: in particular the tables change at most twice for each request, once
\* by the request and once by the start of the manager that brings rows of the
\* legacy table back.
THEOREM TypeCorrect == Spec => []TypeOK
<1>1. IInv => TypeOK
  <2> SUFFICES ASSUME IInv PROVE TypeOK
    OBVIOUS
  <2>1. TInv
    BY DEF IInv
  <2>2. StoreTypeOK /\ losses \in 0 .. MaxLosses
    BY <2>1 DEF TInv
  <2>3. DOMAIN shown = Pages /\ DOMAIN refreshes = Pages
    BY <2>1 DEF TInv, Reading
  <2>4. ASSUME NEW p \in Pages
        PROVE  /\ DOMAIN shown[p] = Kinds
               /\ \A k \in Kinds : IsTable(k, shown[p][k])
               /\ DOMAIN refreshes[p] = Slots(p)
    BY <2>1 DEF TInv, Tables, IsTable, Reading
  <2>5. ASSUME NEW p \in Pages, NEW i \in Slots(p), NEW k \in DOMAIN refreshes[p][i]
        PROVE  IsTable(k, refreshes[p][i][k])
    <3>1. Partial(refreshes[p][i])
      BY <2>1 DEF TInv, Reading
    <3>2. refreshes[p][i] \in Seq(AnyTable) /\ Len(refreshes[p][i]) <= 5
      BY <3>1 DEF Partial, PTRACE
    <3>3. k \in 1 .. Len(refreshes[p][i]) /\ Len(refreshes[p][i]) \in Nat
      BY <3>2, LenProperties
    <3>4. k \in Kinds
      BY <3>2, <3>3 DEF Kinds
    <3> QED
      BY <3>1, <3>3, <3>4 DEF Partial, IsTable
  <2>6. ASSUME NEW i \in DOMAIN requests
        PROVE  requests[i] \in [page : Pages, kind : Kinds, row : Rows(requests[i].kind),
                                state : RowStates, sight : RowStates]
    <3>1. requests[i] \in Offers
      BY <2>1, ElementOfSeq, LenProperties DEF TInv, RequestsInv
    <3> QED
      BY <3>1 DEF Offers, Request
  <2>7. DOMAIN past \subseteq 1 .. 2 * MaxChanges + 2
    <3>1. past \in Seq(Tables) /\ Len(past) + ToMigrate <= 2 * changes + 2
      BY <2>1 DEF TInv, PastInv
    <3>2. DOMAIN past = 1 .. Len(past) /\ Len(past) \in Nat
      BY <3>1, LenProperties
    <3>3. ToMigrate \in {0, 1}
      BY DEF ToMigrate
    <3>4. changes \in 0 .. MaxChanges /\ MaxChanges \in Nat
      BY <2>2, PolicyStoreAssumption DEF StoreTypeOK
    <3>5. Len(past) <= 2 * MaxChanges + 2
      BY <3>1, <3>2, <3>3, <3>4
    <3> QED
      BY <3>2, <3>4, <3>5
  <2> QED
    BY <2>2, <2>3, <2>4, <2>5, <2>6, <2>7 DEF TypeOK
<1> QED
  BY <1>1, IInvHolds, PTL

\* However refreshes overlap, fail or end in another order than they began, a
\* page shows lists the tables really had, each no older than the one before.
THEOREM ShownInOrderHolds == Spec => []ShownInOrder
<1>1. IInv => ShownInOrder
  <2> SUFFICES ASSUME IInv, NEW p \in Pages
               PROVE  LET At(m, k) == shown[p][k] = past[m][k]
                          Since(m) == m .. Len(past)
                      IN \E a \in Since(1) : At(a, IPV4) /\ \E b \in Since(a) : At(b, BIND) /\
                         \E c \in Since(b) : At(c, EXEC) /\ \E d \in Since(c) : At(d, WRITE) /\
                         \E e \in Since(d) : At(e, PTRACE)
    BY DEF ShownInOrder
  <2>1. Dated(5, shown[p], past)
    BY DEF IInv, DatedInv, PTRACE
  <2>2. PICK f \in [1 .. 5 -> 1 .. Len(past)] :
          /\ \A a, b \in 1 .. 5 : a <= b => f[a] <= f[b]
          /\ \A k \in 1 .. 5 : shown[p][k] = past[f[k]][k]
    BY <2>1 DEF Dated
  <2>3. Len(past) \in Nat
    BY LenProperties DEF IInv, TInv, PastInv
  <2>4. /\ f[1] \in 1 .. Len(past)
        /\ f[2] \in f[1] .. Len(past)
        /\ f[3] \in f[2] .. Len(past)
        /\ f[4] \in f[3] .. Len(past)
        /\ f[5] \in f[4] .. Len(past)
    BY <2>2, <2>3
  <2>5. /\ shown[p][1] = past[f[1]][1]
        /\ shown[p][2] = past[f[2]][2]
        /\ shown[p][3] = past[f[3]][3]
        /\ shown[p][4] = past[f[4]][4]
        /\ shown[p][5] = past[f[5]][5]
    BY <2>2
  <2> QED
    BY <2>4, <2>5 DEF IPV4, BIND, EXEC, WRITE, PTRACE
<1> QED
  BY <1>1, IInvHolds, PTL

\* No operator lifts a rule without having seen it, however late the request
\* for it is served.
THEOREM NoBlindSwitchHolds == Spec => NoBlindSwitch
<1> DEFINE Seen ==
      \A k \in Kinds : \A row \in Rows(k) :
        managerUp /\ rules[k][row] = "on" /\ rules'[k][row] # "on" =>
          \E i \in DOMAIN requests :
            LET w == requests[i]
            IN /\ w.kind = k /\ w.row = row /\ w.state = rules'[k][row]
               /\ w.sight # "none"
               /\ w.state = "off" => w.sight = "on"
<1>1. ASSUME IInv, [Next]_vars, NEW k \in Kinds, NEW row \in Rows(k),
             managerUp, rules[k][row] = "on", rules'[k][row] # "on"
      PROVE  \E i \in DOMAIN requests :
               LET w == requests[i]
               IN /\ w.kind = k /\ w.row = row /\ w.state = rules'[k][row]
                  /\ w.sight # "none"
                  /\ w.state = "off" => w.sight = "on"
  <2>1. CASE \E i \in DOMAIN requests : Serve(i)
    <3>1. PICK i \in DOMAIN requests : Serve(i)
      BY <2>1
    <3> DEFINE w == requests[i]
    <3>2. w \in Offers /\ rules' = [rules EXCEPT ![w.kind][w.row] = w.state]
      BY <1>1, <3>1, ServeWrites DEF IInv, TInv
    <3>3. rules \in Tables
      BY <1>1 DEF IInv, TInv
    <3>4. w.kind \in Kinds /\ w.row \in Rows(w.kind) /\ w.state \in Asks(w.sight)
      BY <3>2 DEF Offers, Request
    <3> HIDE DEF w
    <3>5. w.kind = k /\ w.row = row /\ rules'[k][row] = w.state
      BY <1>1, <3>2, <3>3, <3>4 DEF Tables
    <3>6. w.state \in {"none", "off"}
      BY <1>1, <3>4, <3>5, AsksStates DEF RowStates
    <3>7. w.sight # "none" /\ (w.state = "off" => w.sight = "on")
      BY <3>4, <3>6, AsksStates
    <3> QED
      BY <3>5, <3>7 DEF w
  <2>2. rules' = rules \/ ~managerUp \/ \E i \in DOMAIN requests : Serve(i)
    BY <1>1 DEF Next, vars, storeVars, ManagerEnds, ManagerStops, ManagerReturns, ManagerStarts,
                Click, RefreshStep, StartRefresh, ReadEntries, Show, RefreshFails
  <2> QED
    BY <1>1, <2>1, <2>2
<1>2. IInv /\ [Next]_vars => [Seen]_vars
  BY <1>1
<1> QED
  BY <1>2, IInvHolds, PTL DEF Spec, NoBlindSwitch

\* To the tables, the pages are operators: every step is one of the store, or
\* leaves it alone.
THEOREM DashboardImplementsStore == Spec => StoreSpec
<1>1. Init => StoreInit
  BY DEF Init
<1>2. IInv /\ [Next]_vars => [StoreNext]_storeVars
  <2> SUFFICES ASSUME IInv, [Next]_vars PROVE [StoreNext]_storeVars
    OBVIOUS
  <2>1. CASE \E i \in DOMAIN requests : Serve(i)
    BY <2>1, ServeWrites DEF IInv, TInv, StoreNext
  <2>2. CASE ManagerEnds \/ ManagerReturns
    BY <2>2 DEF ManagerEnds, ManagerReturns, StoreNext
  <2>3. \/ UNCHANGED storeVars
        \/ ManagerEnds \/ ManagerReturns
        \/ \E i \in DOMAIN requests : Serve(i)
    BY DEF Next, vars, Click, RefreshStep, StartRefresh, ReadEntries, Show, RefreshFails
  <2> QED
    BY <2>1, <2>2, <2>3
<1> QED
  BY <1>1, <1>2, IInvHolds, PTL DEF Spec, StoreSpec

\* So the rows stay what operators asked for, whichever pages they asked from.
THEOREM PagesKeepWhatWasAsked == Spec => []DiffersOnlyByMigration
BY DashboardImplementsStore, StoreKeepsWhatWasAsked, PTL
===============================================================================
