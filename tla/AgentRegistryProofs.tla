-------------------------- MODULE AgentRegistryProofs --------------------------
(***************************************************************************)
(* Proofs about AgentRegistry, for any machines, addresses, times and      *)
(* bounds that satisfy RegistryAssumption.                                 *)
(*                                                                         *)
(* The invariant behind the theorems is IInv: what the lock of             *)
(* register_agent gives from the SELECT to the commit, that an id of an    *)
(* earlier database is in no row, and that a row ages no faster than the   *)
(* timer of the machine that holds its id.                                 *)
(***************************************************************************)
EXTENDS AgentRegistry, TLAPS

\* register_agent is inside the lock for one machine only, and not while the
\* manager is down.
OneRegisters ==
  \A m \in Machines : proc[m] = "registering" =>
    managerUp /\ \A n \in Machines : proc[n] = "registering" => n = m

\* What the SELECT answered is still so at the INSERT or UPDATE.
FoundStillTrue ==
  \A m \in Machines : proc[m] = "registering" =>
    IF found[m] = NoId THEN IdsAt(sent[m]) = {} ELSE found[m] \in IdsAt(sent[m])

\* A database is lost only while the manager is down, once for each of its ends.
EpochWithinFaults == epoch + (IF managerUp THEN 0 ELSE 1) <= faults

\* A row is no older than the timer of a machine that is served under its id.
YoungerThanTimer ==
  \A m \in Machines :
    proc[m] = "running" /\ served[m] /\ born[m] = epoch => seen[held[m]] <= timer[m]

TInv == TypeOK /\ EpochWithinFaults

IInv ==
  /\ TInv
  /\ OneRegisters
  /\ FoundStillTrue
  /\ OneRowPerAddress
  /\ IdStandsForAddress
  /\ SharedIdSharedAddress
  /\ YoungerThanTimer

-------------------------------------------------------------------------------

LEMMA InitTInv == Init => TInv
BY RegistryAssumption DEF Init, TInv, TypeOK, EpochWithinFaults, NoId, Points

LEMMA EndType ==
  ASSUME TypeOK, NEW dying, End(dying)
  PROVE  /\ proc' \in [Machines -> Points]
         /\ found' \in [Machines -> 0 .. drawn] /\ held' \in [Machines -> 0 .. drawn]
         /\ timer' \in [Machines -> 0 .. Period + Round]
         /\ born' \in [Machines -> 0 .. epoch]
         /\ sent' \in [Machines -> Addresses]
         /\ served' \in [Machines -> BOOLEAN] /\ cut' \in [Machines -> BOOLEAN]
<1>1. served' \in [Machines -> BOOLEAN] /\ cut' \in [Machines -> BOOLEAN]
  BY DEF End
<1>2. QED BY <1>1, RegistryAssumption DEF End, TypeOK, NoId, Points

LEMMA SeenAfterType ==
  ASSUME TypeOK, NEW id
  PROVE  SeenAfter(id) \in [DOMAIN rows -> 0 .. Fresh + 1]
BY RegistryAssumption DEF SeenAfter, TypeOK

LEMMA FaultType ==
  ASSUME TInv, Fault
  PROVE  faults' \in 0 .. MaxFaults /\ faults' = faults + 1
BY RegistryAssumption DEF Fault, TInv, TypeOK

\* A step of a machine keeps the shape of the state.
LEMMA MachineStepType ==
  ASSUME TInv, NEW m \in Machines,
         \/ Process(m) \/ PollFails(m) \/ PollLocksOut(m) \/ PostEvents(m)
         \/ AgentCrashes(m) \/ Moves(m)
  PROVE  TInv'
<1> USE DEF TInv
<1>1. CASE UnitStarts(m)
  BY <1>1 DEF UnitStarts, table, TypeOK, Points, EpochWithinFaults
<1>2. CASE RegisterFails(m)
  BY <1>2, EndType DEF RegisterFails, table, TypeOK, EpochWithinFaults
<1>3. CASE Lookup(m)
  BY <1>3 DEF Lookup, table, TypeOK, Points, IdsAt, NoId, EpochWithinFaults
<1>4. CASE Write(m)
  <2>1. CASE found[m] # NoId
    BY <1>4, <2>1, SeenAfterType DEF Write, TypeOK, Points, NoId, EpochWithinFaults
  <2>2. CASE found[m] = NoId
    BY <1>4, <2>2, RegistryAssumption DEF Write, TypeOK, Points, NoId, EpochWithinFaults
  <2>3. QED BY <2>1, <2>2
<1>5. CASE Registered(m)
  BY <1>5, RegistryAssumption DEF Registered, table, TypeOK, Points, EpochWithinFaults
<1>6. CASE Poll(m)
  BY <1>6, SeenAfterType, RegistryAssumption DEF Poll, TypeOK, EpochWithinFaults
<1>7. CASE PollFails(m)
  <2>1. faults' \in 0 .. MaxFaults /\ faults' >= faults
    BY <1>7, FaultType, RegistryAssumption DEF PollFails, TypeOK
  <2>2. QED BY <1>7, <2>1, RegistryAssumption DEF PollFails, table, TypeOK, EpochWithinFaults
<1>8. CASE PostEvents(m)
  BY <1>8, SeenAfterType DEF PostEvents, machines, TypeOK, EpochWithinFaults
<1>9. CASE AgentCrashes(m)
  BY <1>9, EndType, FaultType DEF AgentCrashes, table, TypeOK, EpochWithinFaults
<1>10. CASE Moves(m)
  <2>1. moves' \in 0 .. MaxMoves
    BY <1>10, RegistryAssumption DEF Moves, TypeOK
  <2>2. QED BY <1>10, <2>1 DEF Moves, table, machines, TypeOK, EpochWithinFaults
<1>11. CASE PollLocksOut(m)
  <2>1. faults' \in 0 .. MaxFaults /\ faults' >= faults
    BY <1>11, FaultType, RegistryAssumption DEF PollLocksOut, TypeOK
  <2>2. QED BY <1>11, <2>1, SeenAfterType, RegistryAssumption
            DEF PollLocksOut, TypeOK, EpochWithinFaults
<1>12. QED
  BY <1>1, <1>2, <1>3, <1>4, <1>5, <1>6, <1>7, <1>8, <1>9, <1>10, <1>11 DEF Process

LEMMA NextTInv == TInv /\ [Next]_vars => TInv'
<1>1. SUFFICES ASSUME TInv, [Next]_vars PROVE TInv'
  OBVIOUS
<1> USE DEF TInv
<1>2. CASE ManagerStops
  <2>1. PICK dying : End(dying)
    BY <1>2 DEF ManagerStops
  <2>2. faults' \in 0 .. MaxFaults /\ EpochWithinFaults'
    BY <1>1, <1>2, FaultType DEF ManagerStops, TypeOK, EpochWithinFaults
  <2>3. QED BY <1>1, <1>2, <2>1, <2>2, EndType DEF ManagerStops, table, TypeOK
<1>3. CASE ManagerStarts
  BY <1>1, <1>3 DEF ManagerStarts, table, machines, TypeOK, EpochWithinFaults
<1>4. CASE ManagerStartsAfresh
  <2>1. epoch' \in 0 .. MaxFaults /\ EpochWithinFaults'
    BY <1>1, <1>4, RegistryAssumption DEF ManagerStartsAfresh, TypeOK, EpochWithinFaults
  <2>2. QED BY <1>1, <1>4, <2>1 DEF ManagerStartsAfresh, machines, TypeOK, NoId
<1>5. CASE Tick
  <2>1. seen' \in [DOMAIN rows -> 0 .. Fresh + 1]
    BY <1>1, <1>5, RegistryAssumption DEF Tick, TypeOK, OneUpTo
  <2>2. timer' \in [Machines -> 0 .. Period + Round]
    BY <1>1, <1>5, RegistryAssumption DEF Tick, TypeOK
  <2>3. QED BY <1>1, <1>5, <2>1, <2>2 DEF Tick, TypeOK, EpochWithinFaults
<1>6. CASE UNCHANGED vars
  BY <1>1, <1>6 DEF vars, table, machines, TypeOK, EpochWithinFaults
<1>7. QED
  BY <1>1, <1>2, <1>3, <1>4, <1>5, <1>6, MachineStepType DEF Next

\* The state keeps its shape, in particular there are no more databases than
\* faults and no id beyond those drawn.
THEOREM TypeCorrect == Spec => []TypeOK
<1>1. Spec => []TInv
  BY InitTInv, NextTInv, PTL DEF Spec
<1>2. TInv => TypeOK
  BY DEF TInv
<1>3. QED BY <1>1, <1>2, PTL
-------------------------------------------------------------------------------

LEMMA InitIInv == Init => IInv
BY InitTInv, RegistryAssumption
DEF Init, IInv, OneRegisters, FoundStillTrue, OneRowPerAddress, IdStandsForAddress,
    SharedIdSharedAddress, YoungerThanTimer, HasId, IdsAt, NoId

\* What the end of processes does to the parts of the invariant that are about
\* the machines: it takes machines away.
LEMMA EndKeeps ==
  ASSUME IInv, NEW dying, End(dying), UNCHANGED <<table, epoch>>,
         \A n \in Machines : proc[n] = "registering" => n \in dying \/ managerUp'
  PROVE  /\ OneRegisters' /\ FoundStillTrue' /\ OneRowPerAddress'
         /\ IdStandsForAddress' /\ SharedIdSharedAddress' /\ YoungerThanTimer'
<1>1. \A n \in Machines : proc'[n] # "down" =>
         /\ proc'[n] = proc[n] /\ found'[n] = found[n] /\ held'[n] = held[n]
         /\ timer'[n] = timer[n] /\ born'[n] = born[n] /\ (served'[n] <=> served[n])
         /\ n \notin dying
  BY DEF End, IInv, TInv, TypeOK
<1>2. sent' = sent /\ rows' = rows /\ seen' = seen /\ epoch' = epoch
  BY DEF End, table
<1>3. OneRegisters' /\ FoundStillTrue' /\ OneRowPerAddress'
  BY <1>1, <1>2 DEF IInv, OneRegisters, FoundStillTrue, OneRowPerAddress, IdsAt
<1>4. IdStandsForAddress' /\ SharedIdSharedAddress'
  BY <1>1, <1>2 DEF IInv, IdStandsForAddress, SharedIdSharedAddress, HasId, IdsAt
<1>5. YoungerThanTimer'
  BY <1>1, <1>2 DEF IInv, YoungerThanTimer
<1>6. QED BY <1>3, <1>4, <1>5

\* An id that a machine holds of the present database has a row.
LEMMA HeldHasRow ==
  ASSUME IdStandsForAddress, NEW m \in Machines, HasId(m), born[m] = epoch
  PROVE  held[m] \in DOMAIN rows /\ rows[held[m]] = sent[m]
BY DEF IdStandsForAddress, IdsAt

\* A row that is seen now is younger than it was, the others as old.
LEMMA SeenAfterYounger ==
  ASSUME TypeOK, NEW id, seen' = SeenAfter(id)
  PROVE  \A i \in DOMAIN rows : seen'[i] = IF i = id THEN 0 ELSE seen[i]
BY DEF SeenAfter, TypeOK

LEMMA OneValueSet ==
  ASSUME NEW f, f = [i \in DOMAIN f |-> f[i]], NEW x \in DOMAIN f, NEW v, f[x] = v
  PROVE  f = [i \in DOMAIN f \cup {x} |-> IF i = x THEN v ELSE f[i]]
OBVIOUS

\* Write: the row that the SELECT found, or a new one.
LEMMA WriteKeeps ==
  ASSUME IInv, NEW m \in Machines, Write(m)
  PROVE  /\ OneRegisters' /\ FoundStillTrue' /\ OneRowPerAddress'
         /\ IdStandsForAddress' /\ SharedIdSharedAddress' /\ YoungerThanTimer'
<1> USE DEF IInv, TInv, TypeOK
<1> DEFINE id == held'[m]
<1>1. /\ proc[m] = "registering" /\ proc' = [proc EXCEPT ![m] = "answered"]
      /\ born' = [born EXCEPT ![m] = epoch] /\ held' = [held EXCEPT ![m] = id]
      /\ managerUp' = managerUp /\ sent' = sent /\ epoch' = epoch
      /\ timer' = timer /\ served' = served
  BY DEF Write
<1>2. /\ rows' = [i \in DOMAIN rows \cup {id} |-> IF i = id THEN sent[m] ELSE rows[i]]
      /\ \A i \in DOMAIN rows : seen'[i] <= seen[i]
      /\ id \in DOMAIN rows \/ (id = drawn + 1 /\ IdsAt(sent[m]) = {})
      /\ id \in DOMAIN rows => rows[id] = sent[m]
  <2>1. CASE found[m] # NoId
    <3>1. id = found[m] /\ found[m] \in IdsAt(sent[m]) /\ rows' = rows /\ seen' = SeenAfter(id)
      BY <1>1, <2>1 DEF Write, FoundStillTrue
    <3>2. id \in DOMAIN rows /\ rows[id] = sent[m]
      BY <3>1 DEF IdsAt
    <3>3. rows' = [i \in DOMAIN rows \cup {id} |-> IF i = id THEN sent[m] ELSE rows[i]]
      <4>1. rows = [i \in DOMAIN rows |-> rows[i]]
        OBVIOUS
      <4>2. rows = [i \in DOMAIN rows \cup {id} |-> IF i = id THEN sent[m] ELSE rows[i]]
        <5> HIDE DEF id, IInv, TInv, TypeOK
        <5>1. QED BY <3>2, <4>1, OneValueSet
      <4>3. QED BY <3>1, <4>2
    <3>4. \A i \in DOMAIN rows : seen[i] \in Nat /\ seen'[i] <= seen[i]
      BY <3>1, SeenAfterYounger, RegistryAssumption
    <3>5. QED BY <3>2, <3>3, <3>4
  <2>2. CASE found[m] = NoId
    <3>1. id = drawn + 1 /\ IdsAt(sent[m]) = {} /\ id \notin DOMAIN rows
      BY <1>1, <2>2 DEF Write, FoundStillTrue
    <3>2. QED BY <1>1, <2>2, <3>1 DEF Write
  <2>3. QED BY <2>1, <2>2
<1>3. \A n \in Machines : proc'[n] # "registering"
  BY <1>1 DEF OneRegisters
<1>4. OneRegisters' /\ FoundStillTrue'
  BY <1>3 DEF OneRegisters, FoundStillTrue
<1>5. OneRowPerAddress'
  BY <1>2 DEF OneRowPerAddress, IdsAt
<1>6. \A n \in Machines \ {m} :
        /\ HasId(n)' <=> HasId(n)
        /\ held'[n] = held[n] /\ born'[n] = born[n] /\ held[n] <= drawn
  BY <1>1 DEF HasId
<1>7. IdStandsForAddress'
  <2>1. held'[m] \in IdsAt(sent[m])'
    BY <1>1, <1>2 DEF IdsAt
  <2>2. ASSUME NEW n \in Machines \ {m}, HasId(n)'
        PROVE  IF born'[n] = epoch' THEN held'[n] \in IdsAt(sent[n])' ELSE held'[n] \notin DOMAIN rows'
    BY <1>1, <1>2, <1>6, <2>2 DEF IdStandsForAddress, IdsAt
  <2>3. QED BY <1>1, <2>1, <2>2 DEF IdStandsForAddress
<1>8. SharedIdSharedAddress'
  <2>1. ASSUME NEW n \in Machines \ {m}, HasId(n)
        PROVE  held[n] = id <=> born[n] = epoch /\ sent[n] = sent[m]
    BY <1>2, <1>6, <2>1 DEF IdStandsForAddress, IdsAt, OneRowPerAddress
  <2>2. QED BY <1>1, <1>6, <2>1 DEF SharedIdSharedAddress
<1>9. YoungerThanTimer'
  <2>1. ASSUME NEW n \in Machines, proc'[n] = "running", served'[n], born'[n] = epoch'
        PROVE  seen'[held'[n]] <= timer'[n]
    <3>1. n # m /\ proc[n] = "running" /\ served[n] /\ born[n] = epoch
      BY <1>1, <2>1
    <3>2. held[n] \in DOMAIN rows /\ held'[n] = held[n]
      BY <1>1, <3>1, HeldHasRow DEF HasId
    <3>3. seen[held[n]] <= timer[n] /\ seen'[held[n]] <= seen[held[n]]
      BY <1>2, <3>1, <3>2 DEF YoungerThanTimer
    <3>4. seen'[held[n]] \in Int
      BY <1>2, <3>2, SeenAfterYounger DEF Write
    <3>5. QED BY <1>1, <3>2, <3>3, <3>4, RegistryAssumption
  <2>2. QED BY <2>1 DEF YoungerThanTimer
<1>10. QED BY <1>4, <1>5, <1>7, <1>8, <1>9

\* Poll, PollLocksOut and PostEvents set the age of a row to 0.
LEMMA HeartbeatKeeps ==
  ASSUME IInv, NEW m \in Machines, Poll(m) \/ PollLocksOut(m) \/ PostEvents(m)
  PROVE  /\ OneRegisters' /\ FoundStillTrue' /\ OneRowPerAddress'
         /\ IdStandsForAddress' /\ SharedIdSharedAddress' /\ YoungerThanTimer'
<1> USE DEF IInv, TInv
<1>1. /\ UNCHANGED <<managerUp, rows, proc, sent, found, held, epoch, born>>
      /\ seen' = SeenAfter(held[m])
  BY DEF Poll, PollLocksOut, PostEvents, machines
<1>2. /\ OneRegisters' /\ FoundStillTrue' /\ OneRowPerAddress'
      /\ IdStandsForAddress' /\ SharedIdSharedAddress'
  BY <1>1 DEF OneRegisters, FoundStillTrue, OneRowPerAddress, IdStandsForAddress,
              SharedIdSharedAddress, HasId, IdsAt
<1>3. ASSUME NEW n \in Machines, proc'[n] = "running", served'[n], born'[n] = epoch'
      PROVE  seen'[held'[n]] <= timer'[n]
  <2>1. held[n] \in DOMAIN rows /\ proc[n] = "running" /\ born[n] = epoch
    BY <1>1, <1>3, HeldHasRow DEF HasId
  <2>2. seen'[held[n]] = IF held[n] = held[m] THEN 0 ELSE seen[held[n]]
    BY <1>1, <2>1, SeenAfterYounger
  <2>3. timer'[n] \in Nat /\ (n # m => timer'[n] = timer[n] /\ served[n])
    BY <1>3, RegistryAssumption DEF Poll, PollLocksOut, PostEvents, machines, TypeOK
  <2>4. CASE n = m
    BY <1>1, <2>2, <2>3, <2>4
  <2>5. CASE n # m
    BY <1>1, <2>1, <2>2, <2>3, <2>5 DEF YoungerThanTimer
  <2>6. QED BY <2>4, <2>5
<1>4. QED BY <1>2, <1>3 DEF YoungerThanTimer

\* Time passes for the rows and for the timers.
LEMMA TickKeeps ==
  ASSUME IInv, Tick
  PROVE  YoungerThanTimer'
<1> USE DEF IInv, TInv
<1>1. ASSUME NEW n \in Machines, proc'[n] = "running", served'[n], born'[n] = epoch'
      PROVE  seen'[held'[n]] <= timer'[n]
  <2>1. held[n] \in DOMAIN rows /\ held'[n] = held[n]
    BY <1>1, HeldHasRow DEF HasId, Tick
  <2>2. seen'[held[n]] = OneUpTo(seen[held[n]], Fresh + 1) /\ timer'[n] = timer[n] + 1
    BY <1>1, <2>1 DEF Tick, TypeOK
  <2>3. seen[held[n]] <= timer[n] /\ seen[held[n]] \in Nat /\ timer[n] \in Nat
    BY <1>1, <2>1, RegistryAssumption DEF Tick, TypeOK, YoungerThanTimer
  <2>4. QED BY <2>1, <2>2, <2>3, RegistryAssumption DEF OneUpTo
<1>2. QED BY <1>1 DEF YoungerThanTimer

LEMMA NextIInv == IInv /\ [Next]_vars => IInv'
<1>1. SUFFICES ASSUME IInv, [Next]_vars
               PROVE  /\ OneRegisters' /\ FoundStillTrue' /\ OneRowPerAddress'
                      /\ IdStandsForAddress' /\ SharedIdSharedAddress' /\ YoungerThanTimer'
  BY NextTInv DEF IInv
<1> USE <1>1 DEF IInv, TInv
<1>2. ASSUME NEW m \in Machines, UnitStarts(m) \/ Lookup(m) \/ Registered(m) \/ PollFails(m)
      PROVE  /\ OneRegisters' /\ FoundStillTrue' /\ OneRowPerAddress'
             /\ IdStandsForAddress' /\ SharedIdSharedAddress' /\ YoungerThanTimer'
  <2>1. rows' = rows /\ seen' = seen /\ epoch' = epoch /\ managerUp' = managerUp
        /\ held' = held /\ born' = born
    BY <1>2 DEF UnitStarts, Lookup, Registered, PollFails, table
  <2>2. /\ \A n \in Machines : HasId(n)' => HasId(n) /\ sent'[n] = sent[n]
        /\ \A n \in Machines \ {m} : proc'[n] = proc[n] /\ sent'[n] = sent[n]
    BY <1>2 DEF UnitStarts, Lookup, Registered, PollFails, HasId, TypeOK
  <2>3. OneRowPerAddress' /\ IdStandsForAddress' /\ SharedIdSharedAddress'
    BY <2>1, <2>2 DEF OneRowPerAddress, IdStandsForAddress, SharedIdSharedAddress, IdsAt
  <2>4. OneRegisters'
    BY <1>2, <2>1, <2>2 DEF UnitStarts, Lookup, Registered, PollFails, LockFree,
                            OneRegisters, TypeOK
  <2>5. FoundStillTrue'
    <3>1. CASE Lookup(m)
      <4>1. \A n \in Machines : proc'[n] = "registering" => n = m
        BY <2>2, <3>1 DEF Lookup, LockFree
      <4>2. PICK i \in IF IdsAt(sent[m]) = {} THEN {NoId} ELSE IdsAt(sent[m]) :
              found' = [found EXCEPT ![m] = i]
        BY <3>1 DEF Lookup
      <4>3. found'[m] = i /\ sent' = sent
        BY <3>1, <4>2 DEF Lookup, TypeOK
      <4>4. NoId \notin IdsAt(sent[m])
        BY DEF IdsAt, NoId, TypeOK
      <4>5. QED BY <2>1, <4>1, <4>2, <4>3, <4>4 DEF FoundStillTrue, IdsAt
    <3>2. CASE ~Lookup(m)
      <4>1. \A n \in Machines : proc'[n] = "registering" =>
              proc[n] = "registering" /\ found'[n] = found[n] /\ sent'[n] = sent[n]
        BY <1>2, <3>2 DEF UnitStarts, Registered, PollFails, TypeOK
      <4>2. QED BY <2>1, <4>1 DEF FoundStillTrue, IdsAt
    <3>3. QED BY <3>1, <3>2
  <2>6. YoungerThanTimer'
    <3>1. \A n \in Machines : proc'[n] = "running" /\ served'[n] =>
            proc[n] = "running" /\ served[n] /\ timer'[n] = timer[n]
      BY <1>2 DEF UnitStarts, Lookup, Registered, PollFails, TypeOK
    <3>2. QED BY <2>1, <3>1 DEF YoungerThanTimer
  <2>7. QED BY <2>3, <2>4, <2>5, <2>6
<1>3. ASSUME NEW m \in Machines, RegisterFails(m) \/ AgentCrashes(m)
      PROVE  /\ OneRegisters' /\ FoundStillTrue' /\ OneRowPerAddress'
             /\ IdStandsForAddress' /\ SharedIdSharedAddress' /\ YoungerThanTimer'
  BY <1>3, EndKeeps DEF RegisterFails, AgentCrashes, OneRegisters
<1>4. ASSUME NEW m \in Machines, Moves(m)
      PROVE  /\ OneRegisters' /\ FoundStillTrue' /\ OneRowPerAddress'
             /\ IdStandsForAddress' /\ SharedIdSharedAddress' /\ YoungerThanTimer'
  BY <1>4 DEF Moves, machines, table, OneRegisters, FoundStillTrue, OneRowPerAddress,
              IdStandsForAddress, SharedIdSharedAddress, YoungerThanTimer, HasId, IdsAt
<1>5. CASE ManagerStops
  <2>1. PICK dying : /\ End(dying)
                     /\ \A n \in Machines : proc[n] = "registering" => n \in dying
    BY <1>5 DEF ManagerStops
  <2>2. QED BY <1>5, <2>1, EndKeeps DEF ManagerStops
<1>6. CASE ManagerStarts
  BY <1>6 DEF ManagerStarts, machines, table, OneRegisters, FoundStillTrue, OneRowPerAddress,
              IdStandsForAddress, SharedIdSharedAddress, YoungerThanTimer, HasId, IdsAt
<1>7. CASE ManagerStartsAfresh
  <2>1. /\ UNCHANGED machines /\ DOMAIN rows' = {}
        /\ \A n \in Machines : born[n] # epoch' /\ proc[n] # "registering"
    BY <1>7 DEF ManagerStartsAfresh, OneRegisters, TypeOK
  <2>2. QED BY <2>1 DEF machines, OneRegisters, FoundStillTrue, OneRowPerAddress,
              IdStandsForAddress, SharedIdSharedAddress, YoungerThanTimer, HasId
<1>8. CASE Tick
  <2>1. /\ OneRegisters' /\ FoundStillTrue' /\ OneRowPerAddress'
        /\ IdStandsForAddress' /\ SharedIdSharedAddress'
    BY <1>8 DEF Tick, OneRegisters, FoundStillTrue, OneRowPerAddress, IdStandsForAddress,
                SharedIdSharedAddress, HasId, IdsAt
  <2>2. QED BY <1>8, <2>1, TickKeeps
<1>9. CASE UNCHANGED vars
  BY <1>9 DEF vars, machines, table, OneRegisters, FoundStillTrue, OneRowPerAddress,
              IdStandsForAddress, SharedIdSharedAddress, YoungerThanTimer, HasId, IdsAt
<1>10. QED
  BY <1>2, <1>3, <1>4, <1>5, <1>6, <1>7, <1>8, <1>9, WriteKeeps, HeartbeatKeeps
  DEF Next, Process

LEMMA InvariantHolds == Spec => []IInv
BY InitIInv, NextIInv, PTL DEF Spec

\* register_agent keeps one row for an address, whoever asks, how often and
\* after what.
THEOREM OneRowPerAddressHolds == Spec => []OneRowPerAddress
<1>1. IInv => OneRowPerAddress
  BY DEF IInv
<1>2. QED BY <1>1, InvariantHolds, PTL

\* The id of a machine stands for the address it gave when its process started,
\* or, after the loss of the database, for nothing.
THEOREM IdStandsForAddressHolds == Spec => []IdStandsForAddress
<1>1. IInv => IdStandsForAddress
  BY DEF IInv
<1>2. QED BY <1>1, InvariantHolds, PTL

\* Machines share an id exactly when they gave one address to one database.
THEOREM SharedIdSharedAddressHolds == Spec => []SharedIdSharedAddress
<1>1. IInv => SharedIdSharedAddress
  BY DEF IInv
<1>2. QED BY <1>1, InvariantHolds, PTL

\* A machine whose polls are answered is shown online, when a period and a round
\* are within what the dashboard allows.
THEOREM ServedIsOnlineHolds == Spec => []ServedIsOnline
<1>1. ASSUME IInv PROVE ServedIsOnline
  <2>1. SUFFICES ASSUME Period + Round <= Fresh,
                        NEW m \in Machines, proc[m] = "running", served[m], born[m] = epoch
                 PROVE  Online(held[m])
    BY DEF ServedIsOnline
  <2>2. held[m] \in DOMAIN rows /\ seen[held[m]] <= timer[m]
    BY <1>1, <2>1, HeldHasRow DEF IInv, HasId, YoungerThanTimer
  <2>3. timer[m] \in 0 .. Period + Round /\ seen[held[m]] \in 0 .. Fresh + 1
    BY <1>1, <2>2 DEF IInv, TInv, TypeOK
  <2>4. QED BY <2>1, <2>2, <2>3, RegistryAssumption DEF Online
<1>2. IInv => ServedIsOnline
  BY <1>1
<1>3. QED BY <1>2, InvariantHolds, PTL
===============================================================================
