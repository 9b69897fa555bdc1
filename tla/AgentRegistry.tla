----------------------------- MODULE AgentRegistry -----------------------------
(***************************************************************************)
(* Who the agents are to the manager, and whether they are shown online:   *)
(* the table of agents of manager/app.py (register_agent, heartbeat and    *)
(* the update in insert_events), the start of agent/src/main.rs, which     *)
(* registers once, ends when that fails and is restarted by its unit       *)
(* (Restart=always), its timer of the policy polls, and the status the     *)
(* dashboard derives from last_seen.                                       *)
(*                                                                         *)
(* A machine is at one of these points (proc):                             *)
(*   down        no process;                                               *)
(*   asking      its request to register is on the way;                    *)
(*   registering a thread of the manager is inside register_agent, after   *)
(*               the SELECT, with the lock;                                *)
(*   answered    the answer is on its way;                                 *)
(*   running     main's loop.                                              *)
(*                                                                         *)
(* An address is a hostname with an IP address, as the machine finds them  *)
(* when its process starts. An id is the number of the UUID in the order   *)
(* they are drawn; no agent sends an id of its own. Time passes in ticks;  *)
(* seen, a row's age, stands for last_seen, and a clock stops counting     *)
(* where nothing depends on it any more. Within Round ticks of its time a  *)
(* poll ends: the loop's other work takes no longer. cut says that the     *)
(* connect hook of the machine finds the manager's key in its map, see     *)
(* LockedOutStaysSo of PolicySync.                                         *)
(*                                                                         *)
(* epoch counts the databases: without its file the manager starts with an *)
(* empty one. born and served are history variables: the database a        *)
(* machine's id is from, and whether its last poll was answered.           *)
(***************************************************************************)
EXTENDS Integers

CONSTANTS Machines, Addresses,
          Period,     \* policy_sync_secs, in ticks
          Round,      \* what a round of the loop may take
          Fresh,      \* the age up to which the dashboard shows a row online
          MaxMoves,   \* bound on the changes of an address
          MaxFaults   \* bound on crashes, lost polls and lock-outs

ASSUME RegistryAssumption ==
  /\ {Period, Round, Fresh, MaxMoves, MaxFaults} \subseteq Nat
  /\ Period > 0

VARIABLES managerUp,
          rows, seen, drawn,           \* the table: address and age by id
          proc, address, sent, found, held, timer,    \* of each machine
          cut,                         \* of each machine: its hook refuses it
          epoch, born, served, moves, faults

table == <<rows, seen, drawn>>
machines == <<proc, sent, found, held, timer, cut, born, served>>
vars == <<managerUp, table, machines, address, epoch, moves, faults>>

Points == {"down", "asking", "registering", "answered", "running"}

NoId == 0

Init ==
  /\ managerUp = TRUE
  /\ rows = [i \in {} |-> NoId] /\ seen = rows /\ drawn = 0
  /\ proc = [m \in Machines |-> "down"]
  /\ address \in [Machines -> Addresses]
  /\ sent = address
  /\ found = [m \in Machines |-> NoId]
  /\ held = found
  /\ timer = [m \in Machines |-> 0]
  /\ epoch = 0
  /\ born = timer
  /\ served = [m \in Machines |-> FALSE]
  /\ cut = served
  /\ moves = 0
  /\ faults = 0

Fault == faults < MaxFaults /\ faults' = faults + 1

LockFree == \A m \in Machines : proc[m] # "registering"

Due(m) == proc[m] = "running" /\ timer[m] >= Period

\* The processes of these machines end, and what they held is gone.
End(dying) ==
  /\ proc' = [m \in Machines |-> IF m \in dying THEN "down" ELSE proc[m]]
  /\ found' = [m \in Machines |-> IF m \in dying THEN NoId ELSE found[m]]
  /\ held' = [m \in Machines |-> IF m \in dying THEN NoId ELSE held[m]]
  /\ timer' = [m \in Machines |-> IF m \in dying THEN 0 ELSE timer[m]]
  /\ born' = [m \in Machines |-> IF m \in dying THEN 0 ELSE born[m]]
  /\ served' = [m \in Machines |-> served[m] /\ m \notin dying]
  /\ cut' = [m \in Machines |-> cut[m] /\ m \notin dying]
  /\ UNCHANGED sent

-------------------------------------------------------------------------------

\* The unit starts the process, which asks for an id under the hostname and
\* the address of this moment.
UnitStarts(m) ==
  /\ proc[m] = "down"
  /\ proc' = [proc EXCEPT ![m] = "asking"]
  /\ sent' = [sent EXCEPT ![m] = address[m]]
  /\ UNCHANGED <<managerUp, table, address, found, held, timer, epoch, born,
                 served, cut, moves, faults>>

\* Mutant of RegisterFails: the process goes on without an id.
RunsUnregistered(m) ==
  /\ proc[m] = "asking"
  /\ ~managerUp
  /\ proc' = [proc EXCEPT ![m] = "running"]
  /\ UNCHANGED <<managerUp, table, address, sent, found, held, timer, epoch,
                 born, served, cut, moves, faults>>

\* register(...)? ends main.
RegisterFails(m) ==
  /\ proc[m] = "asking"
  /\ ~managerUp
  /\ End({m})
  /\ UNCHANGED <<managerUp, table, address, epoch, moves, faults>>

IdsAt(x) == {i \in DOMAIN rows : rows[i] = x}

\* Mutant of Lookup: the SELECT is outside the lock.
LookupUnlocked(m) ==
  /\ proc[m] = "asking"
  /\ managerUp
  /\ proc' = [proc EXCEPT ![m] = "registering"]
  /\ \E i \in IF IdsAt(sent[m]) = {} THEN {NoId} ELSE IdsAt(sent[m]) :
       found' = [found EXCEPT ![m] = i]
  /\ UNCHANGED <<managerUp, table, address, sent, held, timer, epoch, born,
                 served, cut, moves, faults>>

\* register_agent takes the lock and looks for a row of the address.
Lookup(m) ==
  /\ proc[m] = "asking"
  /\ managerUp
  /\ LockFree
  /\ proc' = [proc EXCEPT ![m] = "registering"]
  /\ \E i \in IF IdsAt(sent[m]) = {} THEN {NoId} ELSE IdsAt(sent[m]) :
       found' = [found EXCEPT ![m] = i]
  /\ UNCHANGED <<managerUp, table, address, sent, held, timer, epoch, born,
                 served, cut, moves, faults>>

\* UPDATE agents SET last_seen WHERE id: an id without a row is no error.
SeenAfter(id) == [i \in DOMAIN seen |-> IF i = id THEN 0 ELSE seen[i]]

\* Mutant of Write: the answer is always the UUID just drawn.
WriteNewId(m) ==
  /\ proc[m] = "registering"
  /\ proc' = [proc EXCEPT ![m] = "answered"]
  /\ drawn' = drawn + 1
  /\ rows' = IF found[m] # NoId THEN rows
             ELSE [i \in DOMAIN rows \cup {drawn'} |->
                     IF i = drawn' THEN sent[m] ELSE rows[i]]
  /\ seen' = [i \in DOMAIN rows' |->
                IF i \in {drawn', found[m]} THEN 0 ELSE seen[i]]
  /\ held' = [held EXCEPT ![m] = drawn']
  /\ found' = [found EXCEPT ![m] = NoId]
  /\ born' = [born EXCEPT ![m] = epoch]
  /\ UNCHANGED <<managerUp, address, sent, timer, epoch, served, cut, moves, faults>>

\* Mutant of Write: the inserted row has no last_seen.
WriteUnseen(m) ==
  /\ proc[m] = "registering"
  /\ proc' = [proc EXCEPT ![m] = "answered"]
  /\ \/ /\ found[m] # NoId
        /\ seen' = SeenAfter(found[m])
        /\ held' = [held EXCEPT ![m] = found[m]]
        /\ UNCHANGED <<rows, drawn>>
     \/ /\ found[m] = NoId
        /\ drawn' = drawn + 1
        /\ rows' = [i \in DOMAIN rows \cup {drawn'} |->
                      IF i = drawn' THEN sent[m] ELSE rows[i]]
        /\ held' = [held EXCEPT ![m] = drawn'] /\ UNCHANGED seen
  /\ found' = [found EXCEPT ![m] = NoId]
  /\ born' = [born EXCEPT ![m] = epoch]
  /\ UNCHANGED <<managerUp, address, sent, timer, epoch, served, cut, moves, faults>>

\* The row that was found is updated, or a row with a new UUID is inserted.
Write(m) ==
  /\ proc[m] = "registering"
  /\ proc' = [proc EXCEPT ![m] = "answered"]
  /\ \/ /\ found[m] # NoId
        /\ seen' = SeenAfter(found[m])
        /\ held' = [held EXCEPT ![m] = found[m]]
        /\ UNCHANGED <<rows, drawn>>
     \/ /\ found[m] = NoId
        /\ drawn' = drawn + 1
        /\ rows' = [i \in DOMAIN rows \cup {drawn'} |->
                      IF i = drawn' THEN sent[m] ELSE rows[i]]
        /\ seen' = [i \in DOMAIN rows' |-> IF i = drawn' THEN 0 ELSE seen[i]]
        /\ held' = [held EXCEPT ![m] = drawn']
  /\ found' = [found EXCEPT ![m] = NoId]
  /\ born' = [born EXCEPT ![m] = epoch]
  /\ UNCHANGED <<managerUp, address, sent, timer, epoch, served, cut, moves, faults>>

\* main has its id, loads the hooks and enters its loop, with the first poll
\* due at once.
Registered(m) ==
  /\ proc[m] = "answered"
  /\ proc' = [proc EXCEPT ![m] = "running"]
  /\ timer' = [timer EXCEPT ![m] = Period + Round]
  /\ served' = [served EXCEPT ![m] = FALSE]
  /\ UNCHANGED <<managerUp, table, address, sent, found, held, epoch, born,
                 cut, moves, faults>>

\* Mutant of Poll: the handler of the policy does not call heartbeat.
PollUnseen(m) ==
  /\ Due(m)
  /\ managerUp /\ ~cut[m]
  /\ LockFree
  /\ timer' = [timer EXCEPT ![m] = 0]
  /\ served' = [served EXCEPT ![m] = TRUE]
  /\ UNCHANGED <<managerUp, table, proc, address, sent, found, held, epoch,
                 born, cut, moves, faults>>

\* sync_policy asks for the policy, and the handler calls heartbeat. No
\* connection reaches the manager past a hook that refuses it.
Poll(m) ==
  /\ Due(m)
  /\ managerUp /\ ~cut[m]
  /\ LockFree
  /\ seen' = SeenAfter(held[m])
  /\ timer' = [timer EXCEPT ![m] = 0]
  /\ served' = [served EXCEPT ![m] = TRUE]
  /\ UNCHANGED <<managerUp, rows, drawn, proc, address, sent, found, held,
                 epoch, born, cut, moves, faults>>

\* The same, and the answer blocks the address of the manager: what a process
\* has put into its map it can only lose with its end (PolicySync).
PollLocksOut(m) ==
  /\ Due(m)
  /\ managerUp /\ ~cut[m]
  /\ LockFree
  /\ Fault
  /\ seen' = SeenAfter(held[m])
  /\ timer' = [timer EXCEPT ![m] = 0]
  /\ served' = [served EXCEPT ![m] = TRUE]
  /\ cut' = [cut EXCEPT ![m] = TRUE]
  /\ UNCHANGED <<managerUp, rows, drawn, proc, address, sent, found, held,
                 epoch, born, moves>>

\* No poll can succeed: the manager is down, or out of reach.
Hopeless(m) == ~managerUp \/ cut[m]

\* A poll that fails is not repeated before its time has come again.
PollFails(m) ==
  /\ Due(m)
  /\ IF Hopeless(m) THEN UNCHANGED faults ELSE Fault
  /\ timer' = [timer EXCEPT ![m] = 0]
  /\ served' = [served EXCEPT ![m] = FALSE]
  /\ UNCHANGED <<managerUp, table, proc, address, sent, found, held, epoch,
                 born, cut, moves>>

\* insert_events updates the row of the agent of each event.
PostEvents(m) ==
  /\ proc[m] = "running"
  /\ managerUp /\ ~cut[m]
  /\ LockFree
  /\ seen' = SeenAfter(held[m])
  /\ UNCHANGED <<managerUp, rows, drawn, machines, address, epoch, moves, faults>>

\* The process ends, or the answer it waits for is lost. If that happens inside
\* register_agent, the manager still commits: as if it happened right after.
AgentCrashes(m) ==
  /\ proc[m] \in {"asking", "answered", "running"}
  /\ Fault
  /\ End({m})
  /\ UNCHANGED <<managerUp, table, address, epoch, moves>>

\* The machine gets another address, or another hostname.
Moves(m) ==
  /\ moves < MaxMoves
  /\ moves' = moves + 1
  /\ \E x \in Addresses \ {address[m]} : address' = [address EXCEPT ![m] = x]
  /\ UNCHANGED <<managerUp, table, machines, epoch, faults>>

-------------------------------------------------------------------------------

\* The manager ends: an open transaction is rolled back, and the requests to
\* register that are not answered yet fail.
ManagerStops ==
  /\ managerUp
  /\ Fault
  /\ managerUp' = FALSE
  /\ End({m \in Machines : proc[m] \in {"asking", "registering"}})
  /\ UNCHANGED <<table, address, epoch, moves>>

ManagerStarts ==
  /\ ~managerUp
  /\ managerUp' = TRUE
  /\ UNCHANGED <<table, machines, address, epoch, moves, faults>>

\* Mutant of ManagerStartsAfresh: the ids are the numbers of the rows.
StartsAfreshNumbered ==
  /\ ~managerUp
  /\ managerUp' = TRUE
  /\ rows' = [i \in {} |-> NoId] /\ seen' = rows'
  /\ drawn' = 0
  /\ epoch' = epoch + 1
  /\ UNCHANGED <<machines, address, moves, faults>>

\* The manager starts without its database file and creates an empty one.
ManagerStartsAfresh ==
  /\ ~managerUp
  /\ managerUp' = TRUE
  /\ rows' = [i \in {} |-> NoId] /\ seen' = rows'
  /\ epoch' = epoch + 1
  /\ UNCHANGED <<drawn, machines, address, moves, faults>>

OneUpTo(n, bound) == IF n < bound THEN n + 1 ELSE bound

\* Time passes, unless a poll is late.
Tick ==
  /\ \A m \in Machines : proc[m] = "running" => timer[m] < Period + Round
  /\ seen' = [i \in DOMAIN seen |-> OneUpTo(seen[i], Fresh + 1)]
  /\ timer' = [m \in Machines |->
                 IF proc[m] = "running" THEN timer[m] + 1 ELSE timer[m]]
  /\ UNCHANGED <<managerUp, rows, drawn, proc, address, sent, found, held,
                 epoch, born, served, cut, moves, faults>>

Process(m) ==
  \/ UnitStarts(m) \/ RegisterFails(m) \/ Lookup(m) \/ Write(m) \/ Registered(m)
  \/ Poll(m) \/ (Hopeless(m) /\ PollFails(m))

Next ==
  \/ ManagerStops \/ ManagerStarts \/ ManagerStartsAfresh \/ Tick
  \/ \E m \in Machines :
       \/ Process(m) \/ PollFails(m) \/ PollLocksOut(m) \/ PostEvents(m)
       \/ AgentCrashes(m) \/ Moves(m)

Spec == Init /\ [][Next]_vars

\* The unit restarts the process, the process does not wait for anything but
\* the manager, and time passes. Nothing is assumed of the manager's restart.
FairSpec == Spec /\ WF_vars(Tick) /\ \A m \in Machines : WF_vars(Process(m))

-------------------------------------------------------------------------------

\* The shape of the state.
TypeOK ==
  /\ managerUp \in BOOLEAN
  /\ drawn \in Nat
  /\ DOMAIN rows \subseteq 1 .. drawn /\ rows \in [DOMAIN rows -> Addresses]
  /\ seen \in [DOMAIN rows -> 0 .. Fresh + 1]
  /\ proc \in [Machines -> Points]
  /\ address \in [Machines -> Addresses]
  /\ sent \in [Machines -> Addresses]
  /\ found \in [Machines -> 0 .. drawn]
  /\ held \in [Machines -> 0 .. drawn]
  /\ timer \in [Machines -> 0 .. Period + Round]
  /\ epoch \in 0 .. MaxFaults
  /\ born \in [Machines -> 0 .. epoch]
  /\ served \in [Machines -> BOOLEAN]
  /\ cut \in [Machines -> BOOLEAN]
  /\ moves \in 0 .. MaxMoves
  /\ faults \in 0 .. MaxFaults

\* Two machines that start at one address at the same time, or one whose
\* answer was lost and that asks again, do not get two rows.
OneRowPerAddress ==
  \A i, j \in DOMAIN rows : rows[i] = rows[j] => i = j

HasId(m) == proc[m] \in {"answered", "running"}

\* An id that a machine holds stands in the table for the address it gave when
\* its process started, through crashes, lost answers and changes of address;
\* only after the loss of the database it stands for nothing, and no other
\* machine ever gets it. So machines share an id, and with it their rules and
\* their status, exactly when they gave one address to one database.
IdStandsForAddress ==
  \A m \in Machines : HasId(m) =>
    IF born[m] = epoch THEN held[m] \in IdsAt(sent[m]) ELSE held[m] \notin DOMAIN rows

SharedIdSharedAddress ==
  \A m, n \in Machines : HasId(m) /\ HasId(n) =>
    (held[m] = held[n] <=> born[m] = born[n] /\ sent[m] = sent[n])

\* deriveAgentStatus of the dashboard.
Online(i) == i \in DOMAIN rows /\ seen[i] <= Fresh

\* A process whose polls are answered is shown online, also when it has no
\* events to post: the time of two polls and of a round of the loop is within
\* what the dashboard allows. (12 and 3 seconds, and 15.)
ServedIsOnline ==
  Period + Round <= Fresh =>
    \A m \in Machines :
      proc[m] = "running" /\ served[m] /\ born[m] = epoch => Online(held[m])

\* Once the manager stays up, every machine comes back, and is shown online for
\* good, whatever crashes, losses and moves there were before. There are two
\* exceptions, whose processes run on until they end: a machine whose process
\* outlived the database has an id that is in no table, and one whose own hook
\* refuses the manager's address reaches it no more.
ComesBack ==
  <>[]managerUp =>
    \A m \in Machines :
      <>[](proc[m] = "running" /\ (born[m] = epoch /\ ~cut[m] => Online(held[m])))
===============================================================================
