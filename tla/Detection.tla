------------------------------- MODULE Detection ------------------------------
(***************************************************************************)
(* The ingestion of events and the threshold detectors of the manager:     *)
(* insert_events and _threshold_state of manager/app.py, called by one     *)
(* handler thread for each agent with a POST of /api/v1/events under way.  *)
(* A call takes the loaded detectors first, then the storage lock and an   *)
(* SQLite transaction for the whole batch; the transaction is rolled back  *)
(* when an event cannot be stored (an argument of 2^63 or more does not    *)
(* fit SQLite's INTEGER). The correlation windows are an attribute of the  *)
(* Python object: no rollback reaches them and no restart keeps them.      *)
(*                                                                         *)
(* An event is [agent, class, ts]: the agent that saw it, what detectors   *)
(* and SQLite tell apart, and the second it was seen. An agent sends one   *)
(* batch at a time, its events in the order of its clock, and always names *)
(* itself. detectors is the catalog as DetectorCatalog.list last returned  *)
(* it; two TOML files with one id are not modelled. A file states its      *)
(* threshold [count, window], the classes its criteria match, whether the  *)
(* events are grouped by agent_id, and perhaps a summary template that     *)
(* cannot be filled in. All of it may be edited while the windows, which   *)
(* are kept under the id of the detector, stay as they are.                *)
(*                                                                         *)
(* received and applied are history variables: every event that was looked *)
(* at, also those whose transaction was rolled back, and the detectors it  *)
(* was looked at with.                                                     *)
(***************************************************************************)
EXTENDS Integers, Sequences, FiniteSets

CONSTANTS Agents,
          Classes,     \* what detectors and SQLite tell apart
          Unstorable,  \* the classes whose insertion raises
          Detectors,   \* detector ids
          Edited,      \* the detectors whose files are edited
          Rank,        \* the place of a detector's file among the others
          Settings,    \* what a TOML file may state
          Shipped,     \* the detectors at the start
          Absent,      \* no file for this id
          Shared,      \* the one group of a detector that does not group by agent
          MaxTs,       \* bound on the clock
          MaxEvents,   \* bound on the events of all agents
          MaxBatch,    \* bound on a batch (128 in the code)
          MaxFaults    \* bound on restarts and edits of detector files

ASSUME DetectionAssumption ==
  /\ \A x \in Settings :
       /\ x.count \in Nat \ {0} /\ x.window \in Nat
       /\ x.matched \subseteq Classes
       /\ x.byAgent \in BOOLEAN /\ x.badTemplate \in BOOLEAN
  /\ Absent \notin Settings
  /\ IsFiniteSet(Detectors)
  /\ Shipped \in [Detectors -> Settings \cup {Absent}]
  /\ Rank \in [Detectors -> Nat]
  /\ \A c, d \in Detectors : Rank[c] = Rank[d] => c = d
  /\ Shared \notin Agents
  /\ Unstorable \subseteq Classes
  /\ Edited \subseteq Detectors
  /\ {MaxTs, MaxEvents, MaxBatch, MaxFaults} \subseteq Nat

Groups == Agents \cup {Shared}

Events == [agent : Agents, class : Classes, ts : 0 .. MaxTs]

Loads == [Detectors -> Settings \cup {Absent}]

VARIABLES detectors, post, tx, windows, stored, hits, last, sent, faults, received, applied

vars == <<detectors, post, tx, windows, stored, hits, last, sent, faults, received, applied>>

\* A handler thread: no request, waiting for the lock, or inside it.
Phases == {"none", "waiting", "inside"}

NoPost == [phase |-> "none", batch |-> <<>>, loaded |-> Shipped]
NoTx == [events |-> <<>>, hits |-> {}]

Init ==
  /\ detectors = Shipped
  /\ post = [a \in Agents |-> NoPost]
  /\ tx = NoTx
  /\ windows = [d \in Detectors |-> [g \in Groups |-> <<>>]]
  /\ stored = <<>>
  /\ hits = {}
  /\ last = [a \in Agents |-> 0]
  /\ sent = 0
  /\ faults = 0
  /\ received = <<>>
  /\ applied = <<>>

-------------------------------------------------------------------------------

\* Detector.matches.
Matches(loaded, d, e) == loaded[d] # Absent /\ e.class \in loaded[d].matched

\* A detector with a threshold; any other emits on every match.
Correlates(setting) == setting.count > 1 /\ setting.window > 0

\* Mutant of GroupOf: group_by is ignored.
OneGroup(setting, e) == Shared

\* correlation_key_for.
GroupOf(setting, e) == IF setting.byAgent THEN e.agent ELSE Shared

\* Mutant of Pruned: a second at the cutoff is dropped as well.
PrunedAtCutoff(window, cutoff) ==
  LET recent == {i \in 1 .. Len(window) : window[i] > cutoff}
      first  == IF recent = {} THEN Len(window) + 1
                ELSE CHOOSE i \in recent : \A j \in recent : i <= j
  IN SubSeq(window, first, Len(window))

\* Mutant of Pruned: nothing is dropped.
NotPruned(window, cutoff) == window

\* popleft while the oldest second lies before the cutoff: what lies behind a
\* second that is recent enough stays, however old it is.
Pruned(window, cutoff) ==
  LET recent == {i \in 1 .. Len(window) : window[i] >= cutoff}
      first  == IF recent = {} THEN Len(window) + 1
                ELSE CHOOSE i \in recent : \A j \in recent : i <= j
  IN SubSeq(window, first, Len(window))

\* The window of detector d for event e once _threshold_state has run.
NextWindow(loaded, d, e) ==
  Append(Pruned(windows[d][GroupOf(loaded[d], e)], e.ts - loaded[d].window), e.ts)

\* should_emit: the count is met exactly.
Emits(loaded, d, e) ==
  /\ Matches(loaded, d, e)
  /\ Correlates(loaded[d]) => Len(NextWindow(loaded, d, e)) = loaded[d].count

\* match_count.
MatchCount(loaded, d, e) ==
  IF Correlates(loaded[d]) THEN Len(NextWindow(loaded, d, e)) ELSE 1

\* The loop over the detectors for one event.
WindowsAfter(loaded, e) ==
  [d \in Detectors |-> [g \in Groups |->
     IF Matches(loaded, d, e) /\ Correlates(loaded[d]) /\ g = GroupOf(loaded[d], e)
       THEN NextWindow(loaded, d, e)
       ELSE windows[d][g]]]

\* The detections of an event that has got row id rowid.
HitsOf(loaded, e, rowid) ==
  {[detector |-> d, event |-> rowid, count |-> MatchCount(loaded, d, e),
    setting |-> loaded[d]] : d \in {d \in Detectors : Emits(loaded, d, e)}}

\* The detectors whose summary_for raises.
FailsAt(loaded, e) == {d \in Detectors : Emits(loaded, d, e) /\ loaded[d].badTemplate}

\* The detectors of which the loop has come to the one at most.
UpTo(loaded, first) ==
  [d \in Detectors |-> IF Rank[d] <= Rank[first] THEN loaded[d] ELSE Absent]

Examine(loaded, e) ==
  /\ windows' = WindowsAfter(loaded, e)
  /\ received' = Append(received, e)
  /\ applied' = Append(applied, loaded)

-------------------------------------------------------------------------------

Batches(a) ==
  {b \in UNION {[1 .. n -> [agent : {a}, class : Classes, ts : last[a] .. MaxTs]] : n \in 1 .. MaxBatch} :
     \A i, j \in DOMAIN b : i < j => b[i].ts <= b[j].ts}

LockFree == \A a \in Agents : post[a].phase # "inside"

\* post_events of the agent arrives; insert_events asks the catalog for the
\* detectors, before it has the lock.
Post(a) ==
  /\ post[a].phase = "none"
  /\ \E b \in Batches(a) :
       /\ sent + Len(b) <= MaxEvents
       /\ sent' = sent + Len(b)
       /\ last' = [last EXCEPT ![a] = b[Len(b)].ts]
       /\ post' = [post EXCEPT ![a] =
            [phase |-> "waiting", batch |-> b, loaded |-> detectors]]
  /\ UNCHANGED <<detectors, tx, windows, stored, hits, faults, received, applied>>

\* Mutant of RowId: row ids from 0.
RowIdFromZero == Len(stored) + Len(tx.events)

\* cursor.lastrowid of the next insertion into events.
RowId == Len(stored) + Len(tx.events) + 1

\* with self.lock, self.conn.
Enter(a) ==
  /\ post[a].phase = "waiting"
  /\ LockFree
  /\ post' = [post EXCEPT ![a].phase = "inside"]
  /\ UNCHANGED <<detectors, tx, windows, stored, hits, last, sent, faults, received, applied>>

\* One round of the loop over the events of the batch.
InsertEvent(a) ==
  /\ post[a].phase = "inside"
  /\ post[a].batch # <<>>
  /\ LET e      == Head(post[a].batch)
         loaded == post[a].loaded
     IN /\ e.class \notin Unstorable
        /\ FailsAt(loaded, e) = {}
        /\ tx' = [events |-> Append(tx.events, e),
                  hits   |-> tx.hits \cup HitsOf(loaded, e, RowId)]
        /\ Examine(loaded, e)
  /\ post' = [post EXCEPT ![a].batch = Tail(post[a].batch)]
  /\ UNCHANGED <<detectors, stored, hits, last, sent, faults>>

\* Mutant of InsertRaises: the detections are in no transaction.
DetectionsKept(a) ==
  /\ post[a].phase = "inside"
  /\ post[a].batch # <<>>
  /\ Head(post[a].batch).class \in Unstorable
  /\ hits' = hits \cup tx.hits
  /\ tx' = NoTx
  /\ post' = [post EXCEPT ![a] = NoPost]
  /\ UNCHANGED <<detectors, windows, stored, last, sent, faults, received, applied>>

\* The insertion raises; the transaction is rolled back and the request fails,
\* and the agent drops the batch.
InsertRaises(a) ==
  /\ post[a].phase = "inside"
  /\ post[a].batch # <<>>
  /\ Head(post[a].batch).class \in Unstorable
  /\ tx' = NoTx
  /\ post' = [post EXCEPT ![a] = NoPost]
  /\ UNCHANGED <<detectors, windows, stored, hits, last, sent, faults, received, applied>>

\* The template of a detector cannot be filled in: the batch is rolled back and
\* dropped as well, but the detectors up to this one have counted the event.
SummaryRaises(a) ==
  /\ post[a].phase = "inside"
  /\ post[a].batch # <<>>
  /\ LET e      == Head(post[a].batch)
         loaded == post[a].loaded
     IN /\ e.class \notin Unstorable
        /\ \E first \in FailsAt(loaded, e) :
             /\ \A d \in FailsAt(loaded, e) : Rank[first] <= Rank[d]
             /\ Examine(UpTo(loaded, first), e)
  /\ tx' = NoTx
  /\ post' = [post EXCEPT ![a] = NoPost]
  /\ UNCHANGED <<detectors, stored, hits, last, sent, faults>>

\* The loop is over: the transaction is committed and the lock released.
Commit(a) ==
  /\ post[a].phase = "inside"
  /\ post[a].batch = <<>>
  /\ stored' = stored \o tx.events
  /\ hits' = hits \cup tx.hits
  /\ tx' = NoTx
  /\ post' = [post EXCEPT ![a] = NoPost]
  /\ UNCHANGED <<detectors, windows, last, sent, faults, received, applied>>

\* The manager ends, at any point, and starts again: requests fail and are not
\* sent again, the open transaction is gone, the windows are empty.
Restart ==
  /\ faults < MaxFaults
  /\ faults' = faults + 1
  /\ post' = [a \in Agents |-> NoPost]
  /\ tx' = NoTx
  /\ windows' = [d \in Detectors |-> [g \in Groups |-> <<>>]]
  /\ UNCHANGED <<detectors, stored, hits, last, sent, received, applied>>

\* The operator edits the file of a detector and the catalog has loaded it.
Reload(d) ==
  /\ faults < MaxFaults
  /\ faults' = faults + 1
  /\ \E x \in (Settings \cup {Absent}) \ {detectors[d]} :
       detectors' = [detectors EXCEPT ![d] = x]
  /\ UNCHANGED <<post, tx, windows, stored, hits, last, sent, received, applied>>

-------------------------------------------------------------------------------

\* The two tables as the one connection to the database shows them: with the
\* rows of the transaction under way.
ListedEvents == stored \o tx.events
ListedDetections == hits \cup tx.hits

-------------------------------------------------------------------------------

Next ==
  \/ Restart
  \/ \E d \in Edited : Reload(d)
  \/ \E a \in Agents :
       Post(a) \/ Enter(a) \/ InsertEvent(a) \/ InsertRaises(a)
       \/ SummaryRaises(a) \/ Commit(a)

Spec == Init /\ [][Next]_vars

-------------------------------------------------------------------------------

HitRecords == [detector : Detectors, event : 1 .. MaxEvents, count : Nat, setting : Settings]

\* The shape of the state.
TypeOK ==
  /\ detectors \in Loads
  /\ post \in [Agents -> [phase : Phases, batch : Seq(Events), loaded : Loads]]
  /\ tx \in [events : Seq(Events), hits : SUBSET HitRecords]
  /\ windows \in [Detectors -> [Groups -> Seq(0 .. MaxTs)]]
  /\ stored \in Seq(Events)
  /\ hits \in SUBSET HitRecords
  /\ last \in [Agents -> 0 .. MaxTs]
  /\ sent \in 0 .. MaxEvents
  /\ faults \in 0 .. MaxFaults
  /\ received \in Seq(Events)
  /\ applied \in Seq(Loads)

\* A committed detection belongs to a committed event that its detector
\* matches, whatever is rolled back or lost in a restart between the two
\* insertions: the row id given to the detection is that of its event.
HitsReferToStored ==
  \A h \in hits :
    /\ h.event \in 1 .. Len(stored)
    /\ stored[h.event].class \in h.setting.matched

\* The events received that the file of detector d, as it was loaded for each of
\* them, counts in group g.
CountedFor(d, g) ==
  {j \in 1 .. Len(received) :
     LET file == applied[j][d]
     IN /\ file # Absent
        /\ Correlates(file)
        /\ received[j].class \in file.matched
        /\ g = IF file.byAgent THEN received[j].agent ELSE Shared}

\* No false alarm: behind a detection of a detector that groups by agent are as
\* many events of the agent in its window as the TOML file asked for, each a
\* match of the file as it was loaded for that event. A rolled back batch may
\* have brought some of them. A restart, an edit of the threshold, of [match] or
\* of group_by, a batch that waits for the lock with files that are edited
\* meanwhile: none of these brings in a second that was not counted under the
\* agent. What is not said is that the events match the file of the detection
\* itself: after an edit of [match] the seconds of the old criteria are still in
\* the window and make up the count of the new ones.
HitsAreJustified ==
  \A h \in hits : h.setting.byAgent /\ Correlates(h.setting) =>
    LET e == stored[h.event]
    IN /\ h.count = h.setting.count
       /\ Cardinality({j \in CountedFor(h.detector, e.agent) :
                         received[j].ts \in e.ts - h.setting.window .. e.ts}) >= h.count

\* A detection of the one group of all agents, whose seconds may come out of
\* order, is not as strict: one of the matches received before the event lies in
\* its window, and with the matches since then they make the count, however old
\* some of those are. Nothing before the first of them is counted.
SharedHitsAreJustified ==
  \A h \in hits : ~h.setting.byAgent /\ Correlates(h.setting) =>
    /\ h.count = h.setting.count
    /\ \E end \in 1 .. Len(received) : \E first \in 1 .. end :
         LET matches == CountedFor(h.detector, Shared) \cap (first .. end)
         IN /\ received[end] = stored[h.event]
            /\ first \in matches
            /\ received[first].ts >= received[end].ts - h.setting.window
            /\ Cardinality(matches) >= h.count

\* The events of the agent of e, among those of sequence s, that setting matches
\* and that lie in the window behind e.
InWindow(s, e, setting) ==
  {j \in 1 .. Len(s) :
     /\ s[j].agent = e.agent
     /\ s[j].class \in setting.matched
     /\ s[j].ts \in e.ts - setting.window .. e.ts}

\* The detectors that group by agent.
ByAgent == {d \in Detectors : detectors[d] # Absent /\ detectors[d].byAgent}

\* The matches of detector d in the window behind stored event i, up to i.
RecentMatches(d, i) == {j \in InWindow(stored, stored[i], detectors[d]) : j <= i}

IsHit(d, i) == \E h \in hits : h.detector = d /\ h.event = i

\* No restart, no edit, and no batch that was rolled back.
Undisturbed == faults = 0 /\ received = ListedEvents

\* docs/detectors.md:107: a detector emits on the event that makes the number
\* of matches in the window behind it the threshold, on every such event and on
\* no other; without a threshold it emits on every match. It is so as long as
\* no batch is rolled back, the manager stays up and the files as they are.
ExactlyTheNth ==
  Undisturbed =>
    \A d \in ByAgent : \A i \in 1 .. Len(stored) :
      IsHit(d, i) <=>
        /\ Matches(detectors, d, stored[i])
        /\ Correlates(detectors[d]) =>
             Cardinality(RecentMatches(d, i)) = detectors[d].count

\* docs/detectors.md:107 of the events that are stored: when the threshold is
\* reached in a window, one of the matches in it has been detected.
NthMatchFires ==
  \A d \in ByAgent : \A i \in 1 .. Len(stored) :
    /\ Matches(detectors, d, stored[i])
    /\ Correlates(detectors[d])
    /\ Cardinality(RecentMatches(d, i)) >= detectors[d].count
    => \E j \in RecentMatches(d, i) : IsHit(d, j)
===============================================================================
