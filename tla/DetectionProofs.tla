---------------------------- MODULE DetectionProofs ----------------------------
(***************************************************************************)
(* Proofs about Detection, for any agents, classes, detectors, settings    *)
(* and bounds that satisfy DetectionAssumption.                            *)
(*                                                                         *)
(* The invariants behind the theorems: TInv, the shape of the state and    *)
(* what the lock gives; HitsInv, what a row id stands for; ClockInv, the   *)
(* order of the seconds of one agent; WindowsInv, the events that stand    *)
(* behind the seconds of a window; and for each theorem about detections   *)
(* what it says, of those whose transaction is open as well.               *)
(***************************************************************************)
EXTENDS Detection, FiniteSetTheorems, SequenceTheorems, WellFoundedInduction, TLAPS

USE DEF Loads

OneInside ==
  \A a, b \in Agents : post[a].phase = "inside" /\ post[b].phase = "inside" => a = b

\* The events that are not inserted yet, counted from the end of each batch.
Pending == {p \in Agents \X (1 .. MaxEvents) : p[2] <= Len(post[p[1]].batch)}

TInv ==
  /\ TypeOK
  /\ OneInside
  /\ LockFree => tx = NoTx
  /\ \A a \in Agents : post[a].phase = "none" => post[a].batch = <<>>
  /\ \A a \in Agents : Len(post[a].batch) <= MaxEvents
  /\ IsFiniteSet(Pending)
  /\ Len(stored) + Len(tx.events) + Cardinality(Pending) <= sent
  /\ IsFiniteSet(hits) /\ IsFiniteSet(tx.hits)
  /\ Len(applied) = Len(received)

\* A row id in a detection is that of an event its detector matches, and of an
\* event of the open transaction exactly when the detection is of it.
HitsInv ==
  /\ \A h \in hits : h.event <= Len(stored)
  /\ \A h \in tx.hits : h.event > Len(stored)
  /\ \A h \in ListedDetections :
       /\ h.event \in 1 .. Len(ListedEvents)
       /\ ListedEvents[h.event].class \in h.setting.matched

Sorted(s) == \A i, j \in 1 .. Len(s) : i <= j => s[i] <= s[j]

\* An agent sends its own events, in the order of its clock.
ClockOf(a) ==
  LET batch == post[a].batch
  IN /\ \A i, j \in 1 .. Len(batch) : i <= j => batch[i].ts <= batch[j].ts
     /\ \A i \in 1 .. Len(batch) : batch[i].agent = a /\ batch[i].ts <= last[a]
     /\ \A d \in Detectors :
          /\ Sorted(windows[d][a])
          /\ \A k \in 1 .. Len(windows[d][a]) :
               /\ windows[d][a][k] <= last[a]
               /\ \A i \in 1 .. Len(batch) : windows[d][a][k] <= batch[i].ts

ClockInv == \A a \in Agents : ClockOf(a)

\* CountedFor of the events of r, each looked at with the detectors in q.
CountedIn(r, q, d, g) ==
  {j \in 1 .. Len(r) :
     LET file == q[j][d]
     IN /\ file # Absent
        /\ Correlates(file)
        /\ r[j].class \in file.matched
        /\ g = IF file.byAgent THEN r[j].agent ELSE Shared}

\* The seconds of window are those of the events r[f[1]], r[f[2]], ..., which are
\* different ones of C, in the order in which they were received.
StandsFor(f, window, r, C) ==
  /\ f \in [1 .. Len(window) -> 1 .. Len(r)]
  /\ \A i, j \in 1 .. Len(window) : i < j => f[i] < f[j]
  /\ \A i \in 1 .. Len(window) : f[i] \in C /\ r[f[i]].ts = window[i]

\* An event of C that is not in the window is older than setting allows.
Complete(f, window, r, C, setting) ==
  \A j \in C :
    \/ \E i \in 1 .. Len(window) : f[i] = j
    \/ Len(window) > 0 /\ r[j].ts < window[Len(window)] - setting.window

\* A detector that groups by agent and has a threshold, from the start.
Counting(d) == Shipped[d] # Absent /\ Shipped[d].byAgent /\ Correlates(Shipped[d])

WindowsInv ==
  \A d \in Detectors, g \in Groups :
    \E f \in [1 .. Len(windows[d][g]) -> 1 .. Len(received)] :
      /\ StandsFor(f, windows[d][g], received, CountedIn(received, applied, d, g))
      /\ Undisturbed /\ Counting(d) =>
           Complete(f, windows[d][g], received, CountedIn(received, applied, d, g), Shipped[d])

\* HitsAreJustified and SharedHitsAreJustified of a detection of event e.
OwnJustified(h, r, C, e) ==
  /\ h.count = h.setting.count
  /\ Cardinality({j \in C : r[j].ts \in e.ts - h.setting.window .. e.ts}) >= h.count

SharedJustified(h, r, C, e) ==
  /\ h.count = h.setting.count
  /\ \E end \in 1 .. Len(r) : \E first \in 1 .. end :
       LET matches == C \cap (first .. end)
       IN /\ r[end] = e
          /\ first \in matches
          /\ r[first].ts >= r[end].ts - h.setting.window
          /\ Cardinality(matches) >= h.count

Justified(h, r, q, e) ==
  Correlates(h.setting) =>
    IF h.setting.byAgent THEN OwnJustified(h, r, CountedIn(r, q, h.detector, e.agent), e)
    ELSE SharedJustified(h, r, CountedIn(r, q, h.detector, Shared), e)

JustifiedInv ==
  \A h \in ListedDetections : Justified(h, received, applied, ListedEvents[h.event])

\* No event is listed that was not received.
LenInv == Len(ListedEvents) <= Len(received)

\* Without a fault the detectors are those at the start, for every call, and for
\* every event if no batch was rolled back either.
SettingsInv ==
  /\ faults = 0 => detectors = Shipped /\ \A a \in Agents : post[a].loaded = Shipped
  /\ Undisturbed => \A j \in 1 .. Len(applied) : applied[j] = Shipped

\* RecentMatches of the events of sequence s.
MatchesUpTo(s, i, setting) == {j \in InWindow(s, s[i], setting) : j <= i}

\* Detector d has to emit on event i of s.
Due(s, d, i) ==
  /\ Matches(Shipped, d, s[i])
  /\ Correlates(Shipped[d]) => Cardinality(MatchesUpTo(s, i, Shipped[d])) = Shipped[d].count

\* ExactlyTheNth, of the events of the open transaction as well.
ExactInv ==
  Undisturbed =>
    \A d \in Detectors : Shipped[d] # Absent /\ Shipped[d].byAgent =>
      \A i \in 1 .. Len(ListedEvents) :
        (\E h \in ListedDetections : h.detector = d /\ h.event = i)
          <=> Due(ListedEvents, d, i)

-------------------------------------------------------------------------------
(* What the operators of the model compute.                                *)

\* A nonempty set of numbers has a least one.
LEMMA Least ==
  ASSUME NEW S \in SUBSET Nat, S # {}
  PROVE  \E m \in S : \A k \in S : m <= k
<1> DEFINE R == OpToRel(<, Nat)
<1>1. IsWellFoundedOn(R, Nat)
  BY NatLessThanWellFounded
<1>2. \A x, y \in Nat : y < x => <<y, x>> \in R
  BY DEF OpToRel
<1> HIDE DEF R
<1>3. PICK m \in S : \A k \in S : ~(<<k, m>> \in R)
  BY <1>1, WFMin, Zenon
<1>4. \A k \in S : m <= k
  <2>1. SUFFICES ASSUME NEW k \in S PROVE m <= k
    OBVIOUS
  <2>2. m \in Nat /\ k \in Nat
    OBVIOUS
  <2>3. ~(k < m)
    BY <1>2, <1>3, <2>2, Zenon
  <2>4. QED BY <2>2, <2>3
<1>5. QED BY <1>4

\* Pruned drops what lies before the first second that is recent enough.
LEMMA PrunedIs ==
  ASSUME NEW S \in SUBSET Nat, NEW w \in Seq(S), NEW cutoff \in Int
  PROVE  \E n \in 0 .. Len(w) :
           /\ Pruned(w, cutoff) = SubSeq(w, n + 1, Len(w))
           /\ \A i \in 1 .. n : w[i] < cutoff
           /\ n < Len(w) => w[n + 1] >= cutoff
<1> DEFINE recent == {i \in 1 .. Len(w) : w[i] >= cutoff}
           first  == IF recent = {} THEN Len(w) + 1
                     ELSE CHOOSE i \in recent : \A j \in recent : i <= j
<1>1. /\ first \in 1 .. Len(w) + 1
      /\ first <= Len(w) => w[first] >= cutoff
      /\ \A i \in 1 .. first - 1 : ~(w[i] >= cutoff)
  <2>1. CASE recent = {}
    BY <2>1
  <2>2. CASE recent # {}
    <3>1. recent \in SUBSET Nat
      OBVIOUS
    <3>2. first \in recent /\ \A j \in recent : first <= j
      <4> HIDE DEF recent
      <4>1. QED BY <2>2, <3>1, Least
    <3>3. first \in 1 .. Len(w) /\ w[first] >= cutoff
      BY <3>2
    <3>4. \A i \in 1 .. first - 1 : i \notin recent
      <4> HIDE DEF recent
      <4>1. QED BY <3>2, <3>3
    <3>5. \A i \in 1 .. first - 1 : i \in 1 .. Len(w)
      BY <3>3
    <3>6. \A i \in 1 .. first - 1 : ~(w[i] >= cutoff)
      BY <3>4, <3>5
    <3>7. QED
      <4> HIDE DEF first
      <4>1. QED BY <3>3, <3>6
  <2>3. QED BY <2>1, <2>2
<1>2. Pruned(w, cutoff) = SubSeq(w, first, Len(w))
  BY DEF Pruned
<1> HIDE DEF first
<1>3. first - 1 \in 0 .. Len(w) /\ (first - 1) + 1 = first
  BY <1>1
<1>4. \A i \in 1 .. first - 1 : w[i] < cutoff
  <2>1. \A i \in 1 .. first - 1 : i \in 1 .. Len(w) /\ w[i] \in S
    BY <1>3
  <2>2. \A i \in 1 .. first - 1 : w[i] \in Nat
    BY <2>1
  <2>3. QED BY <1>1, <2>2
<1>5. first - 1 < Len(w) => w[(first - 1) + 1] >= cutoff
  BY <1>1, <1>3
<1>6. QED BY <1>2, <1>3, <1>4, <1>5

LEMMA BoundsType == {MaxTs, MaxEvents, MaxBatch, MaxFaults} \subseteq Nat
BY DetectionAssumption

LEMMA GroupType ==
  ASSUME NEW setting, NEW e \in Events
  PROVE  GroupOf(setting, e) \in Groups
BY DEF GroupOf, Groups, Events

LEMMA SettingType ==
  ASSUME NEW loaded \in Loads,
         NEW d \in Detectors, NEW e, Matches(loaded, d, e)
  PROVE  /\ loaded[d] \in Settings
         /\ loaded[d].count \in Nat \ {0} /\ loaded[d].window \in Nat
         /\ loaded[d].byAgent \in BOOLEAN
<1>1. loaded[d] \in Settings
  BY DEF Matches
<1>2. QED BY <1>1, DetectionAssumption

\* The window of a detector for an event: what was recent enough, and the event.
LEMMA NextWindowIs ==
  ASSUME windows \in [Detectors -> [Groups -> Seq(0 .. MaxTs)]],
         NEW loaded \in Loads,
         NEW d \in Detectors, NEW e \in Events, Matches(loaded, d, e)
  PROVE  LET w == windows[d][GroupOf(loaded[d], e)]
             cutoff == e.ts - loaded[d].window
             next == NextWindow(loaded, d, e)
         IN /\ next \in Seq(0 .. MaxTs)
            /\ \E n \in 0 .. Len(w) :
                 /\ Len(next) = Len(w) - n + 1
                 /\ \A i \in 1 .. Len(w) - n : next[i] = w[n + i]
                 /\ next[Len(w) - n + 1] = e.ts
                 /\ \A i \in 1 .. n : w[i] < cutoff
                 /\ n < Len(w) => w[n + 1] >= cutoff
<1> DEFINE w == windows[d][GroupOf(loaded[d], e)]
           cutoff == e.ts - loaded[d].window
           next == NextWindow(loaded, d, e)
<1>1. w \in Seq(0 .. MaxTs) /\ e.ts \in 0 .. MaxTs
  BY GroupType DEF Events
<1>2. 0 .. MaxTs \in SUBSET Nat
  BY BoundsType
<1>3. cutoff \in Int
  BY <1>1, <1>2, SettingType
<1>4. PICK n \in 0 .. Len(w) :
        /\ Pruned(w, cutoff) = SubSeq(w, n + 1, Len(w))
        /\ \A i \in 1 .. n : w[i] < cutoff
        /\ n < Len(w) => w[n + 1] >= cutoff
  <2> HIDE DEF w, cutoff
  <2>1. QED BY <1>1, <1>2, <1>3, PrunedIs
<1>5. next = Append(SubSeq(w, n + 1, Len(w)), e.ts)
  BY <1>4 DEF NextWindow
<1> HIDE DEF w, cutoff, next
<1>6. /\ SubSeq(w, n + 1, Len(w)) \in Seq(0 .. MaxTs)
      /\ Len(SubSeq(w, n + 1, Len(w))) = Len(w) - n
      /\ \A i \in 1 .. Len(w) - n : SubSeq(w, n + 1, Len(w))[i] = w[n + i]
  <2>1. Len(w) \in Nat /\ n + 1 \in Int /\ \A i \in n + 1 .. Len(w) : w[i] \in 0 .. MaxTs
    <3>1. Len(w) \in Nat /\ w \in [1 .. Len(w) -> 0 .. MaxTs]
      BY <1>1, LenProperties
    <3>2. \A i \in n + 1 .. Len(w) : i \in 1 .. Len(w)
      BY <3>1
    <3>3. QED BY <3>1, <3>2
  <2>2. /\ SubSeq(w, n + 1, Len(w)) \in Seq(0 .. MaxTs)
        /\ Len(SubSeq(w, n + 1, Len(w))) = IF n + 1 <= Len(w) THEN Len(w) - (n + 1) + 1 ELSE 0
        /\ \A i \in 1 .. Len(w) - (n + 1) + 1 : SubSeq(w, n + 1, Len(w))[i] = w[n + 1 + i - 1]
    BY <2>1, SubSeqProperties
  <2>3. QED BY <2>1, <2>2
<1>7. /\ next \in Seq(0 .. MaxTs) /\ Len(next) = Len(w) - n + 1
      /\ \A i \in 1 .. Len(w) - n : next[i] = w[n + i]
      /\ next[Len(w) - n + 1] = e.ts
  BY <1>1, <1>5, <1>6, AppendProperties
<1>8. QED BY <1>4, <1>7 DEF w, cutoff, next

LEMMA WindowsAfterType ==
  ASSUME windows \in [Detectors -> [Groups -> Seq(0 .. MaxTs)]],
         NEW loaded \in Loads, NEW e \in Events
  PROVE  WindowsAfter(loaded, e) \in [Detectors -> [Groups -> Seq(0 .. MaxTs)]]
<1>1. \A d \in Detectors : Matches(loaded, d, e) => NextWindow(loaded, d, e) \in Seq(0 .. MaxTs)
  BY NextWindowIs
<1>2. QED BY <1>1 DEF WindowsAfter

\* The hits of one event are one for each detector that emits.
LEMMA HitsOfType ==
  ASSUME windows \in [Detectors -> [Groups -> Seq(0 .. MaxTs)]],
         NEW loaded \in Loads, NEW e \in Events,
         NEW rowid \in 1 .. MaxEvents
  PROVE  /\ HitsOf(loaded, e, rowid) \in SUBSET HitRecords
         /\ IsFiniteSet(HitsOf(loaded, e, rowid))
         /\ \A h \in HitsOf(loaded, e, rowid) :
              /\ h.event = rowid /\ h.setting = loaded[h.detector] /\ h.detector \in Detectors
              /\ Matches(loaded, h.detector, e) /\ Emits(loaded, h.detector, e)
              /\ h.count = MatchCount(loaded, h.detector, e)
         /\ \A d \in Detectors : Emits(loaded, d, e) =>
              \E h \in HitsOf(loaded, e, rowid) : h.detector = d
<1> DEFINE emitting == {d \in Detectors : Emits(loaded, d, e)}
           hit(d) == [detector |-> d, event |-> rowid, count |-> MatchCount(loaded, d, e),
                      setting |-> loaded[d]]
<1>1. HitsOf(loaded, e, rowid) = {hit(d) : d \in emitting}
  BY DEF HitsOf
<1>2. ASSUME NEW d \in emitting PROVE hit(d) \in HitRecords
  <2>1. Matches(loaded, d, e)
    BY <1>2 DEF Emits
  <2>2. MatchCount(loaded, d, e) \in Nat
    <3>1. NextWindow(loaded, d, e) \in Seq(0 .. MaxTs)
      BY <2>1, NextWindowIs
    <3>2. QED BY <3>1 DEF MatchCount
  <2>3. QED BY <2>1, <2>2, SettingType DEF HitRecords
<1>3. IsFiniteSet({hit(d) : d \in emitting})
  <2>1. IsFiniteSet(emitting)
    BY FS_Subset, DetectionAssumption
  <2>2. [d \in emitting |-> hit(d)] \in Surjection(emitting, {hit(d) : d \in emitting})
    BY DEF Surjection
  <2> HIDE DEF emitting, hit
  <2>3. QED BY <2>1, <2>2, FS_Surjection
<1>4. \A d \in emitting : Matches(loaded, d, e) /\ Emits(loaded, d, e)
  BY DEF Emits
<1>5. ASSUME NEW h \in HitsOf(loaded, e, rowid)
      PROVE  /\ h \in HitRecords
             /\ h.event = rowid /\ h.setting = loaded[h.detector] /\ h.detector \in Detectors
             /\ Matches(loaded, h.detector, e) /\ Emits(loaded, h.detector, e)
             /\ h.count = MatchCount(loaded, h.detector, e)
  <2>1. PICK d \in emitting : h = hit(d)
    BY <1>1, <1>5
  <2>2. h \in HitRecords
    BY <1>2, <2>1
  <2>3. /\ h.event = rowid /\ h.detector = d /\ h.setting = loaded[d]
        /\ h.count = MatchCount(loaded, d, e)
    BY <2>1
  <2>4. QED BY <1>4, <2>2, <2>3
<1>6. ASSUME NEW d \in Detectors, Emits(loaded, d, e)
      PROVE  \E h \in HitsOf(loaded, e, rowid) : h.detector = d
  <2>1. hit(d) \in HitsOf(loaded, e, rowid) /\ hit(d).detector = d
    BY <1>1, <1>6
  <2>2. QED BY <2>1
<1>7. IsFiniteSet(HitsOf(loaded, e, rowid))
  BY <1>1, <1>3
<1> HIDE DEF emitting, hit
<1>8. QED BY <1>5, <1>6, <1>7

\* A batch: events of its agent, in the order of its clock.
LEMMA BatchIs ==
  ASSUME last \in [Agents -> 0 .. MaxTs], NEW a \in Agents, NEW b \in Batches(a)
  PROVE  /\ b \in Seq(Events) /\ Len(b) \in Nat \ {0}
         /\ \A i \in 1 .. Len(b) : b[i].agent = a /\ b[i].ts \in last[a] .. MaxTs
         /\ \A i, j \in 1 .. Len(b) : i <= j => b[i].ts <= b[j].ts
<1>1. PICK n \in 1 .. MaxBatch : b \in [1 .. n -> [agent : {a}, class : Classes, ts : last[a] .. MaxTs]]
  BY DEF Batches
<1>2. n \in Nat \ {0} /\ last[a] \in Nat /\ MaxTs \in Nat
  BY BoundsType
<1>3. [agent : {a}, class : Classes, ts : last[a] .. MaxTs] \subseteq Events
  BY <1>2 DEF Events
<1>4. b \in [1 .. n -> Events]
  BY <1>1, <1>3
<1>5. b \in Seq(Events) /\ Len(b) = n
  BY <1>2, <1>4
<1>6. \A i \in 1 .. Len(b) : b[i].agent = a /\ b[i].ts \in last[a] .. MaxTs
  BY <1>1, <1>5
<1>7. \A i, j \in 1 .. Len(b) : i < j => b[i].ts <= b[j].ts
  BY <1>1, <1>5 DEF Batches
<1>8. \A i, j \in 1 .. Len(b) : i <= j => b[i].ts <= b[j].ts
  <2>1. \A i \in 1 .. Len(b) : b[i].ts \in Nat
    BY <1>2, <1>6
  <2>2. QED BY <1>2, <1>5, <1>7, <2>1
<1>9. QED BY <1>2, <1>5, <1>6, <1>8

\* The parts of TInv that are about the handler threads and the numbers.
LEMMA PendingAdded ==
  ASSUME TInv, NEW a \in Agents, NEW n \in Nat, n <= MaxEvents,
         Len(post[a].batch) = 0, Len(post'[a].batch) = n,
         \A b \in Agents : b # a => post'[b] = post[b]
  PROVE  IsFiniteSet(Pending') /\ Cardinality(Pending') = Cardinality(Pending) + n
<1> DEFINE A == {a}
           N == 1 .. n
           added == A \X N
<1>1. Pending' = Pending \cup added
  BY BoundsType DEF Pending
<1>2. Pending \cap added = {}
  BY DEF Pending
<1>3. IsFiniteSet(added) /\ Cardinality(added) = n
  <2>1. IsFiniteSet(N) /\ Cardinality(N) = n
    BY FS_Interval
  <2>2. IsFiniteSet(A) /\ Cardinality(A) = 1
    BY FS_Singleton
  <2> HIDE DEF A, N
  <2>3. Cardinality(added) = Cardinality(A) * Cardinality(N) /\ IsFiniteSet(added)
    BY <2>1, <2>2, FS_Product
  <2>4. QED BY <2>1, <2>2, <2>3
<1>4. IsFiniteSet(Pending) /\ Cardinality(Pending) \in Nat
  BY FS_CardinalityType DEF TInv
<1> HIDE DEF added
<1>5. /\ IsFiniteSet(Pending \cup added)
      /\ Cardinality(Pending \cup added)
           = Cardinality(Pending) + Cardinality(added) - Cardinality(Pending \cap added)
  BY <1>3, <1>4, FS_Union
<1>6. Cardinality(Pending \cap added) = 0
  BY <1>2, FS_EmptySet
<1>7. Cardinality(Pending \cup added) = Cardinality(Pending) + n
  BY <1>3, <1>4, <1>5, <1>6
<1>8. QED BY <1>1, <1>5, <1>7

LEMMA PendingRemoved ==
  ASSUME TInv, NEW a \in Agents, NEW n \in 1 .. MaxEvents,
         Len(post[a].batch) = n, Len(post'[a].batch) = n - 1,
         \A b \in Agents : b # a => post'[b] = post[b]
  PROVE  IsFiniteSet(Pending') /\ Cardinality(Pending') = Cardinality(Pending) - 1
<1>1. <<a, n>> \in Pending
  BY BoundsType DEF Pending
<1>2. ASSUME NEW p \in Agents \X (1 .. MaxEvents)
      PROVE  p[2] <= Len(post'[p[1]].batch) <=> p[2] <= Len(post[p[1]].batch) /\ p # <<a, n>>
  <2>1. p[1] \in Agents /\ p[2] \in Nat /\ (p = <<a, n>> <=> p[1] = a /\ p[2] = n)
    BY BoundsType
  <2>2. QED BY <2>1, BoundsType
<1>3. Pending' = Pending \ {<<a, n>>}
  BY <1>2 DEF Pending
<1>4. QED BY <1>1, <1>3, FS_RemoveElement DEF TInv

LEMMA PendingShrinks ==
  ASSUME TInv,
         \A a \in Agents : post'[a].batch = <<>> \/ Len(post'[a].batch) = Len(post[a].batch)
  PROVE  IsFiniteSet(Pending') /\ Cardinality(Pending') <= Cardinality(Pending)
<1>1. Pending' \subseteq Pending
  <2>1. SUFFICES ASSUME NEW p \in Agents \X (1 .. MaxEvents), p[2] <= Len(post'[p[1]].batch)
                 PROVE  p[2] <= Len(post[p[1]].batch)
    BY DEF Pending
  <2>2. p[1] \in Agents /\ p[2] \in 1 .. MaxEvents
    OBVIOUS
  <2>3. post'[p[1]].batch # <<>>
    BY <2>1, <2>2, BoundsType, EmptySeq
  <2>4. QED BY <2>1, <2>2, <2>3
<1>2. QED BY <1>1, FS_Subset DEF TInv

LEMMA InitTInv == Init => TInv
<1>1. SUFFICES ASSUME Init PROVE TInv
  OBVIOUS
<1>2. NoPost \in [phase : Phases, batch : Seq(Events), loaded : Loads]
  BY DetectionAssumption DEF NoPost, Phases
<1>3. NoTx \in [events : Seq(Events), hits : SUBSET HitRecords]
  BY DEF NoTx
<1>4. TypeOK
  <2>1. windows \in [Detectors -> [Groups -> Seq(0 .. MaxTs)]]
    BY <1>1 DEF Init
  <2>2. last \in [Agents -> 0 .. MaxTs]
    BY <1>1, BoundsType DEF Init
  <2>3. sent \in 0 .. MaxEvents /\ faults \in 0 .. MaxFaults
    BY <1>1, BoundsType DEF Init
  <2>4. /\ stored \in Seq(Events) /\ received \in Seq(Events) /\ hits \in SUBSET HitRecords
        /\ applied \in Seq(Loads)
    BY <1>1 DEF Init
  <2>5. detectors \in Loads
    BY <1>1, DetectionAssumption DEF Init
  <2>6. /\ post \in [Agents -> [phase : Phases, batch : Seq(Events),
                                loaded : Loads]]
        /\ tx \in [events : Seq(Events), hits : SUBSET HitRecords]
    BY <1>1, <1>2, <1>3 DEF Init
  <2>7. QED BY <2>1, <2>2, <2>3, <2>4, <2>5, <2>6 DEF TypeOK
<1>5. \A a \in Agents : post[a].phase = "none" /\ post[a].batch = <<>>
  BY <1>1 DEF Init, NoPost
<1>6. Pending = {}
  BY <1>5, BoundsType, EmptySeq DEF Pending
<1>7. IsFiniteSet(Pending) /\ Cardinality(Pending) = 0
  BY <1>6, FS_EmptySet
<1>8. /\ Len(stored) = 0 /\ Len(tx.events) = 0 /\ sent = 0 /\ tx = NoTx
      /\ Len(applied) = Len(received)
  BY <1>1, EmptySeq DEF Init, NoTx
<1>9. IsFiniteSet(hits) /\ IsFiniteSet(tx.hits)
  BY <1>1, FS_EmptySet DEF Init, NoTx
<1>10. \A a \in Agents : Len(post[a].batch) <= MaxEvents
  BY <1>5, BoundsType, EmptySeq
<1>11. QED BY <1>4, <1>5, <1>7, <1>8, <1>9, <1>10 DEF TInv, OneInside

LEMMA LenType ==
  ASSUME TypeOK
  PROVE  /\ Len(stored) \in Nat /\ Len(tx.events) \in Nat /\ Len(received) \in Nat
         /\ \A a \in Agents : post[a].batch \in Seq(Events) /\ Len(post[a].batch) \in Nat
         /\ tx.events \in Seq(Events) /\ tx.hits \in SUBSET HitRecords
BY DEF TypeOK

LEMMA PostTInv ==
  ASSUME TInv, NEW a \in Agents, Post(a)
  PROVE  TInv'
<1> USE DEF TInv
<1>1. PICK b \in Batches(a) :
        /\ sent + Len(b) <= MaxEvents
        /\ sent' = sent + Len(b)
        /\ last' = [last EXCEPT ![a] = b[Len(b)].ts]
        /\ post' = [post EXCEPT ![a] = [phase |-> "waiting", batch |-> b, loaded |-> detectors]]
  BY DEF Post
<1>2. /\ post[a].phase = "none" /\ post[a].batch = <<>>
      /\ UNCHANGED <<detectors, tx, windows, stored, hits, faults, received, applied>>
  BY DEF Post
<1>3. b \in Seq(Events) /\ Len(b) \in Nat \ {0} /\ b[Len(b)].ts \in 0 .. MaxTs
  BY BatchIs, BoundsType DEF TypeOK
<1>4. sent' \in 0 .. MaxEvents /\ Len(b) <= MaxEvents
  BY <1>1, <1>3, BoundsType DEF TypeOK
<1>5. /\ post'[a] = [phase |-> "waiting", batch |-> b, loaded |-> detectors]
      /\ \A c \in Agents : c # a => post'[c] = post[c]
  BY <1>1 DEF TypeOK
<1>6. post' \in [Agents -> [phase : Phases, batch : Seq(Events),
                            loaded : Loads]]
  BY <1>1, <1>3 DEF TypeOK, Phases
<1>7. TypeOK'
  BY <1>1, <1>2, <1>3, <1>4, <1>6 DEF TypeOK
<1>8. IsFiniteSet(Pending') /\ Cardinality(Pending') = Cardinality(Pending) + Len(b)
  <2>1. Len(post[a].batch) = 0 /\ Len(post'[a].batch) = Len(b)
    BY <1>2, <1>5, EmptySeq
  <2>2. QED BY <1>3, <1>4, <1>5, <2>1, PendingAdded
<1>9. OneInside' /\ (LockFree' => LockFree)
  BY <1>2, <1>5 DEF OneInside, LockFree
<1>10. Len(stored') + Len(tx'.events) + Cardinality(Pending') <= sent'
  BY <1>1, <1>2, <1>3, <1>8, LenType, FS_CardinalityType DEF TypeOK
<1>11. \A c \in Agents : /\ post'[c].phase = "none" => post'[c].batch = <<>>
                         /\ Len(post'[c].batch) <= MaxEvents
  BY <1>4, <1>5
<1>12. QED BY <1>2, <1>7, <1>8, <1>9, <1>10, <1>11

\* The event that InsertEvent takes from the batch, and the rest of the batch.
LEMMA NextEventIs ==
  ASSUME TInv, NEW a \in Agents, post[a].phase = "inside", post[a].batch # <<>>
  PROVE  /\ Head(post[a].batch) \in Events /\ Head(post[a].batch) = post[a].batch[1]
         /\ Tail(post[a].batch) \in Seq(Events)
         /\ Len(post[a].batch) \in 1 .. MaxEvents
         /\ Len(Tail(post[a].batch)) = Len(post[a].batch) - 1
         /\ \A i \in 1 .. Len(post[a].batch) - 1 : Tail(post[a].batch)[i] = post[a].batch[i + 1]
         /\ post[a].loaded \in Loads
         /\ RowId \in 1 .. MaxEvents
<1> DEFINE batch == post[a].batch
<1>1. batch \in Seq(Events) /\ batch # <<>> /\ post[a].loaded \in Loads
  BY DEF TInv, TypeOK
<1>2. Len(batch) \in Nat \ {0} /\ Len(batch) <= MaxEvents
  BY <1>1, EmptySeq DEF TInv
<1>3. /\ Head(batch) \in Events /\ Tail(batch) \in Seq(Events) /\ Len(Tail(batch)) = Len(batch) - 1
      /\ \A i \in 1 .. Len(Tail(batch)) : Tail(batch)[i] = batch[i + 1]
  <2> HIDE DEF batch
  <2>1. QED BY <1>1, HeadTailProperties
<1>4. RowId \in 1 .. MaxEvents
  <2>1. <<a, Len(batch)>> \in Pending
    BY <1>2, BoundsType DEF Pending
  <2>2. Cardinality(Pending) \in Nat /\ Cardinality(Pending) # 0
    BY <2>1, FS_CardinalityType, FS_EmptySet DEF TInv
  <2>3. Len(stored) + Len(tx.events) + Cardinality(Pending) <= sent /\ sent \in 0 .. MaxEvents
    BY DEF TInv, TypeOK
  <2>4. QED BY <2>2, <2>3, LenType, BoundsType DEF TInv, RowId
<1>5. Head(batch) = batch[1]
  BY <1>1
<1>6. QED BY <1>1, <1>2, <1>3, <1>4, <1>5, BoundsType

LEMMA EnterTInv ==
  ASSUME TInv, NEW a \in Agents, Enter(a)
  PROVE  TInv'
<1> USE DEF TInv
<1>1. /\ post[a].phase = "waiting" /\ LockFree
      /\ post' = [post EXCEPT ![a].phase = "inside"]
      /\ UNCHANGED <<detectors, tx, windows, stored, hits, last, sent, faults, received, applied>>
  BY DEF Enter
<1>2. /\ post'[a].phase = "inside" /\ post'[a].batch = post[a].batch
      /\ \A c \in Agents : c # a => post'[c] = post[c]
  BY <1>1 DEF TypeOK
<1>3. TypeOK'
  <2>1. post' \in [Agents -> [phase : Phases, batch : Seq(Events),
                              loaded : Loads]]
    BY <1>1 DEF TypeOK, Phases
  <2>2. QED BY <1>1, <2>1 DEF TypeOK
<1>4. IsFiniteSet(Pending') /\ Cardinality(Pending') <= Cardinality(Pending)
  BY <1>2, PendingShrinks
<1>5. OneInside' /\ ~LockFree'
  BY <1>1, <1>2 DEF OneInside, LockFree
<1>6. Len(stored') + Len(tx'.events) + Cardinality(Pending') <= sent'
  BY <1>1, <1>4, LenType, FS_CardinalityType DEF TypeOK
<1>7. \A c \in Agents : /\ post'[c].phase = "none" => post'[c].batch = <<>>
                        /\ Len(post'[c].batch) <= MaxEvents
  BY <1>2
<1>8. QED BY <1>1, <1>3, <1>4, <1>5, <1>6, <1>7

\* InsertEvent or SummaryRaises of agent a looks at an event with the detectors run.
Examines(a, run) ==
  /\ post[a].phase = "inside" /\ post[a].batch # <<>>
  /\ run \in Loads
  /\ Examine(run, Head(post[a].batch))

LEMMA ExaminesType ==
  ASSUME TInv, NEW a \in Agents, NEW run, Examines(a, run)
  PROVE  /\ windows' \in [Detectors -> [Groups -> Seq(0 .. MaxTs)]]
         /\ received' \in Seq(Events) /\ applied' \in Seq(Loads)
         /\ Len(received') = Len(received) + 1 /\ Len(applied') = Len(received')
         /\ \A i \in 1 .. Len(received) : received'[i] = received[i] /\ applied'[i] = applied[i]
         /\ received'[Len(received) + 1] = Head(post[a].batch)
         /\ applied'[Len(received) + 1] = run
<1> DEFINE e == Head(post[a].batch)
<1>1. /\ post[a].phase = "inside" /\ post[a].batch # <<>> /\ run \in Loads
      /\ windows' = WindowsAfter(run, e)
      /\ received' = Append(received, e) /\ applied' = Append(applied, run)
  BY DEF Examines, Examine
<1>2. e \in Events
  BY <1>1, NextEventIs
<1>3. /\ received \in Seq(Events) /\ applied \in Seq(Loads) /\ Len(applied) = Len(received)
      /\ windows \in [Detectors -> [Groups -> Seq(0 .. MaxTs)]]
  BY DEF TInv, TypeOK
<1> HIDE DEF e
<1>4. windows' \in [Detectors -> [Groups -> Seq(0 .. MaxTs)]]
  BY <1>1, <1>2, <1>3, WindowsAfterType
<1>5. /\ received' \in Seq(Events) /\ Len(received') = Len(received) + 1
      /\ \A i \in 1 .. Len(received) : received'[i] = received[i]
      /\ received'[Len(received) + 1] = e
  BY <1>1, <1>2, <1>3, AppendProperties
<1>6. /\ applied' \in Seq(Loads) /\ Len(applied') = Len(applied) + 1
      /\ \A i \in 1 .. Len(applied) : applied'[i] = applied[i]
      /\ applied'[Len(applied) + 1] = run
  <2> HIDE DEF Loads
  <2>1. QED BY <1>1, <1>3, AppendProperties
<1>7. QED BY <1>3, <1>4, <1>5, <1>6 DEF e

LEMMA InsertEventExamines ==
  ASSUME TInv, NEW a \in Agents, InsertEvent(a)
  PROVE  Examines(a, post[a].loaded)
<1>1. post[a].phase = "inside" /\ post[a].batch # <<>>
  BY DEF InsertEvent
<1>2. post[a].loaded \in Loads
  BY <1>1, NextEventIs
<1>3. QED BY <1>1, <1>2 DEF InsertEvent, Examines

LEMMA SummaryRaisesExamines ==
  ASSUME TInv, NEW a \in Agents, SummaryRaises(a)
  PROVE  \E run : Examines(a, run)
<1>1. post[a].phase = "inside" /\ post[a].batch # <<>>
  BY DEF SummaryRaises
<1>2. PICK first : Examine(UpTo(post[a].loaded, first), Head(post[a].batch))
  BY DEF SummaryRaises
<1>3. UpTo(post[a].loaded, first) \in Loads
  BY <1>1, NextEventIs DEF UpTo
<1>4. QED BY <1>1, <1>2, <1>3 DEF Examines

LEMMA InsertEventTInv ==
  ASSUME TInv, NEW a \in Agents, InsertEvent(a)
  PROVE  TInv'
<1> USE DEF TInv
<1> DEFINE e == Head(post[a].batch)
           new == HitsOf(post[a].loaded, e, RowId)
<1>1. /\ post[a].phase = "inside" /\ post[a].batch # <<>>
      /\ tx' = [events |-> Append(tx.events, e), hits |-> tx.hits \cup new]
      /\ post' = [post EXCEPT ![a].batch = Tail(post[a].batch)]
      /\ UNCHANGED <<detectors, stored, hits, last, sent, faults>>
  BY DEF InsertEvent
<1>2. /\ e \in Events /\ Tail(post[a].batch) \in Seq(Events) /\ RowId \in 1 .. MaxEvents
      /\ Len(post[a].batch) \in 1 .. MaxEvents
      /\ Len(Tail(post[a].batch)) = Len(post[a].batch) - 1
      /\ post[a].loaded \in Loads
  BY <1>1, NextEventIs
<1>3. new \in SUBSET HitRecords /\ IsFiniteSet(new)
  <2>1. windows \in [Detectors -> [Groups -> Seq(0 .. MaxTs)]]
    BY DEF TypeOK
  <2> HIDE DEF TInv, e
  <2>2. QED BY <1>2, <2>1, HitsOfType
<1>4. /\ windows' \in [Detectors -> [Groups -> Seq(0 .. MaxTs)]]
      /\ received' \in Seq(Events) /\ applied' \in Seq(Loads) /\ Len(applied') = Len(received')
  BY InsertEventExamines, ExaminesType
<1> HIDE DEF e, new
<1>5. /\ post'[a].phase = "inside" /\ post'[a].batch = Tail(post[a].batch)
      /\ \A c \in Agents : c # a => post'[c] = post[c]
  BY <1>1, <1>2 DEF TypeOK
<1>6. Append(tx.events, e) \in Seq(Events) /\ Len(Append(tx.events, e)) = Len(tx.events) + 1
  BY <1>2, LenType, AppendProperties DEF TypeOK
<1>7. TypeOK'
  <2>1. post' \in [Agents -> [phase : Phases, batch : Seq(Events),
                              loaded : Loads]]
    <3>1. [post[a] EXCEPT !.batch = Tail(post[a].batch)] \in
            [phase : Phases, batch : Seq(Events), loaded : Loads]
      <4>1. post[a] \in [phase : Phases, batch : Seq(Events),
                         loaded : Loads]
        BY DEF TypeOK
      <4>2. Tail(post[a].batch) \in Seq(Events)
        BY <1>2
      <4>3. QED BY <4>1, <4>2
    <3>2. post' = [post EXCEPT ![a] = [post[a] EXCEPT !.batch = Tail(post[a].batch)]]
      BY <1>1
    <3>3. QED BY <3>1, <3>2 DEF TypeOK
  <2>2. tx' \in [events : Seq(Events), hits : SUBSET HitRecords]
    BY <1>1, <1>3, <1>6, LenType
  <2>3. QED BY <1>1, <1>4, <1>6, <2>1, <2>2 DEF TypeOK
<1>8. IsFiniteSet(Pending') /\ Cardinality(Pending') = Cardinality(Pending) - 1
  BY <1>2, <1>5, PendingRemoved
<1>9. IsFiniteSet(tx'.hits) /\ IsFiniteSet(hits')
  BY <1>1, <1>3, FS_Union
<1>10. OneInside' /\ ~LockFree'
  BY <1>1, <1>5 DEF OneInside, LockFree
<1>11. Len(stored') + Len(tx'.events) + Cardinality(Pending') <= sent'
  <2>1. Len(tx'.events) = Len(tx.events) + 1
    BY <1>1, <1>6
  <2>2. Cardinality(Pending) \in Nat /\ sent \in Nat
    BY FS_CardinalityType, BoundsType DEF TypeOK
  <2>3. QED BY <1>1, <1>8, <2>1, <2>2, LenType
<1>12. \A c \in Agents : /\ post'[c].phase = "none" => post'[c].batch = <<>>
                         /\ Len(post'[c].batch) <= MaxEvents
  <2>1. SUFFICES ASSUME NEW c \in Agents
                 PROVE  /\ post'[c].phase = "none" => post'[c].batch = <<>>
                        /\ Len(post'[c].batch) <= MaxEvents
    OBVIOUS
  <2>2. CASE c = a
    <3>1. Len(post'[a].batch) <= MaxEvents
      BY <1>2, <1>5, BoundsType
    <3>2. QED BY <1>5, <2>2, <3>1
  <2>3. CASE c # a
    BY <1>5, <2>3
  <2>4. QED BY <2>2, <2>3
<1>13. QED BY <1>4, <1>7, <1>8, <1>9, <1>10, <1>11, <1>12

\* A call ends, or all of them do.
LEMMA EndTInv ==
  ASSUME TInv, NEW ended \in SUBSET Agents,
         post' = [a \in Agents |-> IF a \in ended THEN NoPost ELSE post[a]],
         \A a \in Agents : post[a].phase = "inside" => a \in ended
  PROVE  /\ post' \in [Agents -> [phase : Phases, batch : Seq(Events),
                                 loaded : Loads]]
         /\ OneInside' /\ LockFree'
         /\ \A c \in Agents : /\ post'[c].phase = "none" => post'[c].batch = <<>>
                              /\ Len(post'[c].batch) <= MaxEvents
         /\ IsFiniteSet(Pending') /\ Cardinality(Pending') <= Cardinality(Pending)
         /\ Cardinality(Pending') \in Nat
<1> USE DEF TInv
<1>1. NoPost \in [phase : Phases, batch : Seq(Events), loaded : Loads]
  BY DetectionAssumption DEF NoPost, Phases
<1>2. post' \in [Agents -> [phase : Phases, batch : Seq(Events),
                            loaded : Loads]]
  BY <1>1 DEF TypeOK
<1>3. \A c \in Agents : post'[c] = NoPost \/ (post'[c] = post[c] /\ post[c].phase # "inside")
  OBVIOUS
<1>4. NoPost.phase = "none" /\ NoPost.batch = <<>> /\ Len(NoPost.batch) = 0
  BY EmptySeq DEF NoPost
<1>5. OneInside' /\ LockFree'
  BY <1>3, <1>4 DEF OneInside, LockFree
<1>6. \A c \in Agents : /\ post'[c].phase = "none" => post'[c].batch = <<>>
                        /\ Len(post'[c].batch) <= MaxEvents
  BY <1>3, <1>4, BoundsType
<1>7. IsFiniteSet(Pending') /\ Cardinality(Pending') <= Cardinality(Pending)
  BY <1>3, <1>4, PendingShrinks
<1>8. QED BY <1>2, <1>5, <1>6, <1>7, FS_CardinalityType

LEMMA NoTxType ==
  /\ NoTx \in [events : Seq(Events), hits : SUBSET HitRecords]
  /\ NoTx.events = <<>> /\ Len(NoTx.events) = 0 /\ NoTx.hits = {} /\ IsFiniteSet(NoTx.hits)
BY FS_EmptySet, EmptySeq DEF NoTx

LEMMA InsertRaisesTInv ==
  ASSUME TInv, NEW a \in Agents, InsertRaises(a)
  PROVE  TInv'
<1> USE DEF TInv
<1>1. /\ post[a].phase = "inside" /\ tx' = NoTx /\ post' = [post EXCEPT ![a] = NoPost]
      /\ UNCHANGED <<detectors, windows, stored, hits, last, sent, faults, received, applied>>
  BY DEF InsertRaises
<1>2. /\ post' \in [Agents -> [phase : Phases, batch : Seq(Events),
                              loaded : Loads]]
      /\ OneInside' /\ LockFree'
      /\ \A c \in Agents : /\ post'[c].phase = "none" => post'[c].batch = <<>>
                           /\ Len(post'[c].batch) <= MaxEvents
      /\ IsFiniteSet(Pending') /\ Cardinality(Pending') <= Cardinality(Pending)
      /\ Cardinality(Pending') \in Nat
  <2>1. /\ post' = [b \in Agents |-> IF b \in {a} THEN NoPost ELSE post[b]]
        /\ \A b \in Agents : post[b].phase = "inside" => b \in {a}
    BY <1>1 DEF TypeOK, OneInside
  <2>2. {a} \in SUBSET Agents
    OBVIOUS
  <2>3. QED BY <2>1, <2>2, EndTInv
<1>3. TypeOK'
  BY <1>1, <1>2, NoTxType DEF TypeOK
<1>4. Len(stored') + Len(tx'.events) + Cardinality(Pending') <= sent'
  <2>1. Cardinality(Pending) \in Nat /\ sent \in Nat
    BY FS_CardinalityType, BoundsType DEF TypeOK
  <2>2. QED BY <1>1, <1>2, <2>1, LenType, NoTxType
<1>5. QED BY <1>1, <1>2, <1>3, <1>4, NoTxType

LEMMA SummaryRaisesTInv ==
  ASSUME TInv, NEW a \in Agents, SummaryRaises(a)
  PROVE  TInv'
<1> USE DEF TInv
<1>1. /\ post[a].phase = "inside" /\ tx' = NoTx /\ post' = [post EXCEPT ![a] = NoPost]
      /\ UNCHANGED <<detectors, stored, hits, last, sent, faults>>
      /\ windows' \in [Detectors -> [Groups -> Seq(0 .. MaxTs)]]
      /\ received' \in Seq(Events) /\ applied' \in Seq(Loads) /\ Len(applied') = Len(received')
  BY SummaryRaisesExamines, ExaminesType DEF SummaryRaises
<1>2. /\ post' \in [Agents -> [phase : Phases, batch : Seq(Events),
                              loaded : Loads]]
      /\ OneInside' /\ LockFree'
      /\ \A c \in Agents : /\ post'[c].phase = "none" => post'[c].batch = <<>>
                           /\ Len(post'[c].batch) <= MaxEvents
      /\ IsFiniteSet(Pending') /\ Cardinality(Pending') <= Cardinality(Pending)
      /\ Cardinality(Pending') \in Nat
  <2>1. /\ post' = [b \in Agents |-> IF b \in {a} THEN NoPost ELSE post[b]]
        /\ \A b \in Agents : post[b].phase = "inside" => b \in {a}
    BY <1>1 DEF TypeOK, OneInside
  <2>2. {a} \in SUBSET Agents
    OBVIOUS
  <2>3. QED BY <2>1, <2>2, EndTInv
<1>3. TypeOK'
  BY <1>1, <1>2, NoTxType DEF TypeOK
<1>4. Len(stored') + Len(tx'.events) + Cardinality(Pending') <= sent'
  <2>1. Cardinality(Pending) \in Nat /\ sent \in Nat
    BY FS_CardinalityType, BoundsType DEF TypeOK
  <2>2. QED BY <1>1, <1>2, <2>1, LenType, NoTxType
<1>5. QED BY <1>1, <1>2, <1>3, <1>4, NoTxType

LEMMA CommitTInv ==
  ASSUME TInv, NEW a \in Agents, Commit(a)
  PROVE  TInv'
<1> USE DEF TInv
<1>1. /\ post[a].phase = "inside" /\ tx' = NoTx /\ post' = [post EXCEPT ![a] = NoPost]
      /\ stored' = stored \o tx.events /\ hits' = hits \cup tx.hits
      /\ UNCHANGED <<detectors, windows, last, sent, faults, received, applied>>
  BY DEF Commit
<1>2. /\ post' \in [Agents -> [phase : Phases, batch : Seq(Events),
                              loaded : Loads]]
      /\ OneInside' /\ LockFree'
      /\ \A c \in Agents : /\ post'[c].phase = "none" => post'[c].batch = <<>>
                           /\ Len(post'[c].batch) <= MaxEvents
      /\ IsFiniteSet(Pending') /\ Cardinality(Pending') <= Cardinality(Pending)
      /\ Cardinality(Pending') \in Nat
  <2>1. /\ post' = [b \in Agents |-> IF b \in {a} THEN NoPost ELSE post[b]]
        /\ \A b \in Agents : post[b].phase = "inside" => b \in {a}
    BY <1>1 DEF TypeOK, OneInside
  <2>2. {a} \in SUBSET Agents
    OBVIOUS
  <2>3. QED BY <2>1, <2>2, EndTInv
<1>3. stored' \in Seq(Events) /\ Len(stored') = Len(stored) + Len(tx.events)
  BY <1>1, LenType, ConcatProperties DEF TypeOK
<1>4. hits' \in SUBSET HitRecords /\ IsFiniteSet(hits')
  BY <1>1, LenType, FS_Union DEF TypeOK
<1>5. TypeOK'
  BY <1>1, <1>2, <1>3, <1>4, NoTxType DEF TypeOK
<1>6. Len(stored') + Len(tx'.events) + Cardinality(Pending') <= sent'
  <2>1. Cardinality(Pending) \in Nat /\ sent \in Nat
    BY FS_CardinalityType, BoundsType DEF TypeOK
  <2>2. QED BY <1>1, <1>2, <1>3, <2>1, LenType, NoTxType
<1>7. QED BY <1>1, <1>2, <1>4, <1>5, <1>6, NoTxType

LEMMA RestartTInv ==
  ASSUME TInv, Restart
  PROVE  TInv'
<1> USE DEF TInv
<1>1. /\ faults' \in 0 .. MaxFaults /\ post' = [a \in Agents |-> NoPost] /\ tx' = NoTx
      /\ windows' = [d \in Detectors |-> [g \in Groups |-> <<>>]]
      /\ UNCHANGED <<detectors, stored, hits, last, sent, received, applied>>
  BY BoundsType DEF Restart, TypeOK
<1>2. /\ post' \in [Agents -> [phase : Phases, batch : Seq(Events),
                              loaded : Loads]]
      /\ OneInside' /\ LockFree'
      /\ \A c \in Agents : /\ post'[c].phase = "none" => post'[c].batch = <<>>
                           /\ Len(post'[c].batch) <= MaxEvents
      /\ IsFiniteSet(Pending') /\ Cardinality(Pending') <= Cardinality(Pending)
      /\ Cardinality(Pending') \in Nat
  BY <1>1, EndTInv
<1>3. windows' \in [Detectors -> [Groups -> Seq(0 .. MaxTs)]]
  BY <1>1
<1>4. TypeOK'
  BY <1>1, <1>2, <1>3, NoTxType DEF TypeOK
<1>5. Len(stored') + Len(tx'.events) + Cardinality(Pending') <= sent'
  <2>1. Cardinality(Pending) \in Nat /\ sent \in Nat
    BY FS_CardinalityType, BoundsType DEF TypeOK
  <2>2. QED BY <1>1, <1>2, <2>1, LenType, NoTxType
<1>6. QED BY <1>1, <1>2, <1>4, <1>5, NoTxType

LEMMA ReloadTInv ==
  ASSUME TInv, NEW d \in Edited, Reload(d)
  PROVE  TInv'
<1>1. /\ faults' \in 0 .. MaxFaults /\ detectors' \in Loads
      /\ UNCHANGED <<post, tx, windows, stored, hits, last, sent, received, applied>>
  <2>1. PICK x \in Settings \cup {Absent} : detectors' = [detectors EXCEPT ![d] = x]
    BY DEF Reload
  <2>2. detectors' \in Loads
    BY <2>1 DEF TInv, TypeOK
  <2>3. faults' \in 0 .. MaxFaults
    BY BoundsType DEF Reload, TInv, TypeOK
  <2>4. QED BY <2>2, <2>3 DEF Reload
<1>2. QED BY <1>1 DEF TInv, TypeOK, OneInside, LockFree, Pending

LEMMA NextTInv == TInv /\ [Next]_vars => TInv'
<1>1. TInv /\ UNCHANGED vars => TInv'
  BY DEF vars, TInv, TypeOK, OneInside, LockFree, Pending
<1>2. QED
  BY <1>1, PostTInv, EnterTInv, InsertEventTInv, InsertRaisesTInv, SummaryRaisesTInv,
     CommitTInv, RestartTInv, ReloadTInv DEF Next

LEMMA TInvHolds == Spec => []TInv
BY InitTInv, NextTInv, PTL DEF Spec

\* The shape of the state is kept; what is not plain is that row ids stay within
\* the events that agents may send: the proof counts the events stored, inserted
\* and under way, which are never more than those sent.
THEOREM TypeCorrect == Spec => []TypeOK
<1>1. TInv => TypeOK
  BY DEF TInv
<1>2. QED BY <1>1, TInvHolds, PTL

-------------------------------------------------------------------------------
(* The rows of the two tables, and their ids.                              *)

LEMMA ListedIs ==
  ASSUME TInv
  PROVE  /\ ListedEvents \in Seq(Events) /\ Len(ListedEvents) \in Nat
         /\ Len(ListedEvents) = Len(stored) + Len(tx.events)
         /\ RowId = Len(ListedEvents) + 1
         /\ \A i \in 1 .. Len(stored) : ListedEvents[i] = stored[i]
<1>1. stored \in Seq(Events) /\ tx.events \in Seq(Events)
  BY DEF TInv, TypeOK
<1>2. Len(stored) \in Nat /\ Len(tx.events) \in Nat
  BY <1>1
<1>3. /\ stored \o tx.events \in Seq(Events)
      /\ Len(stored \o tx.events) = Len(stored) + Len(tx.events)
      /\ \A i \in 1 .. Len(stored) + Len(tx.events) :
           (stored \o tx.events)[i] = IF i <= Len(stored) THEN stored[i]
                                      ELSE tx.events[i - Len(stored)]
  BY <1>1, ConcatProperties
<1>4. \A i \in 1 .. Len(stored) : i \in 1 .. Len(stored) + Len(tx.events) /\ i <= Len(stored)
  BY <1>2
<1>5. QED BY <1>2, <1>3, <1>4 DEF ListedEvents, RowId

LEMMA ListedInsert ==
  ASSUME TInv, NEW a \in Agents, InsertEvent(a)
  PROVE  LET e == Head(post[a].batch)
         IN /\ Len(ListedEvents') = Len(ListedEvents) + 1
            /\ \A i \in 1 .. Len(ListedEvents) : ListedEvents'[i] = ListedEvents[i]
            /\ ListedEvents'[Len(ListedEvents) + 1] = e
            /\ ListedEvents' \in Seq(Events)
            /\ ListedDetections' = ListedDetections \cup HitsOf(post[a].loaded, e, RowId)
<1> DEFINE e == Head(post[a].batch)
<1>1. /\ tx' = [events |-> Append(tx.events, e),
                hits   |-> tx.hits \cup HitsOf(post[a].loaded, e, RowId)]
      /\ UNCHANGED <<stored, hits>> /\ post[a].phase = "inside" /\ post[a].batch # <<>>
  BY DEF InsertEvent
<1>2. e \in Events
  BY <1>1, NextEventIs
<1> HIDE DEF e
<1>3. stored \in Seq(Events) /\ tx.events \in Seq(Events)
  BY DEF TInv, TypeOK
<1>4. Len(stored) \in Nat /\ Len(tx.events) \in Nat
  BY <1>3
<1>5. /\ tx'.events \in Seq(Events) /\ Len(tx'.events) = Len(tx.events) + 1
      /\ \A i \in 1 .. Len(tx.events) : tx'.events[i] = tx.events[i]
      /\ tx'.events[Len(tx.events) + 1] = e
  BY <1>1, <1>2, <1>3, AppendProperties
<1>6. /\ stored \o tx.events \in Seq(Events)
      /\ Len(stored \o tx.events) = Len(stored) + Len(tx.events)
      /\ \A i \in 1 .. Len(stored) + Len(tx.events) :
           (stored \o tx.events)[i] = IF i <= Len(stored) THEN stored[i]
                                      ELSE tx.events[i - Len(stored)]
  BY <1>3, ConcatProperties
<1>7. /\ stored \o tx'.events \in Seq(Events)
      /\ Len(stored \o tx'.events) = Len(stored) + Len(tx'.events)
      /\ \A i \in 1 .. Len(stored) + Len(tx'.events) :
           (stored \o tx'.events)[i] = IF i <= Len(stored) THEN stored[i]
                                       ELSE tx'.events[i - Len(stored)]
  BY <1>3, <1>5, ConcatProperties
<1>8. ListedEvents = stored \o tx.events /\ ListedEvents' = stored \o tx'.events
  BY <1>1 DEF ListedEvents
<1>9. \A i \in 1 .. Len(stored) + Len(tx.events) : (stored \o tx'.events)[i] = (stored \o tx.events)[i]
  <2>1. SUFFICES ASSUME NEW i \in 1 .. Len(stored) + Len(tx.events)
                 PROVE  (stored \o tx'.events)[i] = (stored \o tx.events)[i]
    OBVIOUS
  <2>2. i \in 1 .. Len(stored) + Len(tx'.events)
    BY <1>4, <1>5
  <2>3. CASE i <= Len(stored)
    BY <1>6, <1>7, <2>2, <2>3
  <2>4. CASE ~(i <= Len(stored))
    <3>1. i - Len(stored) \in 1 .. Len(tx.events)
      BY <1>4, <2>4
    <3>2. QED BY <1>5, <1>6, <1>7, <2>2, <2>4, <3>1
  <2>5. QED BY <2>3, <2>4
<1>10. (stored \o tx'.events)[Len(stored) + Len(tx.events) + 1] = e
  <2>1. /\ Len(stored) + Len(tx.events) + 1 \in 1 .. Len(stored) + Len(tx'.events)
        /\ ~(Len(stored) + Len(tx.events) + 1 <= Len(stored))
        /\ Len(stored) + Len(tx.events) + 1 - Len(stored) = Len(tx.events) + 1
    BY <1>4, <1>5
  <2>2. QED BY <1>5, <1>7, <2>1
<1>11. Len(ListedEvents') = Len(ListedEvents) + 1
  BY <1>4, <1>5, <1>6, <1>7, <1>8
<1>12. ListedDetections' = ListedDetections \cup HitsOf(post[a].loaded, e, RowId)
  BY <1>1 DEF ListedDetections
<1>13. QED BY <1>6, <1>7, <1>8, <1>9, <1>10, <1>11, <1>12 DEF e

LEMMA ListedRollback ==
  ASSUME TInv, tx' = NoTx, UNCHANGED <<stored, hits>>
  PROVE  ListedEvents' = stored /\ ListedDetections' = hits
<1>1. stored \in Seq(Events)
  BY DEF TInv, TypeOK
<1>2. stored \o <<>> = stored
  BY <1>1, ConcatEmptySeq
<1>3. QED BY <1>2, NoTxType DEF ListedEvents, ListedDetections

LEMMA ListedCommit ==
  ASSUME TInv, NEW a \in Agents, Commit(a)
  PROVE  ListedEvents' = ListedEvents /\ ListedDetections' = ListedDetections
<1>1. stored' = stored \o tx.events /\ hits' = hits \cup tx.hits /\ tx' = NoTx
  BY DEF Commit
<1>2. stored \o tx.events \in Seq(Events)
  BY LenType, ConcatProperties DEF TInv, TypeOK
<1>3. (stored \o tx.events) \o <<>> = stored \o tx.events
  BY <1>2, ConcatEmptySeq
<1>4. QED BY <1>1, <1>3, NoTxType DEF ListedEvents, ListedDetections

\* A step leaves the lists as they are, adds an event to them, or rolls back.
LEMMA ListedStep ==
  ASSUME TInv, [Next]_vars
  PROVE  \/ /\ ListedEvents' = ListedEvents /\ ListedDetections' = ListedDetections
            /\ UNCHANGED <<stored, hits, tx, received, applied>>
         \/ \E a \in Agents : Commit(a)
         \/ \E a \in Agents : InsertEvent(a)
         \/ /\ tx' = NoTx /\ UNCHANGED <<stored, hits>>
            /\ ListedEvents' = stored /\ ListedDetections' = hits
            /\ \/ UNCHANGED <<received, applied>>
               \/ \E a \in Agents : \E run : SummaryRaises(a) /\ Examines(a, run)
<1>1. ASSUME UNCHANGED <<stored, hits, tx>>
      PROVE  ListedEvents' = ListedEvents /\ ListedDetections' = ListedDetections
  BY <1>1 DEF ListedEvents, ListedDetections
<1>2. ASSUME tx' = NoTx, UNCHANGED <<stored, hits>>
      PROVE  ListedEvents' = stored /\ ListedDetections' = hits
  BY <1>2, ListedRollback
<1>3. CASE UNCHANGED vars
  BY <1>1, <1>3 DEF vars
<1>4. CASE Restart
  BY <1>2, <1>4 DEF Restart
<1>5. ASSUME NEW d \in Edited, Reload(d)
      PROVE  UNCHANGED <<stored, hits, tx, received, applied>>
  BY <1>5 DEF Reload
<1>6. ASSUME NEW a \in Agents, Post(a) \/ Enter(a)
      PROVE  UNCHANGED <<stored, hits, tx, received, applied>>
  BY <1>6 DEF Post, Enter
<1>7. ASSUME NEW a \in Agents, InsertRaises(a)
      PROVE  tx' = NoTx /\ UNCHANGED <<stored, hits, received, applied>>
  BY <1>7 DEF InsertRaises
<1>8. ASSUME NEW a \in Agents, SummaryRaises(a)
      PROVE  /\ tx' = NoTx /\ UNCHANGED <<stored, hits>>
             /\ \E run : SummaryRaises(a) /\ Examines(a, run)
  BY <1>8, SummaryRaisesExamines DEF SummaryRaises
<1>9. QED BY <1>1, <1>2, <1>3, <1>4, <1>5, <1>6, <1>7, <1>8 DEF Next

\* A detection that InsertEvent adds.
LEMMA InsertedHit ==
  ASSUME TInv, NEW a \in Agents, post[a].phase = "inside", post[a].batch # <<>>,
         NEW h \in HitsOf(post[a].loaded, Head(post[a].batch), RowId)
  PROVE  LET e      == Head(post[a].batch)
             loaded == post[a].loaded
         IN /\ h.event = RowId /\ h.setting = loaded[h.detector] /\ h.detector \in Detectors
            /\ Matches(loaded, h.detector, e) /\ Emits(loaded, h.detector, e)
            /\ h.count = MatchCount(loaded, h.detector, e)
<1> DEFINE e      == Head(post[a].batch)
           loaded == post[a].loaded
<1>1. PICK d \in Detectors :
        /\ Emits(loaded, d, e)
        /\ h = [detector |-> d, event |-> RowId, count |-> MatchCount(loaded, d, e),
                setting |-> loaded[d]]
  BY DEF HitsOf
<1>2. Matches(loaded, d, e)
  BY <1>1 DEF Emits
<1> HIDE DEF e, loaded
<1>3. /\ h.detector = d /\ h.event = RowId /\ h.setting = loaded[d]
      /\ h.count = MatchCount(loaded, d, e)
  BY <1>1
<1>4. QED BY <1>1, <1>2, <1>3 DEF e, loaded

LEMMA HitsInvStep ==
  ASSUME TInv, HitsInv, [Next]_vars
  PROVE  HitsInv'
<1>1. CASE /\ ListedEvents' = ListedEvents /\ ListedDetections' = ListedDetections
           /\ UNCHANGED <<stored, hits, tx>>
  BY <1>1 DEF HitsInv
<1>2. ASSUME NEW a \in Agents, Commit(a)
      PROVE  HitsInv'
  <2>1. /\ ListedEvents' = ListedEvents /\ ListedDetections' = ListedDetections
        /\ stored' = ListedEvents /\ hits' = ListedDetections /\ tx'.hits = {}
    BY <1>2, ListedCommit, NoTxType DEF Commit, ListedEvents, ListedDetections
  <2>2. Len(ListedEvents) \in Nat
    BY ListedIs
  <2>3. QED BY <2>1, <2>2 DEF HitsInv
<1>3. ASSUME NEW a \in Agents, InsertEvent(a)
      PROVE  HitsInv'
  <2> DEFINE e == Head(post[a].batch)
             new == HitsOf(post[a].loaded, e, RowId)
  <2>1. /\ Len(ListedEvents') = Len(ListedEvents) + 1
        /\ \A i \in 1 .. Len(ListedEvents) : ListedEvents'[i] = ListedEvents[i]
        /\ ListedEvents'[Len(ListedEvents) + 1] = e
        /\ ListedDetections' = ListedDetections \cup new
    BY <1>3, ListedInsert
  <2>2. /\ UNCHANGED <<stored, hits>> /\ tx'.hits = tx.hits \cup new
        /\ post[a].phase = "inside" /\ post[a].batch # <<>>
    BY <1>3 DEF InsertEvent
  <2>3. /\ Len(ListedEvents) \in Nat /\ Len(stored) \in Nat /\ Len(stored) <= Len(ListedEvents)
        /\ RowId = Len(ListedEvents) + 1
    BY ListedIs, LenType DEF TInv
  <2>4. ASSUME NEW h \in new
        PROVE  h.event = RowId /\ e.class \in h.setting.matched
    <3>1. /\ h.event = RowId /\ Matches(post[a].loaded, h.detector, e)
          /\ h.setting = post[a].loaded[h.detector]
      BY <2>2, InsertedHit
    <3>2. QED BY <3>1 DEF Matches
  <2> HIDE DEF e, new
  <2>5. \A h \in tx'.hits : h.event > Len(stored')
    BY <2>2, <2>3, <2>4 DEF HitsInv
  <2>6. ASSUME NEW h \in ListedDetections
        PROVE  /\ h.event \in 1 .. Len(ListedEvents')
               /\ ListedEvents'[h.event].class \in h.setting.matched
    <3>1. h.event \in 1 .. Len(ListedEvents) /\ ListedEvents[h.event].class \in h.setting.matched
      BY DEF HitsInv
    <3>2. QED BY <2>1, <2>3, <3>1
  <2>7. ASSUME NEW h \in new
        PROVE  /\ h.event \in 1 .. Len(ListedEvents')
               /\ ListedEvents'[h.event].class \in h.setting.matched
    BY <2>1, <2>3, <2>4
  <2>8. \A h \in hits' : h.event <= Len(stored')
    BY <2>2 DEF HitsInv
  <2>9. QED BY <2>1, <2>5, <2>6, <2>7, <2>8 DEF HitsInv
<1>4. CASE /\ tx' = NoTx /\ UNCHANGED <<stored, hits>>
           /\ ListedEvents' = stored /\ ListedDetections' = hits
  <2>1. tx'.hits = {}
    BY <1>4, NoTxType
  <2>2. ASSUME NEW h \in hits
        PROVE  h.event \in 1 .. Len(stored) /\ stored[h.event].class \in h.setting.matched
    <3>1. /\ h.event <= Len(stored) /\ h.event \in 1 .. Len(ListedEvents)
          /\ ListedEvents[h.event].class \in h.setting.matched
      BY DEF HitsInv, ListedDetections
    <3>2. h.event \in 1 .. Len(stored)
      BY <3>1, ListedIs, LenType DEF TInv
    <3>3. QED BY <3>1, <3>2, ListedIs
  <2>3. QED BY <1>4, <2>1, <2>2 DEF HitsInv
<1>5. QED BY <1>1, <1>2, <1>3, <1>4, ListedStep

\* A committed detection is of a stored event that its detector matches: the
\* row id that the code gives it, len(stored) + len of the transaction + 1, is
\* right whatever is rolled back, lost in a restart or committed in between.
THEOREM HitsReferToStoredHolds == Spec => []HitsReferToStored
<1>1. Init => HitsInv
  BY NoTxType DEF Init, HitsInv, ListedDetections
<1>2. TInv /\ HitsInv /\ [Next]_vars => HitsInv'
  BY HitsInvStep
<1>3. TInv /\ HitsInv => HitsReferToStored
  <2>1. SUFFICES ASSUME TInv, HitsInv, NEW h \in hits
                 PROVE  h.event \in 1 .. Len(stored) /\ stored[h.event].class \in h.setting.matched
    BY DEF HitsReferToStored
  <2>2. /\ h.event <= Len(stored) /\ h.event \in 1 .. Len(ListedEvents)
        /\ ListedEvents[h.event].class \in h.setting.matched
    BY <2>1 DEF HitsInv, ListedDetections
  <2>3. h.event \in 1 .. Len(stored)
    BY <2>1, <2>2, ListedIs, LenType DEF TInv
  <2>4. QED BY <2>1, <2>2, <2>3, ListedIs
<1>4. QED BY <1>1, <1>2, <1>3, TInvHolds, PTL DEF Spec

-------------------------------------------------------------------------------
(* The seconds of one agent come in order.                                 *)

LEMMA ClockTypes ==
  ASSUME TInv, NEW a \in Agents
  PROVE  /\ last[a] \in Nat /\ Len(post[a].batch) \in Nat
         /\ \A i \in 1 .. Len(post[a].batch) : post[a].batch[i].ts \in Nat
         /\ a \in Groups
         /\ \A d \in Detectors :
              /\ windows[d][a] \in Seq(0 .. MaxTs) /\ Len(windows[d][a]) \in Nat
              /\ \A k \in 1 .. Len(windows[d][a]) : windows[d][a][k] \in Nat
<1>1. /\ post[a].batch \in Seq(Events) /\ last[a] \in 0 .. MaxTs /\ a \in Groups
      /\ \A d \in Detectors : windows[d][a] \in Seq(0 .. MaxTs)
  BY DEF TInv, TypeOK, Groups
<1>2. MaxTs \in Nat
  BY BoundsType
<1>3. \A i \in 1 .. Len(post[a].batch) : post[a].batch[i].ts \in Nat
  <2>1. \A i \in 1 .. Len(post[a].batch) : post[a].batch[i] \in Events
    BY <1>1
  <2>2. QED BY <1>2, <2>1 DEF Events
<1>4. \A d \in Detectors : \A k \in 1 .. Len(windows[d][a]) : windows[d][a][k] \in Nat
  <2>1. SUFFICES ASSUME NEW d \in Detectors, NEW k \in 1 .. Len(windows[d][a])
                 PROVE  windows[d][a][k] \in 0 .. MaxTs
    BY <1>2
  <2>2. windows[d][a] \in Seq(0 .. MaxTs)
    BY <1>1
  <2>3. QED BY <2>2, ElementOfSeq
<1>5. QED BY <1>1, <1>2, <1>3, <1>4

\* What other agents do does not matter, and neither does the end of a call.
LEMMA ClockStays ==
  ASSUME NEW a \in Agents, ClockOf(a),
         post'[a].batch = post[a].batch \/ post'[a].batch = <<>>,
         last'[a] = last[a], \A d \in Detectors : windows'[d][a] = windows[d][a]
  PROVE  ClockOf(a)'
<1>1. CASE post'[a].batch = post[a].batch
  BY <1>1 DEF ClockOf
<1>2. CASE post'[a].batch = <<>>
  <2>1. 1 .. Len(post'[a].batch) = {}
    BY <1>2, EmptySeq
  <2>2. QED BY <2>1 DEF ClockOf
<1>3. QED BY <1>1, <1>2

LEMMA PostClock ==
  ASSUME TInv, ClockInv, NEW a \in Agents, Post(a)
  PROVE  ClockInv'
<1>1. PICK b \in Batches(a) :
        /\ last' = [last EXCEPT ![a] = b[Len(b)].ts]
        /\ post' = [post EXCEPT ![a] = [phase |-> "waiting", batch |-> b, loaded |-> detectors]]
  BY DEF Post
<1>2. windows' = windows
  BY DEF Post
<1>3. /\ b \in Seq(Events) /\ Len(b) \in Nat \ {0}
      /\ \A i \in 1 .. Len(b) : b[i].agent = a /\ b[i].ts \in last[a] .. MaxTs
      /\ \A i, j \in 1 .. Len(b) : i <= j => b[i].ts <= b[j].ts
  BY BatchIs DEF TInv, TypeOK
<1>4. post'[a].batch = b /\ last'[a] = b[Len(b)].ts
  BY <1>1 DEF TInv, TypeOK
<1>5. ClockOf(a)'
  <2>1. \A i \in 1 .. Len(b) : b[i].ts \in Nat /\ last[a] <= b[i].ts /\ b[i].ts <= b[Len(b)].ts
    BY <1>3, ClockTypes, BoundsType
  <2>2. last[a] <= b[Len(b)].ts /\ b[Len(b)].ts \in Nat
    BY <1>3, <2>1
  <2>3. ASSUME NEW d \in Detectors
        PROVE  /\ Sorted(windows[d][a])
               /\ \A k \in 1 .. Len(windows[d][a]) :
                    /\ windows[d][a][k] <= b[Len(b)].ts
                    /\ \A i \in 1 .. Len(b) : windows[d][a][k] <= b[i].ts
    <3>2. \A k \in 1 .. Len(windows[d][a]) : windows[d][a][k] \in Nat /\ windows[d][a][k] <= last[a]
      BY ClockTypes DEF ClockInv, ClockOf
    <3>3. Sorted(windows[d][a])
      BY DEF ClockInv, ClockOf
    <3>4. last[a] \in Nat
      BY ClockTypes
    <3>5. QED BY <2>1, <2>2, <3>2, <3>3, <3>4
  <2>4. QED BY <1>2, <1>3, <1>4, <2>1, <2>3 DEF ClockOf
<1>6. ASSUME NEW c \in Agents, c # a
      PROVE  ClockOf(c)'
  <2>1. post'[c].batch = post[c].batch /\ last'[c] = last[c]
    BY <1>1, <1>6 DEF TInv, TypeOK
  <2>2. QED BY <1>2, <2>1, ClockStays DEF ClockInv
<1>7. QED BY <1>5, <1>6 DEF ClockInv

\* The event that is looked at is of the agent, and what was received is longer
\* by it.
LEMMA ExaminedIs ==
  ASSUME TInv, ClockInv, NEW a \in Agents, NEW run, Examines(a, run)
  PROVE  LET e == Head(post[a].batch)
         IN /\ e \in Events /\ e = post[a].batch[1] /\ e.agent = a /\ e.ts \in Nat
            /\ \A setting : GroupOf(setting, e) = IF setting.byAgent THEN a ELSE Shared
            /\ \A setting : GroupOf(setting, e) \in Groups
            /\ \A d \in Detectors, g \in Groups :
                 windows'[d][g] =
                   IF Matches(run, d, e) /\ Correlates(run[d]) /\ g = GroupOf(run[d], e)
                     THEN NextWindow(run, d, e) ELSE windows[d][g]
<1> DEFINE e == Head(post[a].batch)
<1>1. /\ post[a].phase = "inside" /\ post[a].batch # <<>>
      /\ windows' = WindowsAfter(run, e)
  BY DEF Examines, Examine
<1>2. e \in Events /\ e = post[a].batch[1] /\ 1 \in 1 .. Len(post[a].batch)
  BY <1>1, NextEventIs
<1>3. e.agent = a
  BY <1>2 DEF ClockInv, ClockOf
<1>4. e.ts \in Nat
  BY <1>2, BoundsType DEF Events
<1> HIDE DEF e
<1>5. \A setting : GroupOf(setting, e) = IF setting.byAgent THEN a ELSE Shared
  BY <1>3 DEF GroupOf
<1>6. \A setting : GroupOf(setting, e) \in Groups
  BY <1>2, GroupType
<1>7. \A d \in Detectors, g \in Groups :
        windows'[d][g] =
          IF Matches(run, d, e) /\ Correlates(run[d]) /\ g = GroupOf(run[d], e)
            THEN NextWindow(run, d, e) ELSE windows[d][g]
  BY <1>1 DEF WindowsAfter
<1>8. QED BY <1>2, <1>3, <1>4, <1>5, <1>6, <1>7 DEF e

\* The windows of the other agents stay.
LEMMA ExaminedOthers ==
  ASSUME TInv, ClockInv, NEW a \in Agents, NEW run, Examines(a, run),
         NEW d \in Detectors, NEW c \in Agents, c # a
  PROVE  windows'[d][c] = windows[d][c]
<1> DEFINE e == Head(post[a].batch)
<1>1. c \in Groups /\ c # Shared
  BY DetectionAssumption DEF Groups
<1>2. /\ GroupOf(run[d], e) = IF run[d].byAgent THEN a ELSE Shared
      /\ windows'[d][c] =
           IF Matches(run, d, e) /\ Correlates(run[d]) /\ c = GroupOf(run[d], e)
             THEN NextWindow(run, d, e) ELSE windows[d][c]
  BY <1>1, ExaminedIs
<1> HIDE DEF e
<1>3. c # GroupOf(run[d], e)
  BY <1>1, <1>2
<1>4. QED BY <1>2, <1>3

\* What is left of the window of the agent stays in the order of its clock, and
\* before what is left of the batch.
LEMMA ExaminedSeconds ==
  ASSUME TInv, ClockInv, NEW a \in Agents, NEW run, Examines(a, run), NEW d \in Detectors
  PROVE  /\ Sorted(windows'[d][a])
         /\ \A k \in 1 .. Len(windows'[d][a]) :
              /\ windows'[d][a][k] <= last[a]
              /\ \A i \in 2 .. Len(post[a].batch) : windows'[d][a][k] <= post[a].batch[i].ts
<1> DEFINE batch == post[a].batch
           e     == Head(batch)
<1>1. /\ batch # <<>> /\ post[a].phase = "inside" /\ run \in Loads
      /\ e \in Events /\ e = batch[1] /\ Len(batch) \in Nat \ {0}
  BY NextEventIs, BoundsType DEF Examines
<1>2. /\ \A i, j \in 1 .. Len(batch) : i <= j => batch[i].ts <= batch[j].ts
      /\ \A i \in 1 .. Len(batch) : batch[i].agent = a /\ batch[i].ts <= last[a]
  BY DEF ClockInv, ClockOf
<1>3. QED
  <2> DEFINE w == windows[d][a]
             next == windows'[d][a]
  <2>1. /\ Sorted(w)
        /\ \A k \in 1 .. Len(w) : w[k] <= last[a] /\ \A i \in 1 .. Len(batch) : w[k] <= batch[i].ts
    BY DEF ClockInv, ClockOf
  <2>2. /\ Len(w) \in Nat /\ \A k \in 1 .. Len(w) : w[k] \in Nat
        /\ last[a] \in Nat /\ \A i \in 1 .. Len(batch) : batch[i].ts \in Nat
    BY ClockTypes
  <2>3. CASE next = w
    <3>1. \A i \in 2 .. Len(batch) : i \in 1 .. Len(batch)
      BY <1>1
    <3>2. QED BY <2>1, <2>3, <3>1
  <2>4. CASE next # w
    <3>1. /\ Matches(run, d, e) /\ next = NextWindow(run, d, e)
          /\ windows[d][GroupOf(run[d], e)] = w
      <4>1. /\ a \in Groups
            /\ next = IF Matches(run, d, e) /\ Correlates(run[d]) /\ a = GroupOf(run[d], e)
                        THEN NextWindow(run, d, e) ELSE w
        BY ExaminedIs DEF Groups
      <4> HIDE DEF next, e
      <4>2. QED BY <2>4, <4>1
    <3>2. PICK n \in 0 .. Len(w) :
            /\ Len(next) = Len(w) - n + 1
            /\ \A i \in 1 .. Len(w) - n : next[i] = w[n + i]
            /\ next[Len(w) - n + 1] = e.ts
      <4>1. windows \in [Detectors -> [Groups -> Seq(0 .. MaxTs)]]
        BY DEF TInv, TypeOK
      <4> DEFINE old == windows[d][GroupOf(run[d], e)]
                 new == NextWindow(run, d, e)
                 cutoff == e.ts - run[d].window
      <4>2. /\ new \in Seq(0 .. MaxTs)
            /\ \E n \in 0 .. Len(old) :
                 /\ Len(new) = Len(old) - n + 1
                 /\ \A i \in 1 .. Len(old) - n : new[i] = old[n + i]
                 /\ new[Len(old) - n + 1] = e.ts
                 /\ \A i \in 1 .. n : old[i] < cutoff
                 /\ n < Len(old) => old[n + 1] >= cutoff
        <5>1. run \in Loads /\ e \in Events /\ Matches(run, d, e)
          BY <1>1, <3>1
        <5> HIDE DEF e
        <5>2. QED BY <4>1, <5>1, NextWindowIs, Zenon
      <4>3. old = w /\ new = next
        BY <3>1
      <4> HIDE DEF old, new, w, next, e
      <4>4. QED BY <4>2, <4>3
    <3> HIDE DEF w, next, e, batch
    <3>3. /\ e.ts \in Nat /\ e.ts <= last[a]
          /\ \A i \in 1 .. Len(batch) : e.ts <= batch[i].ts
          /\ \A k \in 1 .. Len(w) : w[k] <= e.ts
      <4>1. 1 \in 1 .. Len(batch) /\ \A i \in 1 .. Len(batch) : 1 <= i
        BY <1>1
      <4>2. QED BY <1>1, <1>2, <2>1, <2>2, <4>1
    <3>4. \A k \in 1 .. Len(next) :
            \/ k = Len(next) /\ next[k] = e.ts
            \/ k < Len(next) /\ n + k \in 1 .. Len(w) /\ next[k] = w[n + k]
      <4>1. SUFFICES ASSUME NEW k \in 1 .. Len(next)
                     PROVE  \/ k = Len(next) /\ next[k] = e.ts
                            \/ k < Len(next) /\ n + k \in 1 .. Len(w) /\ next[k] = w[n + k]
        OBVIOUS
      <4>2. Len(w) \in Nat /\ n \in Nat /\ n <= Len(w) /\ Len(next) = Len(w) - n + 1
        BY <2>2, <3>2
      <4>3. CASE k = Len(next)
        BY <3>2, <4>2, <4>3
      <4>4. CASE k # Len(next)
        <5>1. k < Len(next) /\ n + k \in 1 .. Len(w) /\ k \in 1 .. Len(w) - n
          BY <4>2, <4>4
        <5>2. QED BY <3>2, <5>1
      <4>5. QED BY <4>3, <4>4
    <3>5. \A k \in 1 .. Len(next) : next[k] \in Nat /\ next[k] <= e.ts
      <4>1. \A m \in 1 .. Len(w) : w[m] \in Nat /\ w[m] <= e.ts
        BY <2>2, <3>3
      <4>2. SUFFICES ASSUME NEW k \in 1 .. Len(next)
                     PROVE  next[k] \in Nat /\ next[k] <= e.ts
        OBVIOUS
      <4>3. CASE next[k] = e.ts
        BY <3>3, <4>3
      <4>4. CASE n + k \in 1 .. Len(w) /\ next[k] = w[n + k]
        BY <4>1, <4>4
      <4>5. QED BY <3>4, <4>3, <4>4
    <3>6. \A k \in 1 .. Len(next) :
            /\ next[k] <= last[a]
            /\ \A i \in 2 .. Len(batch) : next[k] <= batch[i].ts
      <4>1. \A i \in 2 .. Len(batch) : i \in 1 .. Len(batch)
        BY <1>1
      <4>2. \A i \in 2 .. Len(batch) : e.ts <= batch[i].ts /\ batch[i].ts \in Nat
        BY <2>2, <3>3, <4>1
      <4>3. QED BY <2>2, <3>3, <3>5, <4>2
    <3>7. Sorted(next)
      <4>1. SUFFICES ASSUME NEW i \in 1 .. Len(next), NEW j \in 1 .. Len(next), i <= j
                     PROVE  next[i] <= next[j]
        BY DEF Sorted
      <4>2. CASE j = Len(next)
        BY <3>3, <3>4, <3>5, <4>2
      <4>3. CASE j < Len(next)
        <5>1. /\ n + i \in 1 .. Len(w) /\ next[i] = w[n + i]
              /\ n + j \in 1 .. Len(w) /\ next[j] = w[n + j]
          BY <2>2, <3>2, <3>4, <4>1, <4>3
        <5>2. n + i <= n + j
          BY <2>2, <3>2, <4>1
        <5>3. QED BY <2>1, <5>1, <5>2 DEF Sorted
      <4>4. QED BY <2>2, <3>2, <4>2, <4>3
    <3>8. QED BY <3>6, <3>7 DEF next, batch
  <2>5. QED BY <2>3, <2>4

LEMMA InsertEventClock ==
  ASSUME TInv, ClockInv, NEW a \in Agents, InsertEvent(a)
  PROVE  ClockInv'
<1> DEFINE batch == post[a].batch
<1>1. /\ post' = [post EXCEPT ![a].batch = Tail(batch)] /\ last' = last
      /\ post[a].phase = "inside" /\ batch # <<>>
  BY DEF InsertEvent
<1>2. /\ Len(batch) \in Nat \ {0} /\ Len(Tail(batch)) = Len(batch) - 1
      /\ \A i \in 1 .. Len(batch) - 1 : Tail(batch)[i] = batch[i + 1]
  BY <1>1, NextEventIs, BoundsType
<1>3. Examines(a, post[a].loaded)
  BY InsertEventExamines
<1>4. post'[a].batch = Tail(batch)
  BY <1>1 DEF TInv, TypeOK
<1>5. /\ \A i, j \in 1 .. Len(batch) : i <= j => batch[i].ts <= batch[j].ts
      /\ \A i \in 1 .. Len(batch) : batch[i].agent = a /\ batch[i].ts <= last[a]
  BY DEF ClockInv, ClockOf
<1>6. \A d \in Detectors :
        /\ Sorted(windows'[d][a])
        /\ \A k \in 1 .. Len(windows'[d][a]) :
             /\ windows'[d][a][k] <= last[a]
             /\ \A i \in 2 .. Len(batch) : windows'[d][a][k] <= batch[i].ts
  BY <1>3, ExaminedSeconds
<1>7. ClockOf(a)'
  <2>1. \A i \in 1 .. Len(Tail(batch)) : Tail(batch)[i] = batch[i + 1] /\ i + 1 \in 2 .. Len(batch)
    BY <1>2
  <2>2. \A i \in 2 .. Len(batch) : i \in 1 .. Len(batch)
    BY <1>2
  <2>3. \A i \in 1 .. Len(Tail(batch)) : Tail(batch)[i].agent = a /\ Tail(batch)[i].ts <= last[a]
    BY <1>5, <2>1, <2>2
  <2>4. \A i, j \in 1 .. Len(Tail(batch)) : i <= j => Tail(batch)[i].ts <= Tail(batch)[j].ts
    <3>1. \A i, j \in 1 .. Len(Tail(batch)) : i <= j => i + 1 <= j + 1
      BY <1>2
    <3>2. QED BY <1>5, <2>1, <2>2, <3>1
  <2>5. \A d \in Detectors : \A k \in 1 .. Len(windows'[d][a]) :
          \A i \in 1 .. Len(Tail(batch)) : windows'[d][a][k] <= Tail(batch)[i].ts
    BY <1>6, <2>1
  <2> HIDE DEF batch
  <2>6. QED BY <1>1, <1>4, <1>6, <2>3, <2>4, <2>5 DEF ClockOf
<1>8. ASSUME NEW c \in Agents, c # a
      PROVE  ClockOf(c)'
  <2>1. post'[c].batch = post[c].batch /\ last'[c] = last[c]
    BY <1>1, <1>8 DEF TInv, TypeOK
  <2>2. \A d \in Detectors : windows'[d][c] = windows[d][c]
    BY <1>3, <1>8, ExaminedOthers
  <2>3. QED BY <2>1, <2>2, ClockStays DEF ClockInv
<1>9. QED BY <1>7, <1>8 DEF ClockInv

LEMMA SummaryRaisesClock ==
  ASSUME TInv, ClockInv, NEW a \in Agents, SummaryRaises(a)
  PROVE  ClockInv'
<1>1. post' = [post EXCEPT ![a] = NoPost] /\ last' = last
  BY DEF SummaryRaises
<1>2. PICK run : Examines(a, run)
  BY SummaryRaisesExamines
<1>3. post'[a].batch = <<>> /\ 1 .. Len(post'[a].batch) = {}
  BY <1>1, EmptySeq DEF TInv, TypeOK, NoPost
<1>4. \A d \in Detectors :
        /\ Sorted(windows'[d][a])
        /\ \A k \in 1 .. Len(windows'[d][a]) : windows'[d][a][k] <= last[a]
  BY <1>2, ExaminedSeconds
<1>5. ClockOf(a)'
  BY <1>1, <1>3, <1>4 DEF ClockOf
<1>6. ASSUME NEW c \in Agents, c # a
      PROVE  ClockOf(c)'
  <2>1. post'[c].batch = post[c].batch /\ last'[c] = last[c]
    BY <1>1, <1>6 DEF TInv, TypeOK
  <2>2. \A d \in Detectors : windows'[d][c] = windows[d][c]
    BY <1>2, <1>6, ExaminedOthers
  <2>3. QED BY <2>1, <2>2, ClockStays DEF ClockInv
<1>7. QED BY <1>5, <1>6 DEF ClockInv

LEMMA ClockInvStep ==
  ASSUME TInv, ClockInv, [Next]_vars
  PROVE  ClockInv'
<1>1. ASSUME last' = last, windows' = windows,
             \A a \in Agents : post'[a].batch = post[a].batch \/ post'[a].batch = <<>>
      PROVE  ClockInv'
  BY <1>1, ClockStays DEF ClockInv
<1>2. CASE UNCHANGED vars
  BY <1>1, <1>2 DEF vars
<1>3. CASE Restart
  <2>1. /\ last' = last /\ \A a \in Agents : post'[a].batch = <<>>
        /\ \A d \in Detectors, a \in Agents : windows'[d][a] = <<>>
    BY <1>3, DetectionAssumption DEF Restart, NoPost, Groups
  <2>2. Len(<<>>) = 0 /\ 1 .. Len(<<>>) = {}
    BY EmptySeq
  <2>3. QED BY <2>1, <2>2 DEF ClockInv, ClockOf, Sorted
<1>4. ASSUME NEW d \in Edited, Reload(d) PROVE ClockInv'
  BY <1>1, <1>4 DEF Reload
<1>5. ASSUME NEW a \in Agents, Enter(a) PROVE ClockInv'
  <2>1. \A c \in Agents : post'[c].batch = post[c].batch
    <3>1. post' = [post EXCEPT ![a].phase = "inside"]
      BY <1>5 DEF Enter
    <3>2. QED BY <3>1 DEF TInv, TypeOK
  <2>2. QED BY <1>1, <1>5, <2>1 DEF Enter
<1>6. ASSUME NEW a \in Agents, InsertRaises(a) \/ Commit(a) PROVE ClockInv'
  <2>1. \A c \in Agents : post'[c].batch = post[c].batch \/ post'[c].batch = <<>>
    <3>1. post' = [post EXCEPT ![a] = NoPost]
      BY <1>6 DEF InsertRaises, Commit
    <3>2. NoPost.batch = <<>>
      BY DEF NoPost
    <3>3. QED BY <3>1, <3>2 DEF TInv, TypeOK
  <2>2. QED BY <1>1, <1>6, <2>1 DEF InsertRaises, Commit
<1>7. QED BY <1>2, <1>3, <1>4, <1>5, <1>6, PostClock, InsertEventClock, SummaryRaisesClock
  DEF Next

LEMMA InitClock == Init => ClockInv
<1>1. Len(<<>>) = 0 /\ 1 .. Len(<<>>) = {}
  BY EmptySeq
<1>2. Init => /\ \A a \in Agents : post[a].batch = <<>>
              /\ \A d \in Detectors, a \in Agents : windows[d][a] = <<>>
  BY DetectionAssumption DEF Init, NoPost, Groups
<1>3. QED BY <1>1, <1>2 DEF ClockInv, ClockOf, Sorted

-------------------------------------------------------------------------------
(* What was received, and what a run without a fault looks like.           *)

LEMMA LenInvStep ==
  ASSUME TInv, LenInv, [Next]_vars
  PROVE  LenInv'
<1>1. /\ Len(ListedEvents) \in Nat /\ Len(received) \in Nat /\ Len(stored) \in Nat
      /\ Len(stored) <= Len(ListedEvents)
  BY ListedIs, LenType DEF TInv
<1>2. ASSUME NEW a \in Agents, Commit(a) PROVE LenInv'
  BY <1>2, ListedCommit DEF LenInv, Commit
<1>3. ASSUME NEW a \in Agents, InsertEvent(a) PROVE LenInv'
  BY <1>1, <1>3, ListedInsert, InsertEventExamines, ExaminesType DEF LenInv
<1>4. CASE /\ tx' = NoTx /\ ListedEvents' = stored
           /\ \/ UNCHANGED <<received, applied>>
              \/ \E a \in Agents : \E run : SummaryRaises(a) /\ Examines(a, run)
  <2>1. Len(received') >= Len(received) /\ Len(received') \in Nat
    BY <1>1, <1>4, ExaminesType
  <2>2. QED BY <1>1, <1>4, <2>1 DEF LenInv
<1>5. QED BY <1>1, <1>2, <1>3, <1>4, ListedStep DEF LenInv

LEMMA UndisturbedBefore ==
  ASSUME TInv, LenInv, [Next]_vars, Undisturbed'
  PROVE  Undisturbed /\ faults = 0
<1>1. faults = 0
  <2>1. faults' = 0 /\ faults \in Nat
    BY BoundsType DEF Undisturbed, TInv, TypeOK
  <2>2. faults' = faults \/ faults' = faults + 1
    BY DEF Next, vars, Restart, Reload, Post, Enter, InsertEvent, InsertRaises,
           SummaryRaises, Commit
  <2>3. QED BY <2>1, <2>2
<1>2. received' = ListedEvents'
  BY DEF Undisturbed
<1>3. received = ListedEvents
  <2>1. CASE /\ ListedEvents' = ListedEvents /\ ListedDetections' = ListedDetections
             /\ UNCHANGED <<stored, hits, tx, received, applied>>
    BY <1>2, <2>1
  <2>2. ASSUME NEW a \in Agents, Commit(a) PROVE received = ListedEvents
    BY <1>2, <2>2, ListedCommit DEF Commit
  <2>3. ASSUME NEW a \in Agents, InsertEvent(a) PROVE received = ListedEvents
    <3>1. /\ received \in Seq(Events) /\ ListedEvents \in Seq(Events)
          /\ Len(received) \in Nat /\ Len(ListedEvents) \in Nat
          /\ Len(received') = Len(received) + 1 /\ Len(ListedEvents') = Len(ListedEvents) + 1
          /\ \A i \in 1 .. Len(received) : received'[i] = received[i]
          /\ \A i \in 1 .. Len(ListedEvents) : ListedEvents'[i] = ListedEvents[i]
      <4>1. received \in Seq(Events)
        BY DEF TInv, TypeOK
      <4>2. QED BY <2>3, <4>1, ListedIs, ListedInsert, InsertEventExamines, ExaminesType
    <3>2. Len(received) = Len(ListedEvents)
      BY <1>2, <3>1
    <3>3. \A i \in 1 .. Len(received) : received[i] = ListedEvents[i]
      BY <1>2, <3>1, <3>2
    <3>4. QED BY <3>1, <3>2, <3>3, SeqEqual
  <2>4. CASE /\ tx' = NoTx /\ UNCHANGED <<stored, hits, received, applied>>
             /\ ListedEvents' = stored /\ ListedDetections' = hits
    <3>1. received = stored
      BY <1>2, <2>4
    <3>2. /\ Len(ListedEvents) = Len(stored) + Len(tx.events) /\ Len(stored) \in Nat
          /\ Len(tx.events) \in Nat /\ ListedEvents \in Seq(Events)
          /\ \A i \in 1 .. Len(stored) : ListedEvents[i] = stored[i]
      BY ListedIs, LenType DEF TInv
    <3>3. Len(ListedEvents) = Len(stored)
      BY <3>1, <3>2 DEF LenInv
    <3>4. stored \in Seq(Events)
      BY DEF TInv, TypeOK
    <3>5. ListedEvents = stored
      BY <3>2, <3>3, <3>4, SeqEqual
    <3>6. QED BY <3>1, <3>5
  <2>5. ASSUME NEW a \in Agents, NEW run, Examines(a, run), ListedEvents' = stored
        PROVE  FALSE
    <3>1. Len(received') = Len(received) + 1 /\ Len(received) \in Nat
      BY <2>5, ExaminesType, LenType DEF TInv
    <3>2. Len(stored) <= Len(ListedEvents) /\ Len(stored) \in Nat /\ Len(ListedEvents) \in Nat
      BY ListedIs, LenType DEF TInv
    <3>3. QED BY <1>2, <2>5, <3>1, <3>2 DEF LenInv
  <2>6. QED BY <2>1, <2>2, <2>3, <2>4, <2>5, ListedStep
<1>4. QED BY <1>1, <1>3 DEF Undisturbed

LEMMA SettingsStay ==
  ASSUME TInv, SettingsInv, [Next]_vars, faults' = 0
  PROVE  detectors' = Shipped /\ \A a \in Agents : post'[a].loaded = Shipped
<1>1. faults \in Nat
  BY BoundsType DEF TInv, TypeOK
<1>2. CASE UNCHANGED vars
  BY <1>2 DEF vars, SettingsInv
<1>3. CASE Restart \/ \E d \in Edited : Reload(d)
  BY <1>1, <1>3 DEF Restart, Reload
<1>4. ASSUME NEW a \in Agents, Post(a)
      PROVE  detectors' = Shipped /\ \A c \in Agents : post'[c].loaded = Shipped
  <2>1. faults = 0 /\ detectors' = detectors
    BY <1>4 DEF Post
  <2>2. detectors = Shipped /\ \A c \in Agents : post[c].loaded = Shipped
    BY <2>1 DEF SettingsInv
  <2>3. PICK b : post' = [post EXCEPT ![a] = [phase |-> "waiting", batch |-> b, loaded |-> detectors]]
    BY <1>4 DEF Post
  <2>4. QED BY <2>1, <2>2, <2>3 DEF TInv, TypeOK
<1>5. ASSUME NEW a \in Agents, Enter(a)
      PROVE  detectors' = Shipped /\ \A c \in Agents : post'[c].loaded = Shipped
  <2>1. /\ faults = 0 /\ detectors' = detectors
        /\ post' = [post EXCEPT ![a].phase = "inside"]
    BY <1>5 DEF Enter
  <2>2. detectors = Shipped /\ \A c \in Agents : post[c].loaded = Shipped
    BY <2>1 DEF SettingsInv
  <2>3. QED BY <2>1, <2>2 DEF TInv, TypeOK
<1>6. ASSUME NEW a \in Agents, InsertEvent(a)
      PROVE  detectors' = Shipped /\ \A c \in Agents : post'[c].loaded = Shipped
  <2>1. /\ faults = 0 /\ detectors' = detectors
        /\ post' = [post EXCEPT ![a].batch = Tail(post[a].batch)]
    BY <1>6 DEF InsertEvent
  <2>2. detectors = Shipped /\ \A c \in Agents : post[c].loaded = Shipped
    BY <2>1 DEF SettingsInv
  <2>3. QED BY <2>1, <2>2 DEF TInv, TypeOK
<1>7. ASSUME NEW a \in Agents, InsertRaises(a) \/ SummaryRaises(a) \/ Commit(a)
      PROVE  detectors' = Shipped /\ \A c \in Agents : post'[c].loaded = Shipped
  <2>1. faults = 0 /\ detectors' = detectors /\ post' = [post EXCEPT ![a] = NoPost]
    BY <1>7 DEF InsertRaises, SummaryRaises, Commit
  <2>2. detectors = Shipped /\ \A c \in Agents : post[c].loaded = Shipped
    BY <2>1 DEF SettingsInv
  <2>3. NoPost.loaded = Shipped
    BY DEF NoPost
  <2>4. QED BY <2>1, <2>2, <2>3 DEF TInv, TypeOK
<1>8. QED BY <1>2, <1>3, <1>4, <1>5, <1>6, <1>7 DEF Next

\* Without a fault and a rollback, the detectors that InsertEvent looks at an event
\* with are those at the start.
LEMMA ExaminedWithShipped ==
  ASSUME TInv, LenInv, SettingsInv, [Next]_vars, Undisturbed',
         NEW a \in Agents, NEW run, Examines(a, run)
  PROVE  Undisturbed /\ faults = 0 /\ post[a].loaded = Shipped /\ InsertEvent(a) /\ run = Shipped
<1>1. Undisturbed /\ faults = 0
  BY UndisturbedBefore
<1>2. post[a].loaded = Shipped
  BY <1>1 DEF SettingsInv
<1>3. /\ Len(received') = Len(received) + 1 /\ Len(received) \in Nat
      /\ applied'[Len(received) + 1] = run
  BY ExaminesType, LenType DEF TInv
<1>4. received' # received /\ received' = ListedEvents' /\ received = ListedEvents
  BY <1>1, <1>3 DEF Undisturbed
<1>5. InsertEvent(a) /\ applied' = Append(applied, post[a].loaded)
  <2>1. \A c \in Agents : post[c].phase = "inside" => c = a
    BY DEF TInv, OneInside, Examines
  <2>2. PICK c \in Agents : InsertEvent(c) \/ SummaryRaises(c)
    BY <1>4 DEF Next, vars, Restart, Reload, Post, Enter, InsertRaises, Commit
  <2>3. c = a
    BY <2>1, <2>2 DEF InsertEvent, SummaryRaises
  <2>4. ~SummaryRaises(a)
    <3>1. SUFFICES ASSUME SummaryRaises(a) PROVE FALSE
      OBVIOUS
    <3>2. ListedEvents' = stored
      BY <3>1, ListedRollback DEF SummaryRaises
    <3>3. Len(stored) <= Len(ListedEvents) /\ Len(stored) \in Nat
      BY ListedIs, LenType DEF TInv
    <3>4. QED BY <1>3, <1>4, <3>2, <3>3
  <2>5. QED BY <2>2, <2>3, <2>4 DEF InsertEvent, Examine
<1>6. run = post[a].loaded
  <2>1. /\ applied \in Seq(Loads) /\ post[a].loaded \in Loads /\ Len(applied) = Len(received)
    BY DEF TInv, TypeOK
  <2>2. applied'[Len(applied) + 1] = post[a].loaded
    <3> HIDE DEF Loads
    <3>1. QED BY <1>5, <2>1, AppendProperties
  <2>3. QED BY <1>3, <2>1, <2>2
<1>7. QED BY <1>1, <1>2, <1>5, <1>6

LEMMA SettingsInvStep ==
  ASSUME TInv, LenInv, SettingsInv, [Next]_vars
  PROVE  SettingsInv'
<1>1. SUFFICES ASSUME Undisturbed', NEW j \in 1 .. Len(applied')
               PROVE  applied'[j] = Shipped
  BY SettingsStay DEF SettingsInv
<1>2. Undisturbed /\ \A i \in 1 .. Len(applied) : applied[i] = Shipped
  BY <1>1, UndisturbedBefore DEF SettingsInv
<1>3. CASE applied' = applied
  BY <1>1, <1>2, <1>3
<1>4. ASSUME NEW a \in Agents, NEW run, Examines(a, run)
      PROVE  applied'[j] = Shipped
  <2>1. run = Shipped
    BY <1>1, <1>4, ExaminedWithShipped
  <2>2. /\ Len(applied') = Len(applied) + 1 /\ Len(applied) = Len(received) /\ Len(applied) \in Nat
        /\ \A i \in 1 .. Len(applied) : applied'[i] = applied[i]
        /\ applied'[Len(applied) + 1] = run
    BY <1>4, ExaminesType, LenType DEF TInv
  <2>3. j \in 1 .. Len(applied) \/ j = Len(applied) + 1
    BY <2>2
  <2>4. QED BY <1>2, <2>1, <2>2, <2>3
<1>5. CASE \E a \in Agents : InsertEvent(a) \/ SummaryRaises(a)
  BY <1>4, <1>5, InsertEventExamines, SummaryRaisesExamines
<1>6. QED
  BY <1>3, <1>5 DEF Next, vars, Restart, Reload, Post, Enter, InsertRaises, Commit

-------------------------------------------------------------------------------
(* The events behind the seconds of a window.                              *)

\* r2 is r and one more event.
Extends(r2, r, e) ==
  /\ Len(r2) = Len(r) + 1
  /\ \A i \in 1 .. Len(r) : r2[i] = r[i]
  /\ r2[Len(r) + 1] = e

\* next is what is left of window without its first n seconds, and second t.
Follows(next, window, n, t) ==
  /\ Len(next) = Len(window) - n + 1
  /\ \A i \in 1 .. Len(window) - n : next[i] = window[n + i]
  /\ next[Len(window) - n + 1] = t

\* f2 gives the seconds of next the events that f gave them, and the last of r2.
Shifted(f2, f, next, window, n, r2) ==
  /\ f2[Len(next)] = Len(r2)
  /\ \A i \in 1 .. Len(window) - n : f2[i] = f[n + i]

Shift(f, next, window, n, r2, C2) ==
  \E f2 : StandsFor(f2, next, r2, C2) /\ Shifted(f2, f, next, window, n, r2)

LEMMA CountedType ==
  ASSUME NEW r, NEW q, NEW d, NEW g
  PROVE  CountedIn(r, q, d, g) \subseteq 1 .. Len(r)
BY DEF CountedIn

\* A window that keeps its seconds stands for the same events.
LEMMA StandsForLonger ==
  ASSUME NEW r \in Seq(Events), NEW r2 \in Seq(Events), NEW e, Extends(r2, r, e),
         NEW w \in Seq(0 .. MaxTs), NEW C \in SUBSET (1 .. Len(r)), NEW C2, C \subseteq C2,
         NEW f \in [1 .. Len(w) -> 1 .. Len(r)], StandsFor(f, w, r, C)
  PROVE  /\ f \in [1 .. Len(w) -> 1 .. Len(r2)]
         /\ StandsFor(f, w, r2, C2)
         /\ \A setting : C2 = C /\ Complete(f, w, r, C, setting)
                          => Complete(f, w, r2, C2, setting)
<1>1. Len(r) \in Nat /\ Len(w) \in Nat
  OBVIOUS
<1>2. f \in [1 .. Len(w) -> 1 .. Len(r2)]
  BY <1>1 DEF Extends
<1>3. \A i \in 1 .. Len(w) : f[i] \in 1 .. Len(r) /\ r2[f[i]] = r[f[i]]
  BY DEF Extends
<1>4. StandsFor(f, w, r2, C2)
  BY <1>2, <1>3 DEF StandsFor
<1>5. ASSUME NEW setting, C2 = C, Complete(f, w, r, C, setting)
      PROVE  Complete(f, w, r2, C2, setting)
  <2>1. \A j \in C : r2[j] = r[j]
    BY DEF Extends
  <2>2. QED BY <1>5, <2>1 DEF Complete
<1>6. QED BY <1>2, <1>4, <1>5

\* The window for one more event stands for that event as well.
LEMMA StandsForNext ==
  ASSUME NEW r \in Seq(Events), NEW r2 \in Seq(Events), NEW e \in Events, Extends(r2, r, e),
         NEW w \in Seq(0 .. MaxTs), NEW next \in Seq(0 .. MaxTs), NEW n \in 0 .. Len(w),
         Follows(next, w, n, e.ts), NEW C, NEW C2, C \subseteq C2, Len(r) + 1 \in C2,
         NEW f, StandsFor(f, w, r, C)
  PROVE  Shift(f, next, w, n, r2, C2)
<1> DEFINE last2 == Len(r2)
           f2 == [i \in 1 .. Len(next) |-> IF i = Len(next) THEN last2 ELSE f[n + i]]
<1>1. /\ Len(r) \in Nat /\ Len(w) \in Nat /\ n \in Nat /\ n <= Len(w)
      /\ Len(next) = Len(w) - n + 1 /\ last2 = Len(r) + 1 /\ Len(next) \in Nat \ {0}
  BY DEF Extends, Follows
<1>2. \A i \in 1 .. Len(next) : i # Len(next) => i \in 1 .. Len(w) - n /\ n + i \in 1 .. Len(w)
  <2>1. SUFFICES ASSUME NEW i \in 1 .. Len(next), i # Len(next)
                 PROVE  i \in 1 .. Len(w) - n /\ n + i \in 1 .. Len(w)
    OBVIOUS
  <2>2. Len(w) \in Nat /\ n \in Nat /\ n <= Len(w) /\ Len(next) = Len(w) - n + 1
    BY <1>1
  <2>3. i \in Nat /\ 1 <= i /\ i < Len(w) - n + 1
    <3>1. Len(next) \in Nat /\ i \in 1 .. Len(next)
      BY <1>1
    <3>2. i \in Nat /\ 1 <= i /\ i < Len(next)
      BY <2>1, <3>1
    <3>3. QED BY <2>2, <3>2
  <2>4. QED BY <2>2, <2>3
<1>3. \A i \in 1 .. Len(w) : f[i] \in 1 .. Len(r) /\ r2[f[i]] = r[f[i]] /\ f[i] < last2 /\ f[i] \in 1 .. last2
  <2>1. \A i \in 1 .. Len(w) : f[i] \in 1 .. Len(r)
    BY DEF StandsFor
  <2>2. \A k \in 1 .. Len(r) : k < last2 /\ k \in 1 .. last2
    BY <1>1
  <2>3. QED BY <2>1, <2>2 DEF Extends
<1>4. f2[Len(next)] = last2 /\ \A i \in 1 .. Len(next) : i # Len(next) => f2[i] = f[n + i]
  BY <1>1
<1>5. f2 \in [1 .. Len(next) -> 1 .. Len(r2)]
  <2>1. last2 \in 1 .. last2
    BY <1>1
  <2>2. \A i \in 1 .. Len(next) : i # Len(next) => f[n + i] \in 1 .. last2
    BY <1>2, <1>3
  <2>3. QED BY <2>1, <2>2
<1>6. \A i \in 1 .. Len(w) - n : f2[i] = f[n + i]
  <2>1. \A i \in 1 .. Len(w) - n : i \in 1 .. Len(next) /\ i # Len(next)
    BY <1>1
  <2>2. QED BY <1>4, <2>1
<1> HIDE DEF f2, last2
<1>7. \A i, j \in 1 .. Len(next) : i < j => f2[i] < f2[j]
  <2>1. SUFFICES ASSUME NEW i \in 1 .. Len(next), NEW j \in 1 .. Len(next), i < j
                 PROVE  f2[i] < f2[j]
    OBVIOUS
  <2>2. i # Len(next)
    BY <1>1, <2>1
  <2>3. CASE j = Len(next)
    BY <1>2, <1>3, <1>4, <2>2, <2>3
  <2>4. CASE j # Len(next)
    <3>1. n + i \in 1 .. Len(w) /\ n + j \in 1 .. Len(w) /\ n + i < n + j
      <4>1. n + i \in 1 .. Len(w) /\ n + j \in 1 .. Len(w)
        BY <1>2, <2>2, <2>4
      <4>2. n \in Nat /\ Len(next) \in Nat
        BY <1>1
      <4>3. n + i < n + j
        BY <2>1, <4>2
      <4>4. QED BY <4>1, <4>3
    <3>2. f[n + i] < f[n + j]
      BY <3>1 DEF StandsFor
    <3>3. QED BY <1>4, <2>2, <2>4, <3>2
  <2>5. QED BY <2>3, <2>4
<1>8. ASSUME NEW i \in 1 .. Len(next)
      PROVE  f2[i] \in C2 /\ r2[f2[i]].ts = next[i]
  <2>1. CASE i = Len(next)
    <3>1. r2[f2[i]] = e /\ f2[i] = Len(r) + 1
      BY <1>1, <1>4, <2>1 DEF Extends
    <3>2. next[i] = e.ts
      BY <1>1, <2>1 DEF Follows
    <3>3. QED BY <3>1, <3>2
  <2>2. CASE i # Len(next)
    <3>1. n + i \in 1 .. Len(w) /\ f2[i] = f[n + i] /\ next[i] = w[n + i]
      BY <1>2, <1>4, <2>2 DEF Follows
    <3>2. r2[f2[i]] = r[f[n + i]]
      <4>1. r2[f[n + i]] = r[f[n + i]]
        BY <1>3, <3>1
      <4>2. QED BY <3>1, <4>1
    <3>3. f[n + i] \in C /\ r[f[n + i]].ts = w[n + i]
      BY <3>1 DEF StandsFor
    <3>4. QED BY <3>1, <3>2, <3>3
  <2>3. QED BY <2>1, <2>2
<1>9. StandsFor(f2, next, r2, C2)
  BY <1>5, <1>7, <1>8 DEF StandsFor
<1>10. QED BY <1>4, <1>6, <1>9 DEF last2, Shift, Shifted

\* It leaves out no match that the setting asks for.
LEMMA CompleteNext ==
  ASSUME NEW r \in Seq(Events), NEW r2 \in Seq(Events), NEW e \in Events, Extends(r2, r, e),
         NEW w \in Seq(0 .. MaxTs), NEW next \in Seq(0 .. MaxTs), NEW n \in 0 .. Len(w),
         Follows(next, w, n, e.ts), NEW C, NEW C2, C2 \subseteq C \cup {Len(r) + 1},
         C2 \subseteq 1 .. Len(r2), NEW f, StandsFor(f, w, r, C), NEW f2, Shifted(f2, f, next, w, n, r2),
         NEW setting, setting.window \in Nat, Complete(f, w, r, C, setting),
         \A i \in 1 .. n : w[i] < e.ts - setting.window,
         \A k \in 1 .. Len(w) : w[k] <= e.ts
  PROVE  Complete(f2, next, r2, C2, setting)
<1>1. /\ Len(r) \in Nat /\ Len(w) \in Nat /\ n \in Nat /\ n <= Len(w)
      /\ Len(next) = Len(w) - n + 1 /\ Len(r2) = Len(r) + 1 /\ Len(next) \in Nat \ {0}
      /\ next[Len(next)] = e.ts
  BY DEF Extends, Follows
<1>2. e.ts \in Nat /\ \A k \in 1 .. Len(w) : w[k] \in Nat
  <2>1. e.ts \in 0 .. MaxTs /\ \A k \in 1 .. Len(w) : w[k] \in 0 .. MaxTs
    BY ElementOfSeq DEF Events
  <2>2. QED BY <2>1, BoundsType
<1>3. SUFFICES ASSUME NEW j \in C2
               PROVE  \/ \E i \in 1 .. Len(next) : f2[i] = j
                      \/ r2[j].ts < e.ts - setting.window
  BY <1>1 DEF Complete
<1>4. CASE j = Len(r2)
  BY <1>1, <1>4 DEF Shifted
<1>5. CASE j # Len(r2)
  <2>1. j \in C /\ j \in 1 .. Len(r) /\ r2[j] = r[j]
    <3>1. j \in 1 .. Len(r2)
      BY <1>3
    <3>2. QED BY <1>1, <1>3, <1>5, <3>1 DEF Extends
  <2>2. \/ \E i \in 1 .. Len(w) : f[i] = j
        \/ Len(w) > 0 /\ r[j].ts < w[Len(w)] - setting.window
    BY <1>3, <2>1 DEF Complete
  <2>3. CASE Len(w) > 0 /\ r[j].ts < w[Len(w)] - setting.window
    <3>1. w[Len(w)] <= e.ts /\ w[Len(w)] \in Nat
      BY <1>1, <1>2, <2>3
    <3>2. r[j].ts \in Nat
      <4>1. r[j] \in Events
        BY <2>1, ElementOfSeq
      <4>2. QED BY <4>1, BoundsType DEF Events
    <3>3. QED BY <1>2, <2>1, <2>3, <3>1, <3>2
  <2>4. ASSUME NEW i \in 1 .. Len(w), f[i] = j
        PROVE  \/ \E k \in 1 .. Len(next) : f2[k] = j
               \/ r2[j].ts < e.ts - setting.window
    <3>1. CASE i <= n
      <4>1. r[j].ts = w[i] /\ i \in 1 .. n
        BY <1>1, <2>4, <3>1 DEF StandsFor
      <4>2. QED BY <2>1, <4>1
    <3>2. CASE ~(i <= n)
      <4>1. i - n \in 1 .. Len(w) - n /\ n + (i - n) = i /\ i - n \in 1 .. Len(next)
        BY <1>1, <3>2
      <4>2. f2[i - n] = f[n + (i - n)]
        BY <4>1 DEF Shifted
      <4>3. QED BY <2>4, <4>1, <4>2
    <3>3. QED BY <3>1, <3>2
  <2>5. QED BY <2>2, <2>3, <2>4
<1>6. QED BY <1>4, <1>5

\* An event looked at with the detectors run counts where run says so, and what
\* was counted before stays counted, whatever run says.
LEMMA ExaminedCounts ==
  ASSUME TInv, NEW a \in Agents, NEW run, Examines(a, run)
  PROVE  LET e == Head(post[a].batch)
         IN /\ received \in Seq(Events) /\ received' \in Seq(Events)
            /\ Extends(received', received, e)
            /\ \A d, g :
                 LET old == CountedIn(received, applied, d, g)
                     new == CountedIn(received', applied', d, g)
                 IN /\ old \subseteq 1 .. Len(received) /\ new \subseteq 1 .. Len(received')
                    /\ old \subseteq new /\ new \subseteq old \cup {Len(received) + 1}
                    /\ Len(received) + 1 \in new <=>
                         Matches(run, d, e) /\ Correlates(run[d]) /\ g = GroupOf(run[d], e)
<1> DEFINE e == Head(post[a].batch)
<1>1. /\ received \in Seq(Events) /\ received' \in Seq(Events)
      /\ Len(received) \in Nat /\ Len(received') = Len(received) + 1
      /\ \A i \in 1 .. Len(received) : received'[i] = received[i] /\ applied'[i] = applied[i]
      /\ received'[Len(received) + 1] = e /\ applied'[Len(received) + 1] = run
  BY ExaminesType, LenType DEF TInv, TypeOK
<1>2. Extends(received', received, e)
  BY <1>1 DEF Extends
<1> HIDE DEF e
<1>3. ASSUME NEW d, NEW g
      PROVE  LET old == CountedIn(received, applied, d, g)
                 new == CountedIn(received', applied', d, g)
             IN /\ old \subseteq 1 .. Len(received) /\ new \subseteq 1 .. Len(received')
                /\ old \subseteq new /\ new \subseteq old \cup {Len(received) + 1}
                /\ Len(received) + 1 \in new <=>
                     Matches(run, d, e) /\ Correlates(run[d]) /\ g = GroupOf(run[d], e)
  <2> DEFINE r == received
             q == applied
             r2 == received'
             q2 == applied'
             n == Len(received)
  <2>1. /\ n \in Nat /\ Len(r) = n /\ Len(r2) = n + 1
        /\ \A i \in 1 .. n : r2[i] = r[i] /\ q2[i] = q[i]
        /\ r2[n + 1] = e /\ q2[n + 1] = run
    BY <1>1
  <2> HIDE DEF r, q, r2, q2, n
  <2> DEFINE old == CountedIn(r, q, d, g)
             new == CountedIn(r2, q2, d, g)
             Counts(j, t, p) == LET file == p[j][d]
                                IN /\ file # Absent
                                   /\ Correlates(file)
                                   /\ t[j].class \in file.matched
                                   /\ g = IF file.byAgent THEN t[j].agent ELSE Shared
  <2>2. old = {j \in 1 .. n : Counts(j, r, q)} /\ new = {j \in 1 .. n + 1 : Counts(j, r2, q2)}
    BY <2>1 DEF CountedIn
  <2>3. \A j \in 1 .. n : Counts(j, r2, q2) <=> Counts(j, r, q)
    BY <2>1
  <2>4. Counts(n + 1, r2, q2) <=>
          Matches(run, d, e) /\ Correlates(run[d]) /\ g = GroupOf(run[d], e)
    BY <2>1 DEF Matches, GroupOf
  <2> HIDE DEF Counts
  <2>5. \A j \in 1 .. n : j \in 1 .. n + 1
    BY <2>1
  <2>6. \A j \in 1 .. n + 1 : j \in 1 .. n \/ j = n + 1
    BY <2>1
  <2>7. n + 1 \in 1 .. n + 1
    BY <2>1
  <2> HIDE DEF old, new
  <2>8. /\ old \subseteq 1 .. n /\ new \subseteq 1 .. n + 1
        /\ old \subseteq new /\ new \subseteq old \cup {n + 1}
        /\ n + 1 \in new <=>
             Matches(run, d, e) /\ Correlates(run[d]) /\ g = GroupOf(run[d], e)
    BY <2>2, <2>3, <2>4, <2>5, <2>6, <2>7
  <2>9. QED BY <2>1, <2>8 DEF old, new, r, q, r2, q2, n
<1>4. QED BY <1>1, <1>2, <1>3 DEF e

\* The window that a match leaves.
LEMMA NextIs ==
  ASSUME TInv, ClockInv, NEW a \in Agents, NEW run, Examines(a, run), NEW d \in Detectors,
         Matches(run, d, Head(post[a].batch))
  PROVE  LET e       == Head(post[a].batch)
             w       == windows[d][GroupOf(run[d], e)]
             next    == NextWindow(run, d, e)
         IN /\ GroupOf(run[d], e) \in Groups
            /\ run[d] \in Settings /\ run[d].window \in Nat /\ run[d].count \in Nat \ {0}
            /\ w \in Seq(0 .. MaxTs) /\ next \in Seq(0 .. MaxTs)
            /\ \E n \in 0 .. Len(w) :
                 /\ Follows(next, w, n, e.ts)
                 /\ \A i \in 1 .. n : w[i] < e.ts - run[d].window
                 /\ n < Len(w) => w[n + 1] >= e.ts - run[d].window
<1> DEFINE e       == Head(post[a].batch)
           g       == GroupOf(run[d], e)
           w       == windows[d][g]
           next    == NextWindow(run, d, e)
           cutoff  == e.ts - run[d].window
<1>1. e \in Events /\ run \in Loads /\ Matches(run, d, e) /\ g \in Groups
  BY ExaminedIs DEF Examines
<1>2. windows \in [Detectors -> [Groups -> Seq(0 .. MaxTs)]]
  BY DEF TInv, TypeOK
<1>3. w \in Seq(0 .. MaxTs)
  <2> HIDE DEF g
  <2>1. QED BY <1>1, <1>2
<1> HIDE DEF e
<1>4. run[d] \in Settings /\ run[d].count \in Nat \ {0} /\ run[d].window \in Nat
  BY <1>1, SettingType
<1>5. /\ next \in Seq(0 .. MaxTs)
      /\ \E n \in 0 .. Len(w) :
           /\ Len(next) = Len(w) - n + 1
           /\ \A i \in 1 .. Len(w) - n : next[i] = w[n + i]
           /\ next[Len(w) - n + 1] = e.ts
           /\ \A i \in 1 .. n : w[i] < cutoff
           /\ n < Len(w) => w[n + 1] >= cutoff
  BY <1>1, <1>2, NextWindowIs, Zenon
<1> HIDE DEF w, next, g
<1>6. QED BY <1>1, <1>3, <1>4, <1>5 DEF Follows, w, next, g, e

\* Every second left in the window of an agent is recent enough.
LEMMA NextSeconds ==
  ASSUME TInv, ClockInv, NEW a \in Agents, NEW run, Examines(a, run), NEW d \in Detectors,
         Matches(run, d, Head(post[a].batch)), run[d].byAgent
  PROVE  LET e    == Head(post[a].batch)
             next == NextWindow(run, d, e)
         IN /\ GroupOf(run[d], e) = a
            /\ \A k \in 1 .. Len(next) : next[k] \in e.ts - run[d].window .. e.ts
            /\ \A k \in 1 .. Len(windows[d][a]) : windows[d][a][k] <= e.ts
<1> DEFINE e       == Head(post[a].batch)
           setting == run[d]
           w       == windows[d][a]
           next    == NextWindow(run, d, e)
<1>2. GroupOf(run[d], e) = a /\ e.ts \in Nat
  BY ExaminedIs
<1>3. PICK n \in 0 .. Len(w) :
        /\ Follows(next, w, n, e.ts)
        /\ n < Len(w) => w[n + 1] >= e.ts - setting.window
  <2>1. \E n \in 0 .. Len(windows[d][GroupOf(run[d], e)]) :
          /\ Follows(next, windows[d][GroupOf(run[d], e)], n, e.ts)
          /\ \A i \in 1 .. n : windows[d][GroupOf(run[d], e)][i] < e.ts - setting.window
          /\ n < Len(windows[d][GroupOf(run[d], e)]) => windows[d][GroupOf(run[d], e)][n + 1] >= e.ts - setting.window
    BY NextIs, Zenon
  <2> HIDE DEF next, e
  <2>2. QED BY <1>2, <2>1
<1>4. setting.window \in Nat
  BY NextIs
<1>5. /\ Sorted(w) /\ Len(w) \in Nat
      /\ \A k \in 1 .. Len(w) : w[k] \in Nat /\ w[k] <= e.ts
  <2>1. 1 \in 1 .. Len(post[a].batch) /\ e = post[a].batch[1]
    BY NextEventIs DEF Examines
  <2>2. Sorted(w) /\ \A k \in 1 .. Len(w) : w[k] <= e.ts
    BY <2>1 DEF ClockInv, ClockOf
  <2>3. Len(w) \in Nat /\ \A k \in 1 .. Len(w) : w[k] \in Nat
    BY ClockTypes
  <2>4. QED BY <2>2, <2>3
<1> HIDE DEF e, setting, w, next
<1>6. /\ n \in Nat /\ n <= Len(w) /\ Len(next) = Len(w) - n + 1
      /\ \A i \in 1 .. Len(w) - n : next[i] = w[n + i]
      /\ next[Len(next)] = e.ts
  BY <1>3, <1>5 DEF Follows
<1>7. ASSUME NEW k \in 1 .. Len(next)
      PROVE  next[k] \in e.ts - setting.window .. e.ts
  <2>1. CASE k = Len(next)
    BY <1>2, <1>4, <1>6, <2>1
  <2>2. CASE k # Len(next)
    <3>1. k \in 1 .. Len(w) - n /\ n + k \in 1 .. Len(w) /\ n + 1 \in 1 .. Len(w) /\ n + 1 <= n + k /\ n < Len(w)
      <4>1. Len(w) \in Nat /\ n \in Nat /\ n <= Len(w) /\ Len(next) = Len(w) - n + 1
        BY <1>5, <1>6
      <4>2. k \in Nat /\ 1 <= k /\ k < Len(w) - n + 1
        BY <2>2, <4>1
      <4>3. QED BY <4>1, <4>2
    <3>2. next[k] = w[n + k] /\ w[n + 1] >= e.ts - setting.window
      BY <1>3, <1>6, <3>1
    <3>3. w[n + 1] <= w[n + k]
      BY <1>5, <3>1 DEF Sorted
    <3>4. w[n + k] \in Nat /\ w[n + 1] \in Nat /\ w[n + k] <= e.ts
      BY <1>5, <3>1
    <3>5. QED BY <1>2, <1>4, <3>2, <3>3, <3>4
  <2>3. QED BY <2>1, <2>2
<1>8. QED BY <1>2, <1>5, <1>7 DEF e, setting, w, next

\* The events behind the window that a match leaves.
LEMMA BehindNext ==
  ASSUME TInv, ClockInv, LenInv, SettingsInv, WindowsInv, [Next]_vars,
         NEW a \in Agents, NEW run, Examines(a, run),
         NEW d \in Detectors, Matches(run, d, Head(post[a].batch)), Correlates(run[d])
  PROVE  LET e    == Head(post[a].batch)
             g    == GroupOf(run[d], e)
             next == NextWindow(run, d, e)
             C2   == CountedIn(received', applied', d, g)
         IN /\ Len(next) \in Nat \ {0} /\ next[1] >= e.ts - run[d].window
            /\ next[Len(next)] = e.ts
            /\ \E f \in [1 .. Len(next) -> 1 .. Len(received')] :
                 /\ StandsFor(f, next, received', C2)
                 /\ f[Len(next)] = Len(received')
                 /\ Undisturbed' /\ Counting(d) => Complete(f, next, received', C2, Shipped[d])
<1> DEFINE e       == Head(post[a].batch)
           setting == run[d]
           g       == GroupOf(run[d], e)
           w       == windows[d][g]
           next    == NextWindow(run, d, e)
           r       == received
           r2      == received'
           C       == CountedIn(received, applied, d, g)
           C2      == CountedIn(received', applied', d, g)
<1>1. e \in Events /\ e.agent = a /\ e.ts \in Nat
  BY ExaminedIs
<1>2. /\ g \in Groups
      /\ setting \in Settings /\ setting.window \in Nat /\ setting.count \in Nat \ {0}
      /\ w \in Seq(0 .. MaxTs) /\ next \in Seq(0 .. MaxTs)
  BY NextIs
<1>3. PICK n \in 0 .. Len(w) :
        /\ Follows(next, w, n, e.ts)
        /\ \A i \in 1 .. n : w[i] < e.ts - setting.window
        /\ n < Len(w) => w[n + 1] >= e.ts - setting.window
  BY NextIs, Zenon
<1>4. PICK f \in [1 .. Len(w) -> 1 .. Len(r)] :
        /\ StandsFor(f, w, r, C)
        /\ Undisturbed /\ Counting(d) => Complete(f, w, r, C, Shipped[d])
  <2> HIDE DEF g
  <2>1. QED BY <1>2, Zenon DEF WindowsInv
<1>5. /\ r \in Seq(Events) /\ r2 \in Seq(Events) /\ Extends(r2, r, e)
      /\ C \subseteq C2 /\ C2 \subseteq C \cup {Len(r) + 1} /\ Len(r) + 1 \in C2
      /\ C2 \subseteq 1 .. Len(r2)
  <2>1. /\ r \in Seq(Events) /\ r2 \in Seq(Events) /\ Extends(r2, r, e)
        /\ C \subseteq C2 /\ C2 \subseteq C \cup {Len(r) + 1}
        /\ C2 \subseteq 1 .. Len(r2)
        /\ Len(r) + 1 \in C2 <=> Matches(run, d, e) /\ Correlates(run[d]) /\ g = GroupOf(run[d], e)
    BY ExaminedCounts
  <2> HIDE DEF r, r2, C, C2, e
  <2>2. QED BY <2>1 DEF e
<1>6. Undisturbed' => Undisturbed /\ run = Shipped
  BY ExaminedWithShipped
<1>7. setting.byAgent => \A k \in 1 .. Len(w) : w[k] <= e.ts
  <2>1. SUFFICES ASSUME setting.byAgent PROVE \A k \in 1 .. Len(w) : w[k] <= e.ts
    OBVIOUS
  <2>2. g = a /\ \A k \in 1 .. Len(windows[d][a]) : windows[d][a][k] <= e.ts
    BY <2>1, NextSeconds
  <2> HIDE DEF g, e
  <2>3. QED BY <2>2
<1> HIDE DEF e, setting, g, w, next, r, r2, C, C2
<1>8. PICK f2 : StandsFor(f2, next, r2, C2) /\ Shifted(f2, f, next, w, n, r2)
  <2>1. Shift(f, next, w, n, r2, C2)
    BY <1>1, <1>2, <1>3, <1>4, <1>5, StandsForNext
  <2>2. QED BY <2>1 DEF Shift
<1>9. Undisturbed' /\ Counting(d) => Complete(f2, next, r2, C2, Shipped[d])
  <2>1. SUFFICES ASSUME Undisturbed', Counting(d)
                 PROVE  Complete(f2, next, r2, C2, setting)
    <3>1. Undisturbed' => Shipped[d] = setting
      BY <1>6 DEF setting
    <3>2. QED BY <3>1
  <2>2. Complete(f, w, r, C, setting) /\ setting.byAgent
    BY <1>4, <1>6, <2>1 DEF setting, Counting
  <2>3. \A k \in 1 .. Len(w) : w[k] <= e.ts
    BY <1>7, <2>2
  <2>4. /\ Follows(next, w, n, e.ts) /\ StandsFor(f, w, r, C) /\ Shifted(f2, f, next, w, n, r2)
        /\ \A i \in 1 .. n : w[i] < e.ts - setting.window
    BY <1>3, <1>4, <1>8
  <2>5. QED BY <1>1, <1>2, <1>5, <2>2, <2>3, <2>4, CompleteNext, Zenon
<1>10. Len(next) \in Nat \ {0} /\ next[1] >= e.ts - setting.window /\ next[Len(next)] = e.ts
  <2>1. /\ Len(w) \in Nat /\ n \in Nat /\ n <= Len(w) /\ Len(next) = Len(w) - n + 1
        /\ next[Len(w) - n + 1] = e.ts
        /\ n < Len(w) => next[1] = w[n + 1]
    <3>1. Len(w) \in Nat
      BY <1>2
    <3>2. QED BY <1>3, <3>1 DEF Follows
  <2>2. next[1] >= e.ts - setting.window
    <3>1. CASE n < Len(w)
      BY <1>3, <2>1, <3>1
    <3>2. CASE n = Len(w)
      <4>1. next[1] = e.ts
        BY <2>1, <3>2
      <4>2. QED BY <1>1, <1>2, <4>1
    <3>3. QED BY <2>1, <3>1, <3>2
  <2>3. QED BY <2>1, <2>2
<1>11. f2 \in [1 .. Len(next) -> 1 .. Len(r2)] /\ f2[Len(next)] = Len(r2)
  BY <1>8 DEF StandsFor, Shifted
<1>12. QED BY <1>8, <1>9, <1>10, <1>11 DEF e, setting, g, next, r2, C2

LEMMA InitWindows == Init => WindowsInv
<1>1. SUFFICES ASSUME Init, NEW d \in Detectors, NEW g \in Groups
               PROVE  \E f \in [1 .. Len(windows[d][g]) -> 1 .. Len(received)] :
                        /\ StandsFor(f, windows[d][g], received, CountedIn(received, applied, d, g))
                        /\ Complete(f, windows[d][g], received,
                                    CountedIn(received, applied, d, g), Shipped[d])
  BY DEF WindowsInv
<1> DEFINE C == CountedIn(received, applied, d, g)
           f == [i \in 1 .. Len(<<>>) |-> i]
<1>2. windows[d][g] = <<>> /\ received = <<>>
  BY <1>1 DEF Init
<1>3. 1 .. Len(<<>>) = {}
  BY EmptySeq
<1>4. f \in [1 .. Len(<<>>) -> 1 .. Len(<<>>)]
  BY <1>3
<1>5. C = {}
  BY <1>2, <1>3, CountedType
<1> HIDE DEF C
<1>6. StandsFor(f, <<>>, <<>>, C)
  BY <1>3, <1>4 DEF StandsFor
<1>7. Complete(f, <<>>, <<>>, C, Shipped[d])
  BY <1>5 DEF Complete
<1> HIDE DEF f
<1>8. QED BY <1>2, <1>4, <1>6, <1>7 DEF C

\* After a restart every window is empty, and the run is disturbed.
LEMMA RestartWindows ==
  ASSUME TInv, Restart
  PROVE  WindowsInv'
<1>1. SUFFICES ASSUME NEW d \in Detectors, NEW g \in Groups
               PROVE  \E f \in [1 .. Len(windows'[d][g]) -> 1 .. Len(received')] :
                        /\ StandsFor(f, windows'[d][g], received', CountedIn(received', applied', d, g))
                        /\ ~Undisturbed'
  BY DEF WindowsInv
<1> DEFINE C == CountedIn(received', applied', d, g)
           f == [i \in 1 .. Len(<<>>) |-> i]
<1>2. windows'[d][g] = <<>>
  BY DEF Restart
<1>3. 1 .. Len(<<>>) = {}
  BY EmptySeq
<1>4. faults \in Nat /\ faults' = faults + 1
  BY BoundsType DEF Restart, TInv, TypeOK
<1>5. ~Undisturbed'
  BY <1>4 DEF Undisturbed
<1>6. f \in [1 .. Len(<<>>) -> 1 .. Len(received')]
  BY <1>3
<1> HIDE DEF C
<1>7. StandsFor(f, <<>>, received', C)
  BY <1>3, <1>6 DEF StandsFor
<1> HIDE DEF f
<1>8. QED BY <1>2, <1>5, <1>6, <1>7 DEF C

LEMMA ExaminedWindows ==
  ASSUME TInv, ClockInv, LenInv, SettingsInv, WindowsInv, [Next]_vars,
         NEW a \in Agents, NEW run, Examines(a, run)
  PROVE  WindowsInv'
<1> DEFINE e  == Head(post[a].batch)
           r  == received
           r2 == received'
<1>1. SUFFICES ASSUME NEW d \in Detectors, NEW g \in Groups
               PROVE  LET C2 == CountedIn(received', applied', d, g)
                      IN \E f \in [1 .. Len(windows'[d][g]) -> 1 .. Len(r2)] :
                           /\ StandsFor(f, windows'[d][g], r2, C2)
                           /\ Undisturbed' /\ Counting(d) =>
                                Complete(f, windows'[d][g], r2, C2, Shipped[d])
  BY DEF WindowsInv
<1> DEFINE C  == CountedIn(received, applied, d, g)
           C2 == CountedIn(received', applied', d, g)
           Here == Matches(run, d, e) /\ Correlates(run[d]) /\ g = GroupOf(run[d], e)
<1>2. windows'[d][g] = IF Here THEN NextWindow(run, d, e) ELSE windows[d][g]
  BY ExaminedIs
<1>3. CASE Here
  <2> DEFINE next == NextWindow(run, d, e)
             h    == GroupOf(run[d], e)
             D2   == CountedIn(received', applied', d, h)
  <2>1. windows'[d][g] = next
    BY <1>2, <1>3
  <2>2. \E f \in [1 .. Len(next) -> 1 .. Len(received')] :
          /\ StandsFor(f, next, received', D2)
          /\ f[Len(next)] = Len(received')
          /\ Undisturbed' /\ Counting(d) => Complete(f, next, received', D2, Shipped[d])
    BY <1>3, BehindNext, Zenon
  <2>3. g = h
    BY <1>3
  <2>4. D2 = C2
    BY <2>3
  <2> HIDE DEF next, D2, C2, e
  <2>5. QED BY <2>1, <2>2, <2>4 DEF C2
<1>4. CASE ~Here
  <2> DEFINE w == windows[d][g]
  <2>1. windows'[d][g] = w /\ w \in Seq(0 .. MaxTs)
    BY <1>2, <1>4 DEF TInv, TypeOK
  <2>2. PICK f \in [1 .. Len(w) -> 1 .. Len(r)] :
          /\ StandsFor(f, w, r, C)
          /\ Undisturbed /\ Counting(d) => Complete(f, w, r, C, Shipped[d])
    BY Zenon DEF WindowsInv
  <2>3. /\ r \in Seq(Events) /\ r2 \in Seq(Events) /\ Extends(r2, r, e)
        /\ C \in SUBSET (1 .. Len(r)) /\ C \subseteq C2
        /\ C2 \subseteq C \cup {Len(r) + 1} /\ Len(r) + 1 \notin C2
    <3>1. /\ r \in Seq(Events) /\ r2 \in Seq(Events) /\ Extends(r2, r, e)
          /\ C \subseteq 1 .. Len(r) /\ C \subseteq C2 /\ C2 \subseteq C \cup {Len(r) + 1}
          /\ Len(r) + 1 \in C2 <=> Here
      BY ExaminedCounts
    <3> HIDE DEF C, C2, Here, r, r2
    <3>2. QED BY <1>4, <3>1
  <2>4. Undisturbed' => Undisturbed
    BY UndisturbedBefore
  <2> HIDE DEF w, r, r2, e, C, C2, Here
  <2>5. C2 = C
    BY <2>3
  <2>6. /\ f \in [1 .. Len(w) -> 1 .. Len(r2)]
        /\ StandsFor(f, w, r2, C2)
        /\ \A setting : C2 = C /\ Complete(f, w, r, C, setting)
                          => Complete(f, w, r2, C2, setting)
    BY <2>1, <2>2, <2>3, StandsForLonger
  <2>7. QED BY <2>1, <2>2, <2>4, <2>5, <2>6 DEF C2
<1>5. QED BY <1>3, <1>4

LEMMA WindowsInvStep ==
  ASSUME TInv, ClockInv, LenInv, SettingsInv, WindowsInv, [Next]_vars
  PROVE  WindowsInv'
<1>1. ASSUME windows' = windows, received' = received, applied' = applied
      PROVE  WindowsInv'
  <2>1. Undisturbed' => Undisturbed
    BY UndisturbedBefore
  <2>2. QED BY <1>1, <2>1 DEF WindowsInv
<1>2. CASE UNCHANGED vars
  BY <1>1, <1>2 DEF vars
<1>3. ASSUME NEW d \in Edited, Reload(d) PROVE WindowsInv'
  BY <1>1, <1>3 DEF Reload
<1>4. ASSUME NEW a \in Agents, Post(a) \/ Enter(a) \/ InsertRaises(a) \/ Commit(a) PROVE WindowsInv'
  BY <1>1, <1>4 DEF Post, Enter, InsertRaises, Commit
<1>5. ASSUME NEW a \in Agents, InsertEvent(a) \/ SummaryRaises(a) PROVE WindowsInv'
  BY <1>5, InsertEventExamines, SummaryRaisesExamines, ExaminedWindows
<1>6. QED BY <1>2, <1>3, <1>4, <1>5, RestartWindows DEF Next

-------------------------------------------------------------------------------
(* No detection without its matches.                                       *)

\* As many members as a sequence of different members is long.
LEMMA AtLeast ==
  ASSUME NEW T, IsFiniteSet(T), NEW m \in Nat, NEW f,
         \A i \in 1 .. m : f[i] \in T, \A i, j \in 1 .. m : f[i] = f[j] => i = j
  PROVE  /\ Cardinality(T) \in Nat /\ Cardinality(T) >= m
         /\ (\A x \in T : \E i \in 1 .. m : f[i] = x) => Cardinality(T) = m
<1> DEFINE fn == [i \in 1 .. m |-> f[i]]
<1>1. fn \in Injection(1 .. m, T)
  BY DEF Injection, IsInjective
<1>2. IsFiniteSet(1 .. m) /\ Cardinality(1 .. m) = m
  BY FS_Interval
<1>3. (\A x \in T : \E i \in 1 .. m : f[i] = x) => fn \in Surjection(1 .. m, T)
  BY <1>1 DEF Injection, Surjection
<1>4. Cardinality(T) \in Nat
  BY FS_CardinalityType
<1> HIDE DEF fn
<1>5. Cardinality(1 .. m) <= Cardinality(T) /\ (fn \in Surjection(1 .. m, T) => Cardinality(1 .. m) = Cardinality(T))
  BY <1>1, FS_Injection
<1>6. QED BY <1>2, <1>3, <1>4, <1>5

\* The events behind a window are different ones.
LEMMA StandsForDifferent ==
  ASSUME NEW w, NEW m \in Nat, Len(w) = m, NEW r, Len(r) \in Nat, NEW C, NEW f, StandsFor(f, w, r, C)
  PROVE  /\ \A i \in 1 .. m : f[i] \in 1 .. Len(r)
         /\ \A i, j \in 1 .. m : f[i] = f[j] => i = j
         /\ \A i, j \in 1 .. m : i <= j => f[i] <= f[j]
<1>1. \A i \in 1 .. m : f[i] \in 1 .. Len(r)
  BY DEF StandsFor
<1>2. \A i \in 1 .. m : f[i] \in Int
  BY <1>1
<1>3. \A i, j \in 1 .. m : i < j => f[i] < f[j]
  BY DEF StandsFor
<1>4. \A i, j \in 1 .. m : f[i] = f[j] => i = j
  <2>1. SUFFICES ASSUME NEW i \in 1 .. m, NEW j \in 1 .. m, f[i] = f[j], i # j PROVE FALSE
    OBVIOUS
  <2>2. i < j \/ j < i
    BY <2>1
  <2>3. f[i] < f[j] \/ f[j] < f[i]
    BY <1>3, <2>2
  <2>4. QED BY <1>2, <2>1, <2>3
<1>5. \A i, j \in 1 .. m : i <= j => f[i] <= f[j]
  <2>1. SUFFICES ASSUME NEW i \in 1 .. m, NEW j \in 1 .. m, i <= j PROVE f[i] <= f[j]
    OBVIOUS
  <2>2. i < j \/ i = j
    BY <2>1
  <2>3. f[i] < f[j] \/ f[i] = f[j]
    BY <1>3, <2>2
  <2>4. QED BY <1>2, <2>3
<1>6. QED BY <1>1, <1>4, <1>5

LEMMA PartFinite ==
  ASSUME NEW m, NEW n, m \in Int, n \in Int, NEW S \in SUBSET (m .. n)
  PROVE  IsFiniteSet(S) /\ Cardinality(S) \in Nat
<1>1. IsFiniteSet(m .. n)
  BY FS_Interval
<1>2. IsFiniteSet(S)
  BY <1>1, FS_Subset
<1>3. QED BY <1>2, FS_CardinalityType

\* What was received later makes no detection wrong.
LEMMA JustifiedLonger ==
  ASSUME NEW r \in Seq(Events), NEW r2 \in Seq(Events), NEW e, Extends(r2, r, e),
         NEW q, NEW q2, \A d, g : CountedIn(r, q, d, g) \subseteq CountedIn(r2, q2, d, g),
         NEW h, h.count \in Nat, NEW x, Justified(h, r, q, x)
  PROVE  Justified(h, r2, q2, x)
<1>1. Len(r) \in Nat /\ Len(r2) = Len(r) + 1 /\ \A i \in 1 .. Len(r) : r2[i] = r[i]
  BY DEF Extends
<1>2. ASSUME NEW C \in SUBSET (1 .. Len(r)), NEW C2 \in SUBSET (1 .. Len(r2)), C \subseteq C2,
             OwnJustified(h, r, C, x)
      PROVE  OwnJustified(h, r2, C2, x)
  <2> DEFINE A == {j \in C : r[j].ts \in x.ts - h.setting.window .. x.ts}
             B == {j \in C2 : r2[j].ts \in x.ts - h.setting.window .. x.ts}
  <2>1. A \subseteq B
    BY <1>1, <1>2
  <2>2. A \subseteq 1 .. Len(r) /\ B \subseteq 1 .. Len(r2)
    OBVIOUS
  <2>3. h.count = h.setting.count /\ Cardinality(A) >= h.count
    BY <1>2 DEF OwnJustified
  <2> HIDE DEF A, B
  <2>4. Len(r2) \in Int /\ Len(r) \in Int /\ 1 \in Int
    BY <1>1
  <2>5. IsFiniteSet(B) /\ Cardinality(A) \in Nat /\ Cardinality(B) \in Nat
    BY <2>2, <2>4, PartFinite
  <2>6. Cardinality(A) <= Cardinality(B)
    BY <2>1, <2>5, FS_Subset
  <2>7. Cardinality(B) >= h.count
    BY <2>3, <2>5, <2>6
  <2>8. QED BY <2>3, <2>7 DEF OwnJustified, B
<1>3. ASSUME NEW C \in SUBSET (1 .. Len(r)), NEW C2 \in SUBSET (1 .. Len(r2)), C \subseteq C2,
             SharedJustified(h, r, C, x)
      PROVE  SharedJustified(h, r2, C2, x)
  <2>1. PICK end \in 1 .. Len(r) : \E first \in 1 .. end :
          LET matches == C \cap (first .. end)
          IN /\ r[end] = x
             /\ first \in matches
             /\ r[first].ts >= r[end].ts - h.setting.window
             /\ Cardinality(matches) >= h.count
    BY <1>3 DEF SharedJustified
  <2>2. PICK first \in 1 .. end :
          /\ r[end] = x
          /\ first \in C \cap (first .. end)
          /\ r[first].ts >= r[end].ts - h.setting.window
          /\ Cardinality(C \cap (first .. end)) >= h.count
    BY <2>1
  <2>3. end \in 1 .. Len(r2) /\ end \in Int /\ first \in Int /\ first \in 1 .. Len(r)
    BY <1>1
  <2> DEFINE A == C \cap (first .. end)
             B == C2 \cap (first .. end)
  <2>4. A \subseteq B /\ A \subseteq first .. end /\ B \subseteq first .. end
    BY <1>3
  <2>5. h.count = h.setting.count /\ Cardinality(A) >= h.count /\ first \in A
    BY <1>3, <2>2 DEF SharedJustified
  <2> HIDE DEF A, B
  <2>6. IsFiniteSet(B) /\ Cardinality(A) \in Nat /\ Cardinality(B) \in Nat
    BY <2>3, <2>4, PartFinite
  <2>7. Cardinality(A) <= Cardinality(B)
    BY <2>4, <2>6, FS_Subset
  <2>8. Cardinality(B) >= h.count /\ first \in B
    BY <2>4, <2>5, <2>6, <2>7
  <2>9. r2[end] = r[end] /\ r2[first] = r[first]
    BY <1>1, <2>3
  <2>10. /\ r2[end] = x
         /\ first \in B
         /\ r2[first].ts >= r2[end].ts - h.setting.window
         /\ Cardinality(B) >= h.count
    BY <2>2, <2>8, <2>9
  <2>11. QED BY <2>3, <2>5, <2>10 DEF SharedJustified, B
<1>4. \A d, g : /\ CountedIn(r, q, d, g) \in SUBSET (1 .. Len(r))
                /\ CountedIn(r2, q2, d, g) \in SUBSET (1 .. Len(r2))
                /\ CountedIn(r, q, d, g) \subseteq CountedIn(r2, q2, d, g)
  BY CountedType
<1>5. QED
  <2>1. CASE ~Correlates(h.setting)
    BY <2>1 DEF Justified
  <2>2. CASE Correlates(h.setting) /\ h.setting.byAgent
    BY <1>2, <1>4, <2>2 DEF Justified
  <2>3. CASE Correlates(h.setting) /\ ~h.setting.byAgent
    BY <1>3, <1>4, <2>3 DEF Justified
  <2>4. QED BY <2>1, <2>2, <2>3

\* A window whose seconds are recent enough has its matches.
LEMMA OwnNext ==
  ASSUME NEW r \in Seq(Events), NEW e, NEW C \in SUBSET (1 .. Len(r)), NEW next,
         NEW m \in Nat, Len(next) = m, NEW f, StandsFor(f, next, r, C),
         NEW h, h.count = m, h.setting.count = m,
         \A k \in 1 .. m : next[k] \in e.ts - h.setting.window .. e.ts
  PROVE  OwnJustified(h, r, C, e)
<1> DEFINE matches == {j \in C : r[j].ts \in e.ts - h.setting.window .. e.ts}
<1>1. \A k \in 1 .. m : f[k] \in matches
  BY DEF StandsFor
<1>2. Len(r) \in Nat
  OBVIOUS
<1>3. \A i, j \in 1 .. m : f[i] = f[j] => i = j
  BY <1>2, StandsForDifferent
<1>4. matches \in SUBSET (1 .. Len(r))
  OBVIOUS
<1>5. IsFiniteSet(matches)
  <2> HIDE DEF matches
  <2>1. Len(r) \in Int /\ 1 \in Int
    BY <1>2
  <2>2. QED BY <1>4, <2>1, PartFinite
<1> HIDE DEF matches
<1>6. Cardinality(matches) >= m
  BY <1>1, <1>3, <1>5, AtLeast
<1>7. QED BY <1>6 DEF OwnJustified, matches

\* The matches from the first event behind a window on.
LEMMA SharedNext ==
  ASSUME NEW r \in Seq(Events), NEW e, NEW C \in SUBSET (1 .. Len(r)), NEW next,
         NEW m \in Nat \ {0}, Len(next) = m, NEW f, StandsFor(f, next, r, C),
         f[m] = Len(r), r[Len(r)] = e,
         NEW h, h.count = m, h.setting.count = m,
         next[1] >= e.ts - h.setting.window
  PROVE  SharedJustified(h, r, C, e)
<1>1. Len(r) \in Nat
  OBVIOUS
<1>2. /\ \A i \in 1 .. m : f[i] \in 1 .. Len(r)
      /\ \A i, j \in 1 .. m : f[i] = f[j] => i = j
      /\ \A i, j \in 1 .. m : i <= j => f[i] <= f[j]
  BY <1>1, StandsForDifferent
<1> DEFINE end     == Len(r)
           first   == f[1]
           matches == C \cap (first .. end)
<1>3. 1 \in 1 .. m /\ m \in 1 .. m
  OBVIOUS
<1>4. first \in 1 .. end /\ end \in 1 .. Len(r) /\ first \in Int /\ end \in Int
  BY <1>1, <1>2, <1>3
<1>5. \A i \in 1 .. m : f[i] \in matches
  <2>1. SUFFICES ASSUME NEW i \in 1 .. m PROVE f[i] \in matches
    OBVIOUS
  <2>2. f[i] \in C
    BY DEF StandsFor
  <2>3. f[i] \in 1 .. Len(r) /\ f[1] <= f[i]
    BY <1>2, <1>3
  <2>4. f[i] \in first .. end
    BY <1>1, <1>4, <2>3
  <2>5. QED BY <2>2, <2>4
<1>6. IsFiniteSet(matches)
  <2>1. matches \in SUBSET (first .. end)
    OBVIOUS
  <2> HIDE DEF matches, first, end
  <2>2. QED BY <1>4, <2>1, PartFinite
<1>7. Cardinality(matches) >= m
  <2> HIDE DEF matches
  <2>1. QED BY <1>2, <1>5, <1>6, AtLeast
<1>8. r[first].ts = next[1]
  BY <1>3 DEF StandsFor
<1>9. first \in matches
  BY <1>3, <1>5
<1>10. h.count = h.setting.count /\ Cardinality(matches) >= h.count
  BY <1>7
<1>11. r[first].ts >= r[end].ts - h.setting.window /\ r[end] = e
  BY <1>8
<1> HIDE DEF first, matches
<1>12. QED BY <1>4, <1>9, <1>10, <1>11 DEF SharedJustified, matches

\* A detection that InsertEvent adds has its matches.
LEMMA InsertedJustified ==
  ASSUME TInv, ClockInv, LenInv, SettingsInv, WindowsInv, NEW a \in Agents, InsertEvent(a),
         NEW h \in HitsOf(post[a].loaded, Head(post[a].batch), RowId)
  PROVE  Justified(h, received', applied', Head(post[a].batch))
<1> DEFINE e    == Head(post[a].batch)
           run  == post[a].loaded
           d    == h.detector
           g    == GroupOf(run[d], e)
           next == NextWindow(run, d, e)
           r2   == received'
           C2   == CountedIn(received', applied', d, g)
<1>1. post[a].phase = "inside" /\ post[a].batch # <<>> /\ [Next]_vars /\ Examines(a, run)
  BY InsertEventExamines DEF InsertEvent, Next
<1>2. /\ h.setting = run[d] /\ d \in Detectors /\ Matches(run, d, e)
      /\ Emits(run, d, e) /\ h.count = MatchCount(run, d, e)
  BY <1>1, InsertedHit
<1>3. CASE ~Correlates(run[d])
  BY <1>2, <1>3 DEF Justified
<1>4. CASE Correlates(run[d])
  <2>1. h.count = Len(next) /\ h.setting.count = Len(next)
    <3> HIDE DEF e, run
    <3>1. QED BY <1>2, <1>4 DEF Emits, MatchCount
  <2>2. /\ e.agent = a /\ g = IF h.setting.byAgent THEN a ELSE Shared
    BY <1>1, <1>2, ExaminedIs
  <2>3. /\ r2 \in Seq(Events) /\ Extends(r2, received, e) /\ Len(received) \in Nat
        /\ C2 \subseteq 1 .. Len(r2)
    BY <1>1, ExaminedCounts, LenType DEF TInv
  <2>4. /\ Len(next) \in Nat \ {0} /\ next[1] >= e.ts - run[d].window
        /\ \E f \in [1 .. Len(next) -> 1 .. Len(r2)] :
             StandsFor(f, next, r2, C2) /\ f[Len(next)] = Len(r2)
    <3>1. /\ Len(next) \in Nat \ {0} /\ next[1] >= e.ts - run[d].window
          /\ next[Len(next)] = e.ts
          /\ \E f \in [1 .. Len(next) -> 1 .. Len(received')] :
               /\ StandsFor(f, next, received', C2)
               /\ f[Len(next)] = Len(received')
               /\ Undisturbed' /\ Counting(d) => Complete(f, next, received', C2, Shipped[d])
      BY <1>1, <1>2, <1>4, BehindNext, Zenon
    <3> HIDE DEF e, next, C2
    <3>2. QED BY <3>1
  <2>5. PICK f : StandsFor(f, next, r2, C2) /\ f[Len(next)] = Len(r2)
    BY <2>4
  <2>6. r2[Len(r2)] = e
    BY <2>3 DEF Extends
  <2>7. ASSUME h.setting.byAgent PROVE OwnJustified(h, r2, C2, e)
    <3>1. \A k \in 1 .. Len(next) : next[k] \in e.ts - run[d].window .. e.ts
      BY <1>1, <1>2, <2>7, NextSeconds
    <3>2. \A k \in 1 .. Len(next) : next[k] \in e.ts - h.setting.window .. e.ts
      BY <1>2, <3>1
    <3> HIDE DEF e, d, run, next, r2, C2
    <3>3. QED BY <2>1, <2>3, <2>4, <2>5, <3>2, OwnNext
  <2>8. SharedJustified(h, r2, C2, e)
    <3>1. next[1] >= e.ts - h.setting.window
      BY <1>2, <2>4
    <3> HIDE DEF e, d, run, next, r2, C2
    <3>2. QED BY <2>1, <2>3, <2>4, <2>5, <2>6, <3>1, SharedNext
  <2> HIDE DEF e, d, run, next, r2
  <2>9. CASE h.setting.byAgent
    <3>1. g = e.agent
      BY <2>2, <2>9
    <3> HIDE DEF g
    <3>2. QED BY <2>7, <2>9, <3>1 DEF Justified, e, r2, d
  <2>10. CASE ~h.setting.byAgent
    <3>1. g = Shared
      BY <2>2, <2>10
    <3> HIDE DEF g
    <3>2. QED BY <2>8, <2>10, <3>1 DEF Justified, e, r2, d
  <2>11. QED BY <2>9, <2>10
<1>5. QED BY <1>3, <1>4

LEMMA JustifiedInvStep ==
  ASSUME TInv, HitsInv, ClockInv, LenInv, SettingsInv, WindowsInv, JustifiedInv, [Next]_vars
  PROVE  JustifiedInv'
<1>1. CASE /\ ListedEvents' = ListedEvents /\ ListedDetections' = ListedDetections
           /\ UNCHANGED <<stored, hits, tx, received, applied>>
  BY <1>1 DEF JustifiedInv
<1>2. ASSUME NEW a \in Agents, Commit(a) PROVE JustifiedInv'
  <2>1. received' = received /\ applied' = applied
    BY <1>2 DEF Commit
  <2>2. QED BY <1>2, <2>1, ListedCommit DEF JustifiedInv
<1>3. ASSUME NEW a \in Agents, NEW run, Examines(a, run), NEW h \in ListedDetections
      PROVE  Justified(h, received', applied', ListedEvents[h.event])
  <2>1. Justified(h, received, applied, ListedEvents[h.event])
    BY DEF JustifiedInv
  <2>2. h.count \in Nat
    BY DEF ListedDetections, TInv, TypeOK, HitRecords
  <2> DEFINE e == Head(post[a].batch)
  <2>3. /\ received \in Seq(Events) /\ received' \in Seq(Events)
        /\ Extends(received', received, e)
        /\ \A d, g : CountedIn(received, applied, d, g) \subseteq CountedIn(received', applied', d, g)
    BY <1>3, ExaminedCounts
  <2> DEFINE x == ListedEvents[h.event]
  <2> HIDE DEF e, x
  <2>4. Justified(h, received, applied, x)
    BY <2>1 DEF x
  <2>5. Justified(h, received', applied', x)
    BY <2>2, <2>3, <2>4, JustifiedLonger
  <2>6. QED BY <2>5 DEF x
<1>4. ASSUME NEW a \in Agents, InsertEvent(a) PROVE JustifiedInv'
  <2> DEFINE e   == Head(post[a].batch)
             new == HitsOf(post[a].loaded, e, RowId)
  <2>1. ListedDetections' = ListedDetections \cup new
    BY <1>4, ListedInsert
  <2>2. Extends(ListedEvents', ListedEvents, e)
    BY <1>4, ListedInsert DEF Extends
  <2>3. ASSUME NEW h \in new PROVE Justified(h, received', applied', ListedEvents'[h.event])
    <3>1. h.event = RowId
      BY <1>4, InsertedHit DEF InsertEvent
    <3>2. ListedEvents'[h.event] = e
      BY <2>2, <3>1, ListedIs DEF Extends
    <3>3. Justified(h, received', applied', e)
      BY <1>4, InsertedJustified
    <3> HIDE DEF e, new
    <3>4. QED BY <3>2, <3>3
  <2>4. ASSUME NEW h \in ListedDetections
        PROVE  Justified(h, received', applied', ListedEvents'[h.event])
    <3>1. h.event \in 1 .. Len(ListedEvents)
      BY DEF HitsInv
    <3>2. ListedEvents'[h.event] = ListedEvents[h.event]
      BY <2>2, <3>1 DEF Extends
    <3>3. Justified(h, received', applied', ListedEvents[h.event])
      BY <1>3, <1>4, InsertEventExamines
    <3> HIDE DEF e, new
    <3>4. QED BY <3>2, <3>3
  <2> HIDE DEF new
  <2>5. QED BY <2>1, <2>3, <2>4 DEF JustifiedInv
<1>5. CASE /\ tx' = NoTx /\ UNCHANGED <<stored, hits>>
           /\ ListedEvents' = stored /\ ListedDetections' = hits
           /\ \/ UNCHANGED <<received, applied>>
              \/ \E a \in Agents : \E run : SummaryRaises(a) /\ Examines(a, run)
  <2>1. SUFFICES ASSUME NEW h \in hits PROVE Justified(h, received', applied', stored[h.event])
    BY <1>5 DEF JustifiedInv
  <2>2. /\ h \in ListedDetections
        /\ h.event <= Len(stored) /\ h.event \in 1 .. Len(ListedEvents)
    BY DEF HitsInv, ListedDetections
  <2>3. h.event \in 1 .. Len(stored)
    BY <2>2, ListedIs, LenType DEF TInv
  <2>4. ListedEvents[h.event] = stored[h.event]
    BY <2>3, ListedIs
  <2>5. CASE UNCHANGED <<received, applied>>
    BY <2>2, <2>4, <2>5 DEF JustifiedInv
  <2>6. ASSUME NEW a \in Agents, NEW run, Examines(a, run)
        PROVE  Justified(h, received', applied', stored[h.event])
    BY <1>3, <2>2, <2>4, <2>6
  <2>7. QED BY <1>5, <2>5, <2>6
<1>6. QED BY <1>1, <1>2, <1>4, <1>5, ListedStep

\* All the invariants but the one of ExactlyTheNth.
DetectionInv == TInv /\ HitsInv /\ ClockInv /\ LenInv /\ SettingsInv /\ WindowsInv /\ JustifiedInv

LEMMA InitDetectionInv == Init => DetectionInv
<1>1. Init => HitsInv /\ JustifiedInv
  BY NoTxType DEF Init, HitsInv, JustifiedInv, ListedDetections
<1>2. Init => SettingsInv
  <2>1. 1 .. Len(<<>>) = {}
    BY EmptySeq
  <2>2. QED BY <2>1 DEF Init, SettingsInv, NoPost
<1>3. Init => LenInv
  <2>1. SUFFICES ASSUME Init PROVE Len(ListedEvents) <= Len(received)
    BY DEF LenInv
  <2>2. ListedEvents = <<>> \o <<>> /\ received = <<>>
    BY <2>1, NoTxType DEF Init, ListedEvents
  <2>3. <<>> \o <<>> = <<>>
    BY EmptySeq, ConcatEmptySeq
  <2>4. QED BY <2>2, <2>3, EmptySeq
<1>4. QED BY <1>1, <1>2, <1>3, InitTInv, InitClock, InitWindows DEF DetectionInv

LEMMA DetectionInvHolds == Spec => []DetectionInv
<1>1. DetectionInv /\ [Next]_vars => DetectionInv'
  BY NextTInv, HitsInvStep, ClockInvStep, LenInvStep, SettingsInvStep, WindowsInvStep,
     JustifiedInvStep DEF DetectionInv
<1>2. QED BY <1>1, InitDetectionInv, PTL DEF Spec

\* Each committed detection is of a stored event, and its matches were received.
LEMMA CommittedJustified ==
  ASSUME DetectionInv, NEW h \in hits, Correlates(h.setting)
  PROVE  LET e == stored[h.event]
         IN IF h.setting.byAgent THEN OwnJustified(h, received, CountedFor(h.detector, e.agent), e)
            ELSE SharedJustified(h, received, CountedFor(h.detector, Shared), e)
<1>1. /\ h \in ListedDetections
      /\ h.event <= Len(stored) /\ h.event \in 1 .. Len(ListedEvents)
  BY DEF DetectionInv, HitsInv, ListedDetections
<1>2. h.event \in 1 .. Len(stored)
  BY <1>1, ListedIs, LenType DEF DetectionInv, TInv
<1>3. ListedEvents[h.event] = stored[h.event]
  BY <1>2, ListedIs DEF DetectionInv
<1>4. Justified(h, received, applied, stored[h.event])
  BY <1>1, <1>3 DEF DetectionInv, JustifiedInv
<1>5. \A d, g : CountedFor(d, g) = CountedIn(received, applied, d, g)
  BY DEF CountedFor, CountedIn
<1>6. QED BY <1>4, <1>5 DEF Justified

\* No false alarm of a detector that groups by agent: behind a detection are as
\* many events that its file, as it was when each of them came, counted for the
\* agent. Nothing else gets into a window, whatever is rolled back (which does
\* not reach the windows), restarted (which empties them), or edited: the
\* threshold, [match] or group_by, also while a call waits for the lock.
THEOREM HitsAreJustifiedHolds == Spec => []HitsAreJustified
<1>1. DetectionInv => HitsAreJustified
  BY CommittedJustified DEF HitsAreJustified, OwnJustified
<1>2. QED BY <1>1, DetectionInvHolds, PTL

\* The weaker promise of a detector whose one group several agents share, with
\* the same edits.
THEOREM SharedHitsAreJustifiedHolds == Spec => []SharedHitsAreJustified
<1>1. DetectionInv => SharedHitsAreJustified
  BY CommittedJustified DEF SharedHitsAreJustified, SharedJustified
<1>2. QED BY <1>1, DetectionInvHolds, PTL

-------------------------------------------------------------------------------
(* A detection for every event that has to have one.                       *)

\* What comes after an event does not change what is due for it.
LEMMA DueInPrefix ==
  ASSUME NEW s, NEW t, Len(s) \in Nat, Len(t) \in Nat, Len(s) <= Len(t),
         \A j \in 1 .. Len(s) : t[j] = s[j], NEW d, NEW i \in 1 .. Len(s)
  PROVE  /\ Due(t, d, i) <=> Due(s, d, i)
         /\ \A setting : MatchesUpTo(t, i, setting) = MatchesUpTo(s, i, setting)
<1>1. t[i] = s[i] /\ i \in Nat /\ i <= Len(s)
  OBVIOUS
<1>2. ASSUME NEW setting PROVE MatchesUpTo(t, i, setting) = MatchesUpTo(s, i, setting)
  <2>1. \A j : j \in 1 .. Len(t) /\ j <= i => j \in 1 .. Len(s)
    BY <1>1
  <2>2. \A j \in 1 .. Len(s) : j \in 1 .. Len(t)
    OBVIOUS
  <2>3. ASSUME NEW j PROVE j \in MatchesUpTo(t, i, setting) <=> j \in MatchesUpTo(s, i, setting)
    BY <1>1, <2>1, <2>2 DEF MatchesUpTo, InWindow
  <2>4. QED BY <2>3 DEF MatchesUpTo
<1>3. QED BY <1>1, <1>2 DEF Due

\* In a run without a fault, what InsertEvent leaves in the window of an event
\* are the matches up to it.
LEMMA NextIsExact ==
  ASSUME DetectionInv, NEW a \in Agents, InsertEvent(a), Undisturbed', NEW d \in Detectors,
         Matches(Shipped, d, Head(post[a].batch)), Counting(d)
  PROVE  Cardinality(MatchesUpTo(ListedEvents', RowId, Shipped[d]))
           = Len(NextWindow(Shipped, d, Head(post[a].batch)))
<1> DEFINE e       == Head(post[a].batch)
           setting == Shipped[d]
           next    == NextWindow(Shipped, d, e)
           r2      == received'
           C2      == CountedIn(received', applied', d, a)
           matches == MatchesUpTo(r2, RowId, setting)
<1> USE DEF DetectionInv
<1>1. [Next]_vars /\ Examines(a, Shipped) /\ setting.byAgent /\ Correlates(setting)
  <2>1. [Next]_vars /\ Examines(a, post[a].loaded)
    BY InsertEventExamines DEF Next
  <2>2. post[a].loaded = Shipped
    BY <2>1, ExaminedWithShipped
  <2>3. QED BY <2>1, <2>2 DEF Counting
<1>2. ListedEvents' = r2
  BY DEF Undisturbed
<1>3. /\ e \in Events /\ e.agent = a /\ e.ts \in Nat /\ r2 \in Seq(Events)
      /\ Extends(ListedEvents', ListedEvents, e) /\ GroupOf(Shipped[d], e) = a
  BY <1>1, ExaminedIs, ExaminedCounts, ListedInsert DEF Extends
<1>4. Len(r2) = RowId /\ r2[RowId] = e /\ RowId \in Nat
  BY <1>2, <1>3, ListedIs DEF Extends
<1>5. \A k \in 1 .. Len(next) : next[k] \in e.ts - setting.window .. e.ts
  BY <1>1, NextSeconds
<1>6. PICK f : /\ Len(next) \in Nat \ {0} /\ next[Len(next)] = e.ts
               /\ StandsFor(f, next, r2, C2)
               /\ Complete(f, next, r2, C2, setting)
  <2> DEFINE h  == GroupOf(Shipped[d], e)
             D2 == CountedIn(received', applied', d, h)
  <2>1. /\ Len(next) \in Nat \ {0} /\ next[1] >= e.ts - Shipped[d].window
        /\ next[Len(next)] = e.ts
        /\ \E f \in [1 .. Len(next) -> 1 .. Len(received')] :
             /\ StandsFor(f, next, received', D2)
             /\ f[Len(next)] = Len(received')
             /\ Undisturbed' /\ Counting(d) => Complete(f, next, received', D2, Shipped[d])
    BY <1>1, BehindNext, Zenon
  <2>2. h = a
    BY <1>3
  <2>3. D2 = C2
    BY <2>2
  <2> HIDE DEF D2, C2, next, e, h
  <2>4. QED BY <2>1, <2>3
<1>7. C2 = {j \in 1 .. Len(r2) : r2[j].class \in setting.matched /\ r2[j].agent = a}
  <2>1. SettingsInv'
    BY <1>1, SettingsInvStep
  <2>2. TInv'
    BY <1>1, NextTInv
  <2>3. \A j \in 1 .. Len(r2) : applied'[j] = Shipped
    BY <2>1, <2>2 DEF SettingsInv, TInv
  <2>4. setting # Absent
    BY DEF Counting
  <2>5. QED BY <1>1, <2>3, <2>4 DEF CountedIn
<1>8. setting.window \in Nat
  BY <1>1, NextIs
<1> HIDE DEF e, setting, next, r2, C2
<1>9. matches = {j \in C2 : r2[j].ts \in e.ts - setting.window .. e.ts}
  <2>1. \A j \in 1 .. Len(r2) : j <= RowId
    BY <1>4
  <2>2. QED BY <1>3, <1>4, <1>7, <2>1 DEF MatchesUpTo, InWindow
<1>10. \A k \in 1 .. Len(next) : f[k] \in matches
  BY <1>5, <1>6, <1>9 DEF StandsFor
<1>11. \A j \in matches : \E k \in 1 .. Len(next) : f[k] = j
  <2>1. SUFFICES ASSUME NEW j \in C2, r2[j].ts \in e.ts - setting.window .. e.ts
                 PROVE  \E k \in 1 .. Len(next) : f[k] = j
    BY <1>9
  <2>2. \/ \E k \in 1 .. Len(next) : f[k] = j
        \/ Len(next) > 0 /\ r2[j].ts < next[Len(next)] - setting.window
    BY <1>6 DEF Complete
  <2>3. ~(r2[j].ts < e.ts - setting.window)
    BY <1>3, <1>8, <2>1
  <2>4. QED BY <1>6, <2>2, <2>3
<1>12. \A i, j \in 1 .. Len(next) : f[i] = f[j] => i = j
  BY <1>3, <1>6, StandsForDifferent
<1>13. IsFiniteSet(matches)
  <2>1. matches \in SUBSET (1 .. Len(r2))
    BY <1>7, <1>9
  <2>2. Len(r2) \in Int /\ 1 \in Int
    BY <1>3
  <2> HIDE DEF matches
  <2>3. QED BY <2>1, <2>2, PartFinite
<1> HIDE DEF matches
<1>14. Cardinality(matches) = Len(next)
  <2> DEFINE m == Len(next)
  <2>1. m \in Nat /\ \A i \in 1 .. m : f[i] \in matches
    BY <1>6, <1>10
  <2>2. \A i, j \in 1 .. m : f[i] = f[j] => i = j
    BY <1>12
  <2>3. \A x \in matches : \E i \in 1 .. m : f[i] = x
    BY <1>11
  <2> HIDE DEF m
  <2>4. (\A x \in matches : \E i \in 1 .. m : f[i] = x) => Cardinality(matches) = m
    BY <1>13, <2>1, <2>2, AtLeast
  <2>5. QED BY <2>3, <2>4 DEF m
<1>15. QED BY <1>2, <1>14 DEF matches, next, e, setting, r2

LEMMA InsertEventExact ==
  ASSUME DetectionInv, ExactInv, NEW a \in Agents, InsertEvent(a)
  PROVE  ExactInv'
<1> DEFINE e   == Head(post[a].batch)
           new == HitsOf(post[a].loaded, e, RowId)
<1> USE DEF DetectionInv
<1>1. SUFFICES ASSUME Undisturbed', NEW d \in Detectors, Shipped[d] # Absent,
                      Shipped[d].byAgent, NEW i \in 1 .. Len(ListedEvents')
               PROVE  (\E h \in ListedDetections' : h.detector = d /\ h.event = i)
                        <=> Due(ListedEvents', d, i)
  BY DEF ExactInv
<1>2. Undisturbed /\ post[a].loaded = Shipped
  BY <1>1, InsertEventExamines, ExaminedWithShipped DEF Next
<1>3. /\ ListedDetections' = ListedDetections \cup new
      /\ Extends(ListedEvents', ListedEvents, e) /\ ListedEvents' \in Seq(Events)
  BY ListedInsert DEF Extends
<1>4. Len(ListedEvents) \in Nat /\ RowId = Len(ListedEvents) + 1 /\ Len(ListedEvents') = RowId
  BY <1>3, ListedIs DEF Extends
<1>5. /\ \A h \in new : h.event = RowId /\ Emits(Shipped, h.detector, e)
      /\ Emits(Shipped, d, e) => \E h \in new : h.detector = d /\ h.event = RowId
  <2>1. \A h \in new : h.event = RowId /\ Emits(Shipped, h.detector, e)
    BY <1>2, InsertedHit DEF InsertEvent
  <2>2. ASSUME Emits(Shipped, d, e) PROVE \E h \in new : h.detector = d /\ h.event = RowId
    <3> DEFINE hit == [detector |-> d, event |-> RowId, count |-> MatchCount(Shipped, d, e),
                       setting |-> Shipped[d]]
    <3>1. hit \in new
      BY <1>2, <2>2 DEF HitsOf
    <3>2. hit.detector = d /\ hit.event = RowId
      OBVIOUS
    <3> HIDE DEF hit
    <3>3. QED BY <3>1, <3>2
  <2>3. QED BY <2>1, <2>2
<1>6. CASE i # RowId
  <2>1. i \in 1 .. Len(ListedEvents)
    BY <1>4, <1>6
  <2>2. Due(ListedEvents', d, i) <=> Due(ListedEvents, d, i)
    BY <1>3, <1>4, <2>1, DueInPrefix DEF Extends
  <2>3. (\E h \in ListedDetections : h.detector = d /\ h.event = i) <=> Due(ListedEvents, d, i)
    BY <1>1, <1>2, <2>1 DEF ExactInv
  <2> HIDE DEF new, e
  <2>4. QED BY <1>3, <1>5, <1>6, <2>2, <2>3
<1>7. CASE i = RowId
  <2>1. ListedEvents'[i] = e
    BY <1>3, <1>4, <1>7 DEF Extends
  <2>2. (\E h \in ListedDetections' : h.detector = d /\ h.event = i) <=> Emits(Shipped, d, e)
    <3>1. \A h \in ListedDetections : h.event # RowId
      <4>1. \A h \in ListedDetections : h.event \in 1 .. Len(ListedEvents)
        BY DEF HitsInv
      <4>2. QED BY <1>4, <4>1
    <3> HIDE DEF new, e
    <3>2. QED BY <1>3, <1>5, <1>7, <3>1
  <2>3. Emits(Shipped, d, e) <=> Due(ListedEvents', d, i)
    <3>1. CASE Matches(Shipped, d, e) /\ Correlates(Shipped[d])
      <4>1. Cardinality(MatchesUpTo(ListedEvents', i, Shipped[d])) = Len(NextWindow(Shipped, d, e))
        BY <1>1, <1>7, <3>1, NextIsExact DEF Counting
      <4> HIDE DEF e
      <4>2. QED BY <2>1, <3>1, <4>1 DEF Emits, Due
    <3>2. CASE ~(Matches(Shipped, d, e) /\ Correlates(Shipped[d]))
      <4> HIDE DEF e
      <4>1. QED BY <2>1, <3>2 DEF Emits, Due
    <3>3. QED BY <3>1, <3>2
  <2>4. QED BY <2>2, <2>3
<1>8. QED BY <1>6, <1>7

LEMMA ExactInvStep ==
  ASSUME DetectionInv, ExactInv, [Next]_vars
  PROVE  ExactInv'
<1> USE DEF DetectionInv
<1>1. Undisturbed' => Undisturbed
  BY UndisturbedBefore
<1>2. ASSUME ListedEvents' = ListedEvents, ListedDetections' = ListedDetections PROVE ExactInv'
  BY <1>1, <1>2 DEF ExactInv
<1>3. CASE /\ tx' = NoTx /\ UNCHANGED <<stored, hits, received, applied>>
           /\ ListedEvents' = stored /\ ListedDetections' = hits
  <2>1. SUFFICES ASSUME Undisturbed' PROVE ListedEvents = stored /\ ListedDetections = hits
    <3>1. ~Undisturbed' => ExactInv'
      BY DEF ExactInv
    <3>2. QED BY <1>2, <1>3, <3>1
  <2>2. ListedEvents = stored
    BY <1>1, <1>3, <2>1 DEF Undisturbed, ListedEvents
  <2>3. tx.hits = {}
    <3>1. SUFFICES ASSUME NEW h \in tx.hits PROVE FALSE
      OBVIOUS
    <3>2. h.event > Len(stored) /\ h.event \in 1 .. Len(stored)
      BY <2>2 DEF HitsInv, ListedDetections
    <3>3. Len(stored) \in Nat
      BY LenType DEF TInv
    <3>4. QED BY <3>2, <3>3
  <2>4. QED BY <2>2, <2>3 DEF ListedDetections
<1>4. ASSUME NEW a \in Agents, NEW run, SummaryRaises(a), Examines(a, run) PROVE ExactInv'
  <2>1. SUFFICES ASSUME Undisturbed' PROVE FALSE
    BY DEF ExactInv
  <2>2. tx' = NoTx /\ UNCHANGED <<stored, hits>>
    BY <1>4 DEF SummaryRaises
  <2>3. Len(ListedEvents') = Len(stored) /\ Len(stored) <= Len(ListedEvents)
    BY <2>2, ListedRollback, ListedIs, LenType DEF TInv
  <2>4. Len(received') = Len(received) + 1 /\ Len(received) \in Nat /\ Len(stored) \in Nat
    BY <1>4, ExaminesType, LenType DEF TInv
  <2>5. QED BY <2>1, <2>3, <2>4, ListedIs DEF Undisturbed, LenInv
<1>5. QED BY <1>2, <1>3, <1>4, InsertEventExact, ListedCommit, ListedStep

\* docs/detectors.md:107 without a fault: a detector that groups by agent emits
\* on the event that makes the matches behind it the threshold, on every such
\* event and on no other. The window, a queue of seconds per group, is exactly
\* what the definition over the stored events counts.
THEOREM ExactlyTheNthHolds == Spec => []ExactlyTheNth
<1>1. Init => ExactInv
  <2>1. SUFFICES ASSUME Init PROVE 1 .. Len(ListedEvents) = {}
    BY DEF ExactInv
  <2>2. <<>> \o <<>> = <<>>
    BY EmptySeq, ConcatEmptySeq
  <2>3. QED BY <2>1, <2>2, NoTxType, EmptySeq DEF Init, ListedEvents
<1>2. DetectionInv /\ ExactInv => ExactlyTheNth
  <2>1. SUFFICES ASSUME DetectionInv, ExactInv, Undisturbed,
                        NEW d \in ByAgent, NEW i \in 1 .. Len(stored)
                 PROVE  IsHit(d, i) <=>
                          /\ Matches(detectors, d, stored[i])
                          /\ Correlates(detectors[d]) =>
                               Cardinality(RecentMatches(d, i)) = detectors[d].count
    BY DEF ExactlyTheNth
  <2> USE DEF DetectionInv
  <2>2. /\ Len(ListedEvents) \in Nat /\ Len(stored) \in Nat /\ Len(stored) <= Len(ListedEvents)
        /\ i \in 1 .. Len(ListedEvents)
        /\ \A j \in 1 .. Len(stored) : ListedEvents[j] = stored[j]
    BY <2>1, ListedIs, LenType DEF TInv
  <2>3. (\E h \in ListedDetections : h.detector = d /\ h.event = i) <=> Due(ListedEvents, d, i)
    <3>1. d \in Detectors /\ Shipped[d] # Absent /\ Shipped[d].byAgent
      BY <2>1 DEF ByAgent, Undisturbed, SettingsInv
    <3>2. QED BY <2>1, <2>2, <3>1 DEF ExactInv
  <2>4. Due(ListedEvents, d, i) <=> Due(stored, d, i)
    BY <2>2, DueInPrefix
  <2>5. IsHit(d, i) <=> \E h \in ListedDetections : h.detector = d /\ h.event = i
    <3>1. \A h \in tx.hits : h.event # i
      BY <2>1, <2>2 DEF HitsInv
    <3>2. QED BY <3>1 DEF IsHit, ListedDetections
  <2>6. detectors = Shipped
    BY <2>1 DEF Undisturbed, SettingsInv
  <2>7. RecentMatches(d, i) = MatchesUpTo(stored, i, Shipped[d])
    BY <2>6 DEF RecentMatches, MatchesUpTo
  <2>8. QED BY <2>3, <2>4, <2>5, <2>6, <2>7 DEF Due
<1>3. DetectionInv /\ ExactInv /\ [Next]_vars => ExactInv'
  BY ExactInvStep
<1>4. QED BY <1>1, <1>2, <1>3, DetectionInvHolds, PTL DEF Spec
===============================================================================
