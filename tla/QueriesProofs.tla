------------------------------ MODULE QueriesProofs -----------------------------
(***************************************************************************)
(* Proofs about Queries, for any constants that satisfy                    *)
(* DetectionAssumption and QueriesAssumption. The argument: the lock is    *)
(* what makes an answer true when it is given, since a thread that may     *)
(* read finds no transaction under way (TInv); it stays true because the   *)
(* two tables only grow.                                                   *)
(***************************************************************************)
EXTENDS Queries, DetectionProofs

\* What an answer counts are numbers.
ShownInv ==
  /\ \A d \in DOMAIN shown.hitCounts : shown.hitCounts[d] \in Nat
  /\ shown.totals.events \in Nat /\ shown.totals.detections \in Nat

AnswersInv == TInv /\ ShownInv /\ AnswersStand

-------------------------------------------------------------------------------

\* A thread that may read is shown what is committed.
LEMMA ReadsCommitted ==
  ASSUME TInv, CanRead
  PROVE  ListedEvents = stored /\ ListedDetections = hits
<1>1. tx = NoTx
  BY DEF TInv, CanRead
<1>2. stored \o <<>> = stored
  BY ConcatEmptySeq DEF TInv, TypeOK
<1>3. QED BY <1>1, <1>2, NoTxType DEF ListedEvents, ListedDetections

LEMMA HitsFinite ==
  ASSUME TInv
  PROVE  /\ Len(stored) \in Nat /\ Cardinality(hits) \in Nat
         /\ \A d : /\ IsFiniteSet({h \in hits : h.detector = d})
                   /\ Cardinality({h \in hits : h.detector = d}) \in Nat
<1>1. IsFiniteSet(hits)
  BY DEF TInv
<1>2. ASSUME NEW d PROVE IsFiniteSet({h \in hits : h.detector = d})
  BY <1>1, FS_Subset
<1>3. QED BY <1>1, <1>2, FS_CardinalityType, LenType DEF TInv

\* No row of the two tables is changed or goes away.
LEMMA TablesGrow ==
  ASSUME TInv, [Next]_vars
  PROVE  /\ Len(stored') \in Nat /\ Len(stored) <= Len(stored')
         /\ \A i \in 1 .. Len(stored) : stored'[i] = stored[i]
         /\ hits \subseteq hits'
<1>1. ASSUME NEW a \in Agents, Commit(a)
      PROVE  /\ Len(stored') \in Nat /\ Len(stored) <= Len(stored')
             /\ \A i \in 1 .. Len(stored) : stored'[i] = stored[i]
             /\ hits \subseteq hits'
  <2>1. stored' = ListedEvents /\ hits' = ListedDetections
    BY <1>1 DEF Commit, ListedEvents, ListedDetections
  <2>2. QED BY <2>1, ListedIs, LenType DEF TInv, ListedDetections
<1>2. CASE UNCHANGED <<stored, hits>>
  BY <1>2, LenType DEF TInv
<1>3. QED
  BY <1>1, <1>2 DEF Next, vars, Restart, Reload, Post, Enter, InsertEvent, InsertRaises,
                    SummaryRaises

\* What has been told stays true while the tables grow.
LEMMA AnswersKept ==
  ASSUME AnswersInv, [Next]_vars, UNCHANGED shown
  PROVE  AnswersStand'
<1>1. /\ Len(stored) \in Nat /\ Len(stored') \in Nat /\ Len(stored) <= Len(stored')
      /\ \A i \in 1 .. Len(stored) : i \in 1 .. Len(stored') /\ stored'[i] = stored[i]
      /\ hits \subseteq hits'
  BY TablesGrow, HitsFinite DEF AnswersInv
<1>2. TInv'
  BY NextTInv DEF AnswersInv
<1>3. Cardinality(hits) <= Cardinality(hits') /\ Cardinality(hits) \in Nat /\ Cardinality(hits') \in Nat
  <2>1. IsFiniteSet(hits')
    BY <1>2 DEF TInv
  <2>2. Cardinality(hits) \in Nat
    BY HitsFinite DEF AnswersInv
  <2>3. QED BY <1>1, <2>1, <2>2, FS_Subset, FS_CardinalityType
<1>4. ASSUME NEW d \in DOMAIN shown.hitCounts
      PROVE  shown.hitCounts[d] <= Cardinality({h \in hits' : h.detector = d})
  <2> DEFINE before == {h \in hits : h.detector = d}
             after  == {h \in hits' : h.detector = d}
  <2>1. IsFiniteSet(after)
    <3>1. IsFiniteSet(hits')
      BY <1>2 DEF TInv
    <3>2. QED BY <3>1, FS_Subset
  <2>2. Cardinality(before) \in Nat /\ shown.hitCounts[d] <= Cardinality(before)
    BY HitsFinite DEF AnswersInv, AnswersStand
  <2>3. before \subseteq after
    BY <1>1
  <2>4. shown.hitCounts[d] \in Nat
    BY DEF AnswersInv, ShownInv
  <2> HIDE DEF before, after
  <2>5. Cardinality(before) <= Cardinality(after) /\ Cardinality(after) \in Nat
    BY <2>1, <2>3, FS_Subset, FS_CardinalityType
  <2>6. shown.hitCounts[d] <= Cardinality(after)
    BY <2>2, <2>4, <2>5
  <2>7. QED BY <2>6 DEF after
<1>5. shown.totals.events <= Len(stored') /\ shown.totals.detections <= Cardinality(hits')
  BY <1>1, <1>3 DEF AnswersInv, ShownInv, AnswersStand
<1>6. \A i \in DOMAIN shown.events : i \in 1 .. Len(stored') /\ shown.events[i] = stored'[i]
  BY <1>1 DEF AnswersInv, AnswersStand
<1>7. QED BY <1>1, <1>4, <1>5, <1>6 DEF AnswersInv, AnswersStand

\* An answer of nothing holds always.
LEMMA NothingStands ==
  /\ Nothing.events = <<>> /\ Nothing.hits = {} /\ Nothing.hitCounts = [d \in {} |-> 0]
  /\ Nothing.totals.events = 0 /\ Nothing.totals.detections = 0
  /\ DOMAIN Nothing.events = {} /\ DOMAIN Nothing.hitCounts = {}
<1>1. /\ Nothing.events = <<>> /\ Nothing.hits = {} /\ Nothing.hitCounts = [d \in {} |-> 0]
      /\ Nothing.totals.events = 0 /\ Nothing.totals.detections = 0
  BY DEF Nothing
<1>2. QED BY <1>1, EmptySeq

LEMMA InitAnswers == QueriesInit => AnswersInv
<1>1. SUFFICES ASSUME QueriesInit PROVE ShownInv /\ AnswersStand
  BY InitTInv DEF QueriesInit, AnswersInv
<1>2. Len(stored) \in Nat /\ Cardinality(hits) \in Nat
  BY <1>1, InitTInv, HitsFinite DEF QueriesInit
<1>3. QED BY <1>1, <1>2, NothingStands DEF QueriesInit, ShownInv, AnswersStand

\* An answer holds when it is given.
LEMMA ReadAnswers ==
  ASSUME AnswersInv, Read, UNCHANGED vars
  PROVE  ShownInv' /\ AnswersStand'
<1>1. /\ UNCHANGED <<stored, hits>>
      /\ Len(stored) \in Nat /\ Cardinality(hits) \in Nat
      /\ \A d : Cardinality({h \in hits : h.detector = d}) \in Nat
  BY HitsFinite DEF AnswersInv, vars
<1>2. ListedEvents = stored /\ ListedDetections = hits
  BY ReadsCommitted DEF AnswersInv, Read, ListEvents, ListDetections, ListDetectors, Summary
<1>3. CASE ListEvents
  <2>1. /\ shown'.events = NewestEvents /\ shown'.hits = Nothing.hits
        /\ shown'.hitCounts = Nothing.hitCounts /\ shown'.totals = Nothing.totals
    BY <1>3 DEF ListEvents, Nothing
  <2>2. \A i \in DOMAIN NewestEvents : i \in 1 .. Len(stored) /\ NewestEvents[i] = stored[i]
    BY <1>2 DEF NewestEvents
  <2> HIDE DEF NewestEvents
  <2>3. QED BY <1>1, <2>1, <2>2, NothingStands DEF ShownInv, AnswersStand
<1>4. CASE ListDetections
  <2>1. /\ shown'.events = Nothing.events /\ shown'.hits = NewestDetections
        /\ shown'.hitCounts = Nothing.hitCounts /\ shown'.totals = Nothing.totals
    BY <1>4 DEF ListDetections, Nothing
  <2>2. NewestDetections \subseteq hits
    BY <1>2 DEF NewestDetections
  <2>3. QED BY <1>1, <2>1, <2>2, NothingStands DEF ShownInv, AnswersStand
<1>5. CASE ListDetectors
  <2>1. /\ shown'.events = Nothing.events /\ shown'.hits = Nothing.hits
        /\ shown'.hitCounts = [d \in Detectors |-> HitCount(d)]
        /\ shown'.totals = Nothing.totals
    BY <1>5 DEF ListDetectors, Nothing
  <2>2. ASSUME NEW d \in DOMAIN shown'.hitCounts
        PROVE  /\ shown'.hitCounts[d] = Cardinality({h \in hits : h.detector = d})
               /\ shown'.hitCounts[d] \in Nat
    <3>1. shown'.hitCounts[d] = HitCount(d)
      BY <2>1
    <3> DEFINE n == Cardinality({h \in hits : h.detector = d})
    <3>2. HitCount(d) = n /\ n \in Nat
      BY <1>1, <1>2 DEF HitCount
    <3> HIDE DEF n
    <3>3. shown'.hitCounts[d] = n /\ shown'.hitCounts[d] \in Nat
      BY <3>1, <3>2
    <3>4. QED BY <3>3 DEF n
  <2>3. \A d \in DOMAIN shown'.hitCounts :
          shown'.hitCounts[d] <= Cardinality({h \in hits : h.detector = d})
    BY <2>2
  <2>4. /\ \A i \in DOMAIN shown'.events : i \in 1 .. Len(stored') /\ shown'.events[i] = stored'[i]
        /\ shown'.hits \subseteq hits'
        /\ shown'.totals.events <= Len(stored') /\ shown'.totals.detections <= Cardinality(hits')
        /\ shown'.totals.events \in Nat /\ shown'.totals.detections \in Nat
    BY <1>1, <2>1, NothingStands
  <2>5. ShownInv'
    BY <2>2, <2>4 DEF ShownInv
  <2>6. \A d \in DOMAIN shown'.hitCounts :
          shown'.hitCounts[d] <= Cardinality({h \in hits' : h.detector = d})
    BY <1>1, <2>3
  <2>7. QED BY <2>4, <2>5, <2>6 DEF AnswersStand
<1>6. CASE Summary
  <2>1. /\ shown'.events = Nothing.events /\ shown'.hits = Nothing.hits
        /\ shown'.hitCounts = Nothing.hitCounts
        /\ shown'.totals.events = Len(ListedEvents)
        /\ shown'.totals.detections = Cardinality(ListedDetections)
    BY <1>6 DEF Summary, Nothing
  <2>2. shown'.totals.events = Len(stored) /\ shown'.totals.detections = Cardinality(hits)
    BY <1>2, <2>1
  <2>3. QED BY <1>1, <2>1, <2>2, NothingStands DEF ShownInv, AnswersStand
<1>7. QED BY <1>3, <1>4, <1>5, <1>6 DEF Read

\* An answer to list_events, list_detections, list_detectors or summary is about
\* committed rows, which no rollback, restart or edit takes back: the lock keeps
\* the readers out of the transaction that the one connection would show them.
THEOREM AnswersStandHolds == QueriesSpec => []AnswersStand
<1>1. AnswersInv /\ [QueriesNext]_queryVars => AnswersInv'
  <2>1. SUFFICES ASSUME AnswersInv, [QueriesNext]_queryVars PROVE AnswersInv'
    OBVIOUS
  <2>2. [Next]_vars
    BY <2>1 DEF QueriesNext, queryVars
  <2>3. TInv'
    BY <2>1, <2>2, NextTInv DEF AnswersInv
  <2>4. CASE UNCHANGED shown
    <3>1. ShownInv'
      BY <2>1, <2>4 DEF AnswersInv, ShownInv
    <3>2. QED BY <2>1, <2>2, <2>3, <2>4, <3>1, AnswersKept DEF AnswersInv
  <2>5. CASE Read /\ UNCHANGED vars
    BY <2>1, <2>3, <2>5, ReadAnswers DEF AnswersInv
  <2>6. QED BY <2>1, <2>4, <2>5 DEF QueriesNext, queryVars
<1>2. AnswersInv => AnswersStand
  BY DEF AnswersInv
<1>3. QED BY <1>1, <1>2, InitAnswers, PTL DEF QueriesSpec
===============================================================================
