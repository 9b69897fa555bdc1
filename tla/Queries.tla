-------------------------------- MODULE Queries --------------------------------
(***************************************************************************)
(* The read-only requests about events and detections: list_events,        *)
(* list_detections, list_detectors and summary of manager/app.py, beside   *)
(* the ingestion of Detection. All threads use the one connection to the   *)
(* database, which shows them the rows of a transaction under way as well: *)
(* only the lock keeps an answer from listing what is rolled back later.   *)
(*                                                                         *)
(* shown is the last answer the operator has got. A row id of events is    *)
(* the place in the table; the detections have theirs in the order of      *)
(* their events and, for one event, of the files of the detectors. What    *)
(* list_detectors and summary get from the catalog, before they take the   *)
(* lock, is left to DetectorCatalog.                                       *)
(***************************************************************************)
EXTENDS Detection

CONSTANT Limit  \* the rows of a page (200, and at most 2000, in the code)

ASSUME QueriesAssumption == Limit \in Nat \ {0}

VARIABLE shown

queryVars == <<vars, shown>>

Nothing == [events |-> <<>>, hits |-> {}, hitCounts |-> [d \in {} |-> 0],
            totals |-> [events |-> 0, detections |-> 0]]

QueriesInit == Init /\ shown = Nothing

-------------------------------------------------------------------------------

\* Mutant of CanRead: the tables are read without the lock.
ReadAnyTime == TRUE

\* A thread that waits for the lock to read may have it.
CanRead == LockFree

\* ORDER BY id DESC LIMIT ? on events: the rows by their ids.
NewestEvents ==
  [i \in {i \in 1 .. Len(ListedEvents) : i > Len(ListedEvents) - Limit} |-> ListedEvents[i]]

Newer(h, other) ==
  \/ h.event > other.event
  \/ h.event = other.event /\ Rank[h.detector] > Rank[other.detector]

\* ORDER BY id DESC LIMIT ? on detections.
NewestDetections ==
  {h \in ListedDetections : Cardinality({x \in ListedDetections : Newer(x, h)}) < Limit}

\* COUNT(*) of the detections of a detector.
HitCount(d) == Cardinality({h \in ListedDetections : h.detector = d})

ListEvents ==
  /\ CanRead
  /\ shown' = [Nothing EXCEPT !.events = NewestEvents]

ListDetections ==
  /\ CanRead
  /\ shown' = [Nothing EXCEPT !.hits = NewestDetections]

ListDetectors ==
  /\ CanRead
  /\ shown' = [Nothing EXCEPT !.hitCounts = [d \in Detectors |-> HitCount(d)]]

Summary ==
  /\ CanRead
  /\ shown' = [Nothing EXCEPT !.totals =
       [events |-> Len(ListedEvents), detections |-> Cardinality(ListedDetections)]]

Read == ListEvents \/ ListDetections \/ ListDetectors \/ Summary

QueriesNext ==
  \/ Next /\ UNCHANGED shown
  \/ Read /\ UNCHANGED vars

QueriesSpec == QueriesInit /\ [][QueriesNext]_queryVars

-------------------------------------------------------------------------------

\* What a request has been told stands, whatever is rolled back, committed,
\* edited or lost in a restart after the answer: each event it listed is stored
\* under the same row id, each detection is committed, and the tables hold at
\* least as many rows, also of each detector, as it counted.
AnswersStand ==
  /\ \A i \in DOMAIN shown.events :
       i \in 1 .. Len(stored) /\ shown.events[i] = stored[i]
  /\ shown.hits \subseteq hits
  /\ \A d \in DOMAIN shown.hitCounts :
       shown.hitCounts[d] <= Cardinality({h \in hits : h.detector = d})
  /\ shown.totals.events <= Len(stored)
  /\ shown.totals.detections <= Cardinality(hits)
===============================================================================
