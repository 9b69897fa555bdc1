----------------------------- MODULE EventPipeline ----------------------------
(***************************************************************************)
(* The way of an event from the kernel to the manager: the EVENTS ring     *)
(* buffer, which the hooks and probes of agent/ebpf/kshield.bpf.c fill and *)
(* which drops what does not fit, and the loop of main in                  *)
(* agent/src/main.rs, which drains it in ticks, leaves out what the agent  *)
(* itself causes, and posts the rest in batches. The agent observes        *)
(* itself: reading /proc to convert an event is an openat, rewriting the   *)
(* policy maps takes calls of bpf, and every request to the manager is a   *)
(* connect, refused by the agent's own hook while the manager's address is *)
(* in BLOCKED_IPV4 (locked).                                               *)
(*                                                                         *)
(* An item of the buffer is [class, mark]. The class says whose event it   *)
(* is: of another process (other), or the agent's own openat (open), call  *)
(* of bpf (bpf), connect that passed (allow) or was refused (block). A few *)
(* events of other processes carry a mark, 1, 2, ... in the order in which *)
(* they happen, any others 0: so the events need not be bounded, and what  *)
(* holds of the marked ones holds of all.                                  *)
(*                                                                         *)
(* delivered (the marks the manager has stored) and lost (those of events  *)
(* that found no room, of failed posts and of crashes) are history         *)
(* variables. The several files a conversion opens are counted as one      *)
(* here, and the calls of bpf in a sync as well; the slot of an event is   *)
(* free when it is converted, in the code at the end of the round. A call  *)
(* of sync_policy is one step: see PolicySync for its inside.              *)
(***************************************************************************)
EXTENDS Integers, Sequences

CONSTANTS RingSize,   \* events the ring buffer holds
          Batch,      \* events of a full batch (128 in the code)
          MaxTick,    \* MAX_EVENTS_PER_TICK
          MaxMark,    \* number of marked events
          MaxCrashes  \* bound on the agent's crashes

ASSUME EventPipelineAssumption ==
  /\ {RingSize, Batch, MaxTick} \subseteq Nat \ {0}
  /\ {MaxMark, MaxCrashes} \subseteq Nat

VARIABLES ring, pending, pc, drained, consumed, due, locked,
          outside,   \* other processes still cause events
          marked, delivered, lost, crashes

vars == <<ring, pending, pc, drained, consumed, due, locked, outside,
          marked, delivered, lost, crashes>>

loopVars == <<pc, drained, consumed, due>>
historyVars == <<marked, delivered, lost, crashes>>

Classes == {"other", "open", "bpf", "allow", "block"}
Items == [class : Classes, mark : 0 .. MaxMark]
Own(class) == [class |-> class, mark |-> 0]

\* Mutant of DroppedRaw: the agent's own connects are forwarded.
DroppedOpens(item) == item.class = "open"

\* should_drop_raw_event; should_forward_event leaves nothing more out.
DroppedRaw(item) == item.class \in {"open", "allow"}

\* bpf_ringbuf_output: without room the event is dropped.
HasRoom(buffer) == Len(buffer) < RingSize
Output(buffer, item) == IF HasRoom(buffer) THEN Append(buffer, item) ELSE buffer

\* The buffer after a connect of the agent.
Connected == Output(ring, Own(IF locked THEN "block" ELSE "allow"))

MarksOf(items) == {items[i].mark : i \in DOMAIN items} \ {0}

\* What has left the hooks and not been posted, the oldest event first.
OnTheWay == pending \o ring

Init ==
  /\ ring = <<>>
  /\ pending = <<>>
  /\ pc = "top"
  /\ drained = 0
  /\ consumed = FALSE
  /\ due = TRUE
  /\ locked = FALSE
  /\ outside = TRUE
  /\ marked = 0
  /\ delivered = {}
  /\ lost = {}
  /\ crashes = 0

-------------------------------------------------------------------------------

\* A hook or a probe reports an event of another process.
Emit ==
  /\ outside
  /\ \E m \in {0, marked + 1} :
       /\ m <= MaxMark
       /\ ring' = Output(ring, [class |-> "other", mark |-> m])
       /\ marked' = IF m > 0 THEN m ELSE marked
       /\ lost' = IF m > 0 /\ ~HasRoom(ring) THEN lost \cup {m} ELSE lost
  /\ UNCHANGED <<pending, loopVars, locked, outside, delivered, crashes>>

\* Nothing more happens outside the agent.
Quiesce ==
  /\ outside
  /\ outside' = FALSE
  /\ UNCHANGED <<ring, pending, loopVars, locked, historyVars>>

\* policy_sync_secs have passed since the last call of sync_policy.
Elapse ==
  /\ ~due
  /\ due' = TRUE
  /\ UNCHANGED <<ring, pending, pc, drained, consumed, locked, outside, historyVars>>

EnterTick ==
  /\ pc' = "drain"
  /\ drained' = 0
  /\ consumed' = FALSE

\* The top of the loop with a call of sync_policy that gets an answer: it
\* rewrites the maps, BLOCKED_IPV4 among them.
Sync ==
  /\ pc = "top"
  /\ due
  /\ ~locked
  /\ due' = FALSE
  /\ ring' = Output(Connected, Own("bpf"))
  /\ locked' \in BOOLEAN
  /\ EnterTick
  /\ UNCHANGED <<pending, outside, historyVars>>

\* A call of sync_policy that is refused or gets no answer it can read.
SyncFails ==
  /\ pc = "top"
  /\ due
  /\ due' = FALSE
  /\ ring' = Connected
  /\ EnterTick
  /\ UNCHANGED <<pending, locked, outside, historyVars>>

SkipSync ==
  /\ pc = "top"
  /\ ~due
  /\ EnterTick
  /\ UNCHANGED <<ring, pending, due, locked, outside, historyVars>>

\* The condition of the while loop, and its break.
TickOver == drained = MaxTick \/ ring = <<>>

\* One round of the while loop for an event that is left out.
Drop ==
  /\ pc = "drain"
  /\ ~TickOver
  /\ DroppedRaw(Head(ring))
  /\ ring' = Tail(ring)
  /\ drained' = drained + 1
  /\ consumed' = TRUE
  /\ UNCHANGED <<pending, pc, due, locked, outside, historyVars>>

\* Mutant of Take: the event is not counted.
TakeUncounted ==
  /\ pc = "drain"
  /\ ~TickOver
  /\ ~DroppedRaw(Head(ring))
  /\ ring' = Tail(Output(ring, Own("open")))
  /\ pending' = Append(pending, Head(ring))
  /\ consumed' = TRUE
  /\ pc' = IF Len(pending') >= Batch THEN "posting" ELSE "drain"
  /\ UNCHANGED <<drained, due, locked, outside, historyVars>>

\* Mutant of Take: a batch is posted when it has grown past its size.
TakePastBatch ==
  /\ pc = "drain"
  /\ ~TickOver
  /\ ~DroppedRaw(Head(ring))
  /\ ring' = Tail(Output(ring, Own("open")))
  /\ pending' = Append(pending, Head(ring))
  /\ drained' = drained + 1
  /\ consumed' = TRUE
  /\ pc' = IF Len(pending') > Batch THEN "posting" ELSE "drain"
  /\ UNCHANGED <<due, locked, outside, historyVars>>

\* One round for any other event; a full batch is posted before the next one.
Take ==
  /\ pc = "drain"
  /\ ~TickOver
  /\ ~DroppedRaw(Head(ring))
  /\ ring' = Tail(Output(ring, Own("open")))
  /\ pending' = Append(pending, Head(ring))
  /\ drained' = drained + 1
  /\ consumed' = TRUE
  /\ pc' = IF Len(pending') >= Batch THEN "posting" ELSE "drain"
  /\ UNCHANGED <<due, locked, outside, historyVars>>

\* Mutant of EndTick: what is pending is cleared and not posted.
ClearAtEnd ==
  /\ pc = "drain"
  /\ TickOver
  /\ pending' = <<>>
  /\ pc' = IF consumed THEN "top" ELSE "asleep"
  /\ UNCHANGED <<ring, drained, consumed, due, locked, outside, historyVars>>

\* Mutant of EndTick: what is pending waits for a full batch.
KeepForFullBatch ==
  /\ pc = "drain"
  /\ TickOver
  /\ pc' = IF consumed THEN "top" ELSE "asleep"
  /\ UNCHANGED <<ring, pending, drained, consumed, due, locked, outside, historyVars>>

\* The while loop is left: what is pending is posted; a tick without an event
\* ends asleep for poll_ms.
EndTick ==
  /\ pc = "drain"
  /\ TickOver
  /\ pc' = CASE pending # <<>>             -> "flushing"
             [] pending = <<>> /\ consumed -> "top"
             [] OTHER                      -> "asleep"
  /\ UNCHANGED <<ring, pending, drained, consumed, due, locked, outside, historyVars>>

Wake ==
  /\ pc = "asleep"
  /\ pc' = "top"
  /\ UNCHANGED <<ring, pending, drained, consumed, due, locked, outside, historyVars>>

\* A post is stored and answered, stored with the answer lost, or not stored:
\* the connection fails or the manager rolls the batch back.
Outcomes == IF locked THEN {"failed"} ELSE {"stored", "unanswered", "failed"}

\* Mutant of PendingAfter: a batch without an answer is posted again.
PendingUnlessAnswered(outcome) == IF outcome = "unanswered" THEN pending ELSE <<>>

\* pending_events.clear(), on an error too: nothing is sent a second time.
PendingAfter(outcome) == <<>>

Post ==
  /\ pc \in {"posting", "flushing"}
  /\ ring' = Connected
  /\ \E outcome \in Outcomes :
       /\ pending' = PendingAfter(outcome)
       /\ IF outcome = "failed"
            THEN /\ lost' = lost \cup MarksOf(pending)
                 /\ UNCHANGED delivered
            ELSE /\ delivered' = delivered \cup MarksOf(pending)
                 /\ UNCHANGED lost
  /\ pc' = IF pc = "posting" THEN "drain" ELSE "top"
  /\ UNCHANGED <<drained, consumed, due, locked, outside, marked, crashes>>

\* The agent's process ends, its maps and the ring buffer with it, and is
\* started again.
Crash ==
  /\ crashes < MaxCrashes
  /\ crashes' = crashes + 1
  /\ lost' = lost \cup MarksOf(OnTheWay)
  /\ ring' = <<>>
  /\ pending' = <<>>
  /\ pc' = "top"
  /\ drained' = 0
  /\ consumed' = FALSE
  /\ due' = TRUE
  /\ locked' = FALSE
  /\ UNCHANGED <<outside, marked, delivered>>

Loop == Sync \/ SyncFails \/ SkipSync \/ Drop \/ Take \/ EndTick \/ Wake \/ Post

Next == Emit \/ Quiesce \/ Elapse \/ Crash \/ Loop

\* The loop has no lock to wait for and its requests end: that of a manager
\* that is up because its handler threads are scheduled, any other because the
\* connection fails.
Spec == Init /\ [][Next]_vars /\ WF_vars(Loop)

-------------------------------------------------------------------------------

\* The shape of the state and the limits of the buffer, the batch and the tick.
TypeOK ==
  /\ ring \in Seq(Items) /\ Len(ring) <= RingSize
  /\ pending \in Seq(Items) /\ Len(pending) <= Batch
  /\ pc \in {"top", "drain", "posting", "flushing", "asleep"}
  /\ drained \in 0 .. MaxTick
  /\ {consumed, due, locked, outside} \subseteq BOOLEAN
  /\ marked \in 0 .. MaxMark
  /\ delivered \subseteq 1 .. MaxMark
  /\ lost \subseteq 1 .. MaxMark
  /\ crashes \in 0 .. MaxCrashes

\* Events reach the manager in the order in which they happened and never
\* twice, also when the answer to a batch is lost or the agent crashes after it
\* was stored: what is on its way is in order, and what the manager has stored
\* is older than all of it. detectors/ count on it, since a window takes
\* seconds in order.
InOrderOnce ==
  \A i \in DOMAIN OnTheWay : LET mark == OnTheWay[i].mark IN
    mark > 0 =>
      /\ \A j \in DOMAIN OnTheWay : j < i => OnTheWay[j].mark < mark
      /\ \A m \in delivered : m < mark

\* An event gets lost in a full ring buffer, with a post that fails or in a
\* crash, and nowhere else; what the manager has stored is not among the lost.
Accounted ==
  /\ delivered \cup MarksOf(OnTheWay) \cup lost = 1 .. marked
  /\ (delivered \cup MarksOf(OnTheWay)) \cap lost = {}

\* Every event in the buffer is posted in the end, the last ones before the
\* agent falls asleep included: none waits for a batch to get full.
Reported ==
  \A m \in 1 .. MaxMark :
    m \in MarksOf(OnTheWay) ~> m \in delivered \cup lost

\* However many events there are, the policy is polled when it is due.
PolicyIsPolled == due ~> ~due

\* What the agent does itself does not keep it busy: when nothing happens on
\* the host, its own requests pass and no poll is due, it comes to have nothing
\* to post. (A refused request, and a poll, cause events that are posted; when
\* the post is refused too, it causes the next one, and so on.)
NoEcho == <>[](~outside /\ ~locked /\ ~due) => <>[](pending = <<>>)
===============================================================================
