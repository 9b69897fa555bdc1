------------------------------- MODULE Dashboard ------------------------------
(***************************************************************************)
(* The policy lists of the dashboard (manager/static/app.js) over the      *)
(* tables of PolicyStore. A page holds a copy of the lists. A refresh, of  *)
(* the timer or after a click, is under way while GET /api/v1/policy reads *)
(* the five tables one after the other, each under the lock but not all of *)
(* them together; nothing keeps two refreshes of a page apart, and each    *)
(* replaces the whole copy when it ends. A click turns what the copy says  *)
(* into a request that states the new state of one row; requests under way *)
(* are served in any order.                                                *)
(*                                                                         *)
(* The timer may start a refresh at any time, so one that has not read a   *)
(* table yet is not represented. past is a history variable: the tables    *)
(* after every change of theirs, behind the empty ones that a page shows   *)
(* until its first refresh has ended. sight, in a request, is what the     *)
(* page showed of the row at the click.                                    *)
(***************************************************************************)
EXTENDS PolicyStore, Sequences

CONSTANTS Pages,     \* the pages operators have open
          Overlap,   \* for each page, the bound on its refreshes under way
          MaxLosses  \* bound on the refreshes that fail

ASSUME DashboardAssumption ==
  Overlap \in [Pages -> Nat \ {0}] /\ MaxLosses \in Nat

VARIABLES shown,      \* the lists of a page, by kind
          refreshes,  \* the lists each refresh of a page has read so far
          requests,   \* the requests under way
          losses,     \* the refreshes that have failed
          past

vars == <<storeVars, shown, refreshes, requests, losses, past>>

\* The refreshes a page may have under way, of which some are idle.
Slots(p) == 1 .. Overlap[p]
Idle == <<>>

\* The five lists are read.
Complete(lists) == Len(lists) = PTRACE

Init ==
  /\ StoreInit
  /\ shown = [p \in Pages |-> NoRows]
  /\ refreshes = [p \in Pages |-> [i \in Slots(p) |-> Idle]]
  /\ requests = <<>>
  /\ losses = 0
  /\ past = <<NoRows, rules>>

Remember == past' = IF rules' = rules THEN past ELSE Append(past, rules')

\* What a page can ask for a row of which it shows sight: a form enables it,
\* and the buttons of a row it shows remove it or ask for the opposite.
Asks(sight) ==
  CASE sight = "on"  -> {"on", "off", "none"}
    [] sight = "off" -> {"on", "none"}
    [] OTHER         -> {"on"}

\* An operator clicks, whether or not an earlier request is answered.
Click(p) ==
  /\ changes + Len(requests) < MaxChanges
  /\ \E k \in Kinds : \E row \in Rows(k) :
       /\ Accepted(k, row[1])
       /\ \E state \in Asks(shown[p][k][row]) :
            requests' = Append(requests,
              [page |-> p, kind |-> k, row |-> row, state |-> state,
               sight |-> shown[p][k][row]])
  /\ UNCHANGED <<storeVars, shown, refreshes, losses, past>>

Without(seq, i) == SubSeq(seq, 1, i - 1) \o SubSeq(seq, i + 1, Len(seq))

\* Mutant of Serve: a toggle is left to the manager, which flips the row.
ServeFlip(i) ==
  /\ LET w == requests[i]
         now == rules[w.kind][w.row]
     IN IF w.state = "none" THEN DeleteRule(w.kind, w.row[1], w.row[2])
        ELSE SetRule(w.kind, w.row[1], w.row[2],
                     IF w.sight = "none" THEN TRUE ELSE now # "on")
  /\ requests' = Without(requests, i)
  /\ Remember
  /\ UNCHANGED <<shown, refreshes, losses>>

\* The manager handles a POST or a DELETE of a page.
Serve(i) ==
  /\ LET w == requests[i]
     IN IF w.state = "none" THEN DeleteRule(w.kind, w.row[1], w.row[2])
        ELSE SetRule(w.kind, w.row[1], w.row[2], w.state = "on")
  /\ requests' = Without(requests, i)
  /\ Remember
  /\ UNCHANGED <<shown, refreshes, losses>>

\* The timer, or a click that has been answered, starts a refresh: the manager
\* reads the first table for it.
StartRefresh(p, i) ==
  /\ managerUp
  /\ refreshes[p][i] = Idle
  /\ refreshes' = [refreshes EXCEPT ![p][i] = <<rules[IPV4]>>]
  /\ UNCHANGED <<storeVars, shown, requests, losses, past>>

\* list_*_entries of the next table, for refresh i of the page.
ReadEntries(p, i) ==
  /\ managerUp
  /\ refreshes[p][i] # Idle
  /\ ~Complete(refreshes[p][i])
  /\ refreshes' = [refreshes EXCEPT ![p][i] = Append(@, rules[Len(@) + 1])]
  /\ UNCHANGED <<storeVars, shown, requests, losses, past>>

EndRefresh(p, i) == refreshes' = [refreshes EXCEPT ![p][i] = Idle]

\* Mutant of Show: the lists are shown as they arrive.
ShowPartial(p, i) ==
  /\ shown' = [shown EXCEPT ![p] = refreshes[p][i]]
  /\ EndRefresh(p, i)
  /\ UNCHANGED <<storeVars, requests, losses, past>>

\* Mutant of Show: rows are added to the copy, or changed, and never dropped.
ShowMerged(p, i) ==
  /\ Complete(refreshes[p][i])
  /\ shown' = [shown EXCEPT ![p] = [k \in Kinds |-> [row \in Rows(k) |->
       IF refreshes[p][i][k][row] = "none" THEN shown[p][k][row]
                                           ELSE refreshes[p][i][k][row]]]]
  /\ EndRefresh(p, i)
  /\ UNCHANGED <<storeVars, requests, losses, past>>

\* Mutant of Show: an empty list is taken for a missing one.
ShowNonEmpty(p, i) ==
  /\ Complete(refreshes[p][i])
  /\ shown' = [shown EXCEPT ![p] = [k \in Kinds |->
       IF refreshes[p][i][k] = NoRows[k] THEN shown[p][k]
                                         ELSE refreshes[p][i][k]]]
  /\ EndRefresh(p, i)
  /\ UNCHANGED <<storeVars, requests, losses, past>>

\* The six answers of refresh i are there: the copy is replaced.
Show(p, i) ==
  /\ Complete(refreshes[p][i])
  /\ shown' = [shown EXCEPT ![p] = refreshes[p][i]]
  /\ EndRefresh(p, i)
  /\ UNCHANGED <<storeVars, requests, losses, past>>

\* One of the six requests fails; the error is logged and the copy kept.
RefreshFails(p, i) ==
  /\ refreshes[p][i] # Idle
  /\ losses < MaxLosses
  /\ losses' = losses + 1
  /\ EndRefresh(p, i)
  /\ UNCHANGED <<storeVars, shown, requests, past>>

\* The manager ends. What it has not handled is lost; an answer that is
\* complete may be on its way.
ManagerEnds ==
  /\ ManagerStops
  /\ requests' = <<>>
  /\ refreshes' = [p \in Pages |-> [i \in Slots(p) |->
       IF Complete(refreshes[p][i]) THEN refreshes[p][i] ELSE Idle]]
  /\ UNCHANGED <<shown, losses, past>>

ManagerReturns ==
  /\ ManagerStarts
  /\ Remember
  /\ UNCHANGED <<shown, refreshes, requests, losses>>

RefreshStep(p) ==
  \E i \in Slots(p) : StartRefresh(p, i) \/ ReadEntries(p, i) \/ Show(p, i)

Next ==
  \/ ManagerEnds
  \/ ManagerReturns
  \/ \E i \in DOMAIN requests : Serve(i)
  \/ \E p \in Pages :
       \/ Click(p)
       \/ RefreshStep(p)
       \/ \E i \in Slots(p) : RefreshFails(p, i)

\* The timer of a page never stops, the manager has a thread for every
\* request, and a page handles the answers that arrive.
Fairness == \A p \in Pages : WF_vars(RefreshStep(p))

Spec == Init /\ [][Next]_vars /\ Fairness

-------------------------------------------------------------------------------

IsTable(k, t) == k \in Kinds /\ t \in [Rows(k) -> RowStates]

\* The shape of the state: a page always shows five whole lists.
TypeOK ==
  /\ StoreTypeOK
  /\ DOMAIN shown = Pages /\ DOMAIN refreshes = Pages
  /\ \A p \in Pages :
       /\ DOMAIN shown[p] = Kinds
       /\ \A k \in Kinds : IsTable(k, shown[p][k])
       /\ DOMAIN refreshes[p] = Slots(p)
       /\ \A i \in Slots(p) : \A k \in DOMAIN refreshes[p][i] :
            IsTable(k, refreshes[p][i][k])
  /\ \A i \in DOMAIN requests : requests[i] \in
       [page : Pages, kind : Kinds, row : Rows(requests[i].kind),
        state : RowStates, sight : RowStates]
  /\ losses \in 0 .. MaxLosses
  /\ DOMAIN past \subseteq 1 .. 2 * MaxChanges + 2

\* The five lists a page shows are lists the tables really had, at moments in
\* the order in which they are read: however refreshes overlap, fail or end in
\* another order than they began, no list mixes two moments and no list is
\* older than the one before it in that order.
ShownInOrder ==
  \A p \in Pages : LET At(m, k) == shown[p][k] = past[m][k]
                       Since(m) == m .. Len(past)
    IN \E a \in Since(1) : At(a, IPV4) /\ \E b \in Since(a) : At(b, BIND) /\
       \E c \in Since(b) : At(c, EXEC) /\ \E d \in Since(c) : At(d, WRITE) /\
       \E e \in Since(d) : At(e, PTRACE)

\* A rule is taken out of force by nobody who has not seen it: it is disabled
\* only by an operator whose page showed it enabled, and removed only by one
\* whose page showed it, however old the lists of the page and however often
\* the button was clicked.
NoBlindSwitch ==
  [][\A k \in Kinds : \A row \in Rows(k) :
       managerUp /\ rules[k][row] = "on" /\ rules'[k][row] # "on" =>
         \E i \in DOMAIN requests :
           LET w == requests[i]
           IN /\ w.kind = k /\ w.row = row /\ w.state = rules'[k][row]
              /\ w.sight # "none"
              /\ w.state = "off" => w.sight = "on"]_vars

\* Once the manager stays up every page ends up with the lists of the tables
\* and keeps them, although refreshes have failed and answers of an older one
\* have replaced those of a younger one before.
PagesCatchUp ==
  <>[]managerUp => \A p \in Pages : <>[](shown[p] = rules)
===============================================================================
