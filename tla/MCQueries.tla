---- MODULE MCQueries ----
(* Small instances of Queries, and of the Detection within it. "burst"       *)
(* groups by agent, the agents share the one group of "crowd", "any" has no  *)
(* threshold. A "deny" and a "huge", which cannot be stored, match the first *)
(* two, "other" only "any". The file of "burst" may be edited to no          *)
(* threshold, another threshold and grouping, other criteria, or a summary   *)
(* template that cannot be filled in.                                        *)
EXTENDS Queries, TLC

CONSTANTS a1, a2

OneAgent == {a1}
TwoAgents == {a1, a2}
Symm == Permutations(TwoAgents)

MCClasses == {"deny", "huge", "other"}
MCUnstorable == {"huge"}
MCDetectors == {"any", "burst", "crowd"}
MCRank == [d \in MCDetectors |-> CASE d = "any" -> 1 [] d = "burst" -> 2 [] d = "crowd" -> 3]
OnlyBurst == {"burst"}

Two   == [count |-> 2, window |-> 1, matched |-> {"deny", "huge"},
          byAgent |-> TRUE, badTemplate |-> FALSE]
Each  == [Two EXCEPT !.count = 1, !.window = 0, !.matched = MCClasses]
Crowd == [Two EXCEPT !.count = 3, !.byAgent = FALSE]
OtherRule == [Two EXCEPT !.matched = {"other"}]
Unfilled  == [Two EXCEPT !.badTemplate = TRUE]

MCSettings == {Two, Each, Crowd, OtherRule, Unfilled}

MCShipped ==
  [d \in MCDetectors |->
     CASE d = "any" -> Each [] d = "burst" -> Two [] d = "crowd" -> Crowd]
====
