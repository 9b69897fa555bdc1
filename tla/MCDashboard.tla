---- MODULE MCDashboard ----
(* A page that may have two refreshes under way; an address with a row in   *)
(* the legacy table, and a path.                                            *)
EXTENDS Dashboard, TLC

CONSTANT p1

OnePage == {p1}
Overlapping == p1 :> 2

Addr == <<10, 0, 0, 1>>
Path == <<47, 98>>

MCRuleKeys ==
  [k \in Kinds |-> CASE k = IPV4 -> {Addr}
                     [] k = EXEC -> {Path}
                     [] OTHER    -> {}]

MCLegacy == [k \in Kinds |-> IF k = IPV4 THEN Addr :> "on" ELSE <<>>]
====
