---- MODULE MCPolicyStore ----
(* Two agents; one kind with a legacy table of two rows, one of them       *)
(* disabled, and one kind without.                                         *)
EXTENDS PolicyStore, TLC

CONSTANTS a1, a2

MCAgents == {a1, a2}

Addr1 == <<10, 0, 0, 1>>
Addr2 == <<10, 0, 0, 2>>
Path1 == <<47, 98>>

MCRuleKeys ==
  [k \in Kinds |-> CASE k = IPV4 -> {Addr1, Addr2}
                     [] k = BIND -> {80, 70000}
                     [] k = EXEC -> {Path1}
                     [] OTHER    -> {}]

MCLegacy ==
  [k \in Kinds |-> CASE k = IPV4 -> (Addr1 :> "on") @@ (Addr2 :> "off")
                     [] OTHER    -> <<>>]

Symm == Permutations(MCAgents)
====
