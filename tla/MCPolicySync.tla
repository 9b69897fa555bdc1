---- MODULE MCPolicySync ----
(* Small instances of PolicySync; each .cfg picks one definition for every  *)
(* constant.                                                                *)
EXTENDS PolicySync, TLC

CONSTANTS a1, a2

OneAgent == {a1}
TwoAgents == {a1, a2}

NoLegacy == [k \in Kinds |-> <<>>]

\* The agent stores the key of 10.0.0.1 as the hook looks up 1.0.0.10.
Addr     == <<10, 0, 0, 1>>
Reversed == <<1, 0, 0, 10>>
Text     == <<>>

\* A text of n bytes that end in last, all others the same.
Long(n, last) == [i \in 1 .. n |-> IF i = n THEN last ELSE 47]
PathA == Long(KeySize, 97)
PathB == Long(KeySize, 98)
Name  == <<115>>

NoKey == <<0, 0, 0, 0>>

Symm == Permutations(TwoAgents)

\* Two agents that share a table with one rule.
ScopeRules == [k \in Kinds |-> IF k = IPV4 THEN {Addr} ELSE {}]

\* One agent: a text that is no address, two ports and one the manager turns
\* down, two long paths with one key.
MixedRules ==
  [k \in Kinds |-> CASE k = IPV4 -> {Text}
                     [] k = BIND -> {80, 81, 70000}
                     [] k = EXEC -> {PathA, PathB}
                     [] OTHER    -> {}]

\* One agent with little room: an address whose stored key is the manager's, and
\* a text that is no address; four ports, two of them in the legacy table and one
\* the manager turns down; the two paths.
BusyRules ==
  [k \in Kinds |-> CASE k = IPV4 -> {Addr, Text}
                     [] k = BIND -> {80, 81, 82, 70000}
                     [] k = EXEC -> {PathA, PathB}
                     [] k = WRITE -> {Name}
                     [] k = PTRACE -> {0}]

BusyLegacy ==
  [k \in Kinds |-> IF k = BIND THEN 80 :> "on" @@ 81 :> "on" ELSE <<>>]

Room == [k \in Kinds |-> IF k = PTRACE THEN 1 ELSE 2]
LittleRoom == [k \in Kinds |-> IF k \in {IPV4, BIND} THEN 2 ELSE 1]
====
