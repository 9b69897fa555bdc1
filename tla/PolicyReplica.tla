---------------------------- MODULE PolicyReplica -----------------------------
(***************************************************************************)
(* What the distribution of the policy promises, apart from how it works:  *)
(* every agent enforces, for each kind, a fail-open copy of what the       *)
(* manager wants enforced there. The manager's wish may change at any time *)
(* and is delivered one kind at a time. The copy of a kind may lose keys   *)
(* at any time, but it grows only by keys of the last delivery of that     *)
(* kind, and only once every key of an older delivery is gone: a copy      *)
(* never mixes two deliveries and never invents a key.                     *)
(***************************************************************************)
CONSTANTS Agents, Kinds

VARIABLES source,     \* the keys the manager wants agent a to enforce, by kind
          delivered,  \* the last keys of that kind read for the agent
          copy        \* the keys the agent enforces

replicaVars == <<source, delivered, copy>>

Init ==
  /\ DOMAIN source = Agents
  /\ copy = [a \in Agents |-> [k \in Kinds |-> {}]]
  /\ delivered = copy

\* The operator's requests and the manager's restarts.
SourceChanges ==
  /\ source' # source
  /\ UNCHANGED <<delivered, copy>>

Deliver(a, k) ==
  /\ delivered' = [delivered EXCEPT ![a][k] = source[a][k]]
  /\ UNCHANGED <<source, copy>>

Shrink(a, k) ==
  /\ \E kept \in SUBSET copy[a][k] : copy' = [copy EXCEPT ![a][k] = kept]
  /\ UNCHANGED <<source, delivered>>

Grow(a, k) ==
  /\ copy[a][k] \subseteq delivered[a][k]
  /\ \E key \in delivered[a][k] :
       copy' = [copy EXCEPT ![a][k] = copy[a][k] \cup {key}]
  /\ UNCHANGED <<source, delivered>>

\* The agent's process ends, and its maps with it.
Vanish(a) ==
  /\ copy' = [copy EXCEPT ![a] = [k \in Kinds |-> {}]]
  /\ delivered' = [delivered EXCEPT ![a] = [k \in Kinds |-> {}]]
  /\ UNCHANGED source

Next ==
  \/ SourceChanges
  \/ \E a \in Agents :
       \/ Vanish(a)
       \/ \E k \in Kinds : Deliver(a, k) \/ Shrink(a, k) \/ Grow(a, k)

Spec == Init /\ [][Next]_replicaVars
===============================================================================
