---- MODULE MCAgentRegistry ----
(* Two machines and two addresses. A tick is 3 seconds: a poll every 12       *)
(* (policy_sync_secs of main.rs:136), online up to 15 (app.js:69).            *)
EXTENDS AgentRegistry

CONSTANTS m1, m2, x1, x2

MCMachines == {m1, m2}
MCAddresses == {x1, x2}
====
