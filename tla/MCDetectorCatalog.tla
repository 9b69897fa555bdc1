---- MODULE MCDetectorCatalog ----
(* Two files and two threads; two contents of one size, and one that is half *)
(* written. One of them states a threshold of 0 and a negative window.       *)
EXTENDS DetectorCatalog, TLC

CONSTANTS c1, c2, burst, any, half

MCFiles == {1, 2}
MCShipped == <<burst, any>>
MCCallers == {c1, c2}
MCContents == {burst, any, half}
MCReadable == {burst, any}
MCSize == (burst :> 2) @@ (any :> 2) @@ (half :> 1)
MCStated == (burst :> [count |-> 3, window |-> 2]) @@ (any :> [count |-> 0, window |-> -1])
====
