----------------------------- MODULE LlmRequest -----------------------------
(***************************************************************************)
(* What a streaming request promises its caller, whatever the network      *)
(* does: how often it reports its end, and what a cancellation stops.      *)
(***************************************************************************)
EXTENDS Naturals

VARIABLES
    reported,   \* how often on_done was called
    committed,  \* how many ends passed the check of cancelled_ and will be reported
    cancelled   \* the caller gave the request up

vars == <<reported, committed, cancelled>>

Init == reported = 0 /\ committed = 0 /\ cancelled = FALSE

\* The chain and the timeout may each end the request, once.
MaxEnds == 2

Commit ==
    /\ ~cancelled /\ reported + committed < MaxEnds
    /\ committed' = committed + 1
    /\ UNCHANGED <<reported, cancelled>>

Report ==
    /\ committed > 0
    /\ committed' = committed - 1 /\ reported' = reported + 1
    /\ UNCHANGED cancelled

Cancel == cancelled' = TRUE /\ UNCHANGED <<reported, committed>>

Next == Commit \/ Report \/ Cancel

Spec == Init /\ [][Next]_vars
=============================================================================
