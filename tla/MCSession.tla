----------------------------- MODULE MCSession -----------------------------
(* Session for TLC: two connections that may name one window. *)
EXTENDS Session, TLC

ConnSymmetry == Permutations(Conn)

\* All states of a process that is gone are one.
CrashView == IF crashed THEN <<>> ELSE stateVars
=============================================================================
