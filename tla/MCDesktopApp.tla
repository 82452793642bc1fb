---------------------------- MODULE MCDesktopApp ----------------------------
(* DesktopApp for TLC: values of a tick that name every cell of a board, every *)
(* direction and every command of go, and one beyond on either side.       *)
EXTENDS DesktopApp

MCValue == -5 .. 9
=============================================================================
