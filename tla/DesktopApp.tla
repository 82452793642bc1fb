----------------------------- MODULE DesktopApp -----------------------------
(***************************************************************************)
(* One app of the desktop behind the C ABI the session calls: a game or a  *)
(* terminal.  Apps share no state, so one stands for all.                  *)
(***************************************************************************)
EXTENDS GameApp, Terminal

appVars == <<vars, terminalVars>>

AppInit == (Init \/ (kind = "terminal" /\ NoGame)) /\ TerminalInit

AppNext ==
    \/ kind # "terminal" /\ Next /\ UNCHANGED terminalVars
    \/ kind = "terminal" /\ TerminalNext /\ UNCHANGED vars

AppSpec == AppInit /\ [][AppNext]_appVars
=============================================================================
