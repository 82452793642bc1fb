------------------------------ MODULE Terminal ------------------------------
(***************************************************************************)
(* The terminal app (desktop/app/terminal/backend) and the PtySession it   *)
(* owns (module/core): one shell at a time on a pseudo-terminal, whose      *)
(* output a loop of reads on the terminal's own io thread passes on.  The  *)
(* n-th command gets child n and descriptor n of the system.               *)
(***************************************************************************)
EXTENDS Naturals, FiniteSets

CONSTANT MaxExec    \* bound: commands started

ASSUME TerminalAssumption == MaxExec \in Nat

Command == 1 .. MaxExec

VARIABLES
    execs,      \* commands started
    starting,   \* what start is called for: "no", "input" or "process"
    pid,        \* m_child_pid, 0 for none
    fd,         \* m_master_fd, 0 for none
    stream,     \* the descriptor m_pty_stream owns, 0 for none
    child,      \* of each child: "none", "running", "dead" or "reaped"
    open,       \* the descriptors the system holds open
    reads,      \* reads outstanding on the stream
    ready,      \* handlers of reads that brought data and wait for the io thread
    gone        \* the app was destroyed

terminalVars == <<execs, starting, pid, fd, stream, child, open, reads, ready, gone>>

TerminalInit ==
    /\ execs = 0 /\ starting = "no" /\ pid = 0 /\ fd = 0 /\ stream = 0
    /\ child = [n \in Command |-> "none"] /\ open = {}
    /\ reads = 0 /\ ready = 0 /\ gone = FALSE

Free == starting = "no" /\ ~gone

\* Fault: close gives up a shell without killing it.
KillNothing == UNCHANGED child

\* The child is killed, and reaped if it has died by then.
Kill ==
    IF pid = 0 THEN UNCHANGED child
    ELSE \E s \in {"reaped"} \cup (IF child[pid] = "running" THEN {"dead"} ELSE {}) :
             child' = [child EXCEPT ![pid] = s]

\* Fault: close forgets the descriptor without closing it.
CloseLeaky ==
    /\ Kill
    /\ stream' = 0 /\ reads' = 0 /\ pid' = 0 /\ fd' = 0
    /\ UNCHANGED <<open, ready>>

\* close: reads on the stream are aborted, but a handler that has its data stays.
\* The stream gives the descriptor back before it goes, so that it is closed once.
Close ==
    /\ Kill
    /\ stream' = 0 /\ reads' = 0 /\ pid' = 0 /\ fd' = 0
    /\ open' = open \ {fd}
    /\ UNCHANGED ready

\* exec, as an input of the user or as a call of another app: start closes what
\* ran before.
Exec ==
    /\ Free /\ execs < MaxExec
    /\ Close /\ execs' = execs + 1 /\ starting' \in {"input", "process"}
    /\ UNCHANGED gone

\* forkpty.  Only for an input is the output read.
Fork ==
    /\ starting # "no" /\ starting' = "no"
    /\ \/ /\ child' = [child EXCEPT ![execs] = "running"]
          /\ pid' = execs /\ fd' = execs /\ open' = open \cup {execs}
          /\ stream' = IF starting = "input" THEN execs ELSE 0
          /\ reads' = IF starting = "input" THEN 1 ELSE 0
       \/ UNCHANGED <<child, pid, fd, open, stream, reads>>
    /\ UNCHANGED <<execs, ready, gone>>

Destroy ==
    /\ Free /\ Close /\ gone' = TRUE
    /\ UNCHANGED <<execs, starting>>

\* app_is_done asks isAlive, which reaps a child that died.
IsDone ==
    /\ Free /\ pid # 0 /\ child[pid] = "dead"
    /\ child' = [child EXCEPT ![pid] = "reaped"] /\ pid' = 0
    /\ UNCHANGED <<execs, starting, fd, stream, open, reads, ready, gone>>

Exit(n) ==
    /\ child[n] = "running" /\ child' = [child EXCEPT ![n] = "dead"]
    /\ UNCHANGED <<execs, starting, pid, fd, stream, open, reads, ready, gone>>

\* A read brings data, and its handler passes it on and reads again, from
\* whatever stream there is then.
ReadDone ==
    /\ reads > 0 /\ reads' = reads - 1 /\ ready' = ready + 1
    /\ UNCHANGED <<execs, starting, pid, fd, stream, child, open, gone>>

PushOutput ==
    /\ ready > 0 /\ ~gone
    /\ ready' = ready - 1 /\ reads' = IF stream = 0 THEN reads ELSE reads + 1
    /\ UNCHANGED <<execs, starting, pid, fd, stream, child, open, gone>>

\* Once the command is gone a read fails, and the loop ends.
ReadFails ==
    /\ ~(pid # 0 /\ child[pid] = "running")
    /\ reads > 0 /\ reads' = reads - 1
    /\ UNCHANGED <<execs, starting, pid, fd, stream, child, open, ready, gone>>

TerminalNext ==
    \/ Exec \/ Fork \/ Destroy \/ IsDone
    \/ \E n \in Command : Exit(n)
    \/ ReadDone \/ PushOutput \/ ReadFails

TerminalSpec == TerminalInit /\ [][TerminalNext]_terminalVars

-----------------------------------------------------------------------------
\* A command that runs is the one the app knows of, so that closing the app
\* ends it, and a number kept for a child is that of a child not yet reaped,
\* so that no signal reaches a stranger.
ChildrenTracked ==
    /\ \A n \in Command : child[n] = "running" => n = pid
    /\ pid # 0 => child[pid] \in {"running", "dead"}

\* The app has open the one descriptor it knows of, its stream owns no other,
\* and the output of a command it reads is read as long as the command runs.
DescriptorsTracked ==
    /\ open = {fd} \ {0}
    /\ stream \in {0, fd}
    /\ stream # 0 /\ pid # 0 /\ child[pid] = "running" => reads + ready > 0
=============================================================================
