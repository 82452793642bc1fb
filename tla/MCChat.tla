------------------------------- MODULE MCChat -------------------------------
(* Chat for TLC.                                                           *)
EXTENDS Chat

UserMessages == SelectSeq(history, LAMBDA e : e.role = "user")

\* Where the replies are in the history steers nothing, and the properties
\* read the messages only.
MessageView ==
    << UserMessages, roomVars, queue, streaming, cancelled, inputVars, chain, reply,
       actor, tools, broken, raced >>
=============================================================================
