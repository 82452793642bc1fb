--------------------------- MODULE MCAgentServer ----------------------------
(* AgentServer for TLC.                                                    *)
EXTENDS AgentServer

\* The history steers nothing, and once a conversation was disturbed no
\* property reads it; nor does any read where the app states are in it.
QuietView ==
    << IF Undisturbed THEN SelectSeq(history, LAMBDA m : m.role # "state") ELSE <<>>,
       configVars, queue, streaming, cancelled, turnVars, answerVars, handlerVars,
       inputVars, lifeVars, raced >>
=============================================================================
