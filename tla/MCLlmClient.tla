---------------------------- MODULE MCLlmClient -----------------------------
(* LlmClient for TLC: answers with text, tool calls in chunks, a malformed *)
(* line, and an event of two lines.                                        *)
EXTENDS LlmClient

Line(k) == [kind |-> k, id |-> 0, arg |-> 0]
Tool(id, arg) == [kind |-> "tool", id |-> id, arg |-> arg]

MCBodies ==
    { << Line("reasoning"), Blank, Line("delta"), Blank, Line("bad"), Line("delta"),
         Blank, Line("finish"), Blank, Line("usage"), Blank, Line("done"), Blank >>,
      << Tool(0, 1), Blank, Tool(1, 2), Blank, Tool(0, 3), Blank, Tool(2, 4), Blank,
         Tool(0, 5), Blank, Tool(1, 6), Blank, Line("finish"), Blank >>,
      << Tool(2, 1), Blank, Tool(1, 2), Blank, Tool(0, 3), Blank >>,
      << Line("comment"), Line("delta"), Blank, Line("delta") >> }
=============================================================================
