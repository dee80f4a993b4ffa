---------------------------- MODULE MCStreamParse ----------------------------
(***************************************************************************)
(* StreamParse for TLC: for each protocol a message with two calls of the  *)
(* same tool, one with malformed arguments, and one with every other kind  *)
(* of block the protocol has.                                              *)
(***************************************************************************)
EXTENDS StreamParse

Text(n)     == [kind |-> "text", name |-> "", parts |-> n, valid |-> TRUE]
Thinking(n) == [kind |-> "thinking", name |-> "", parts |-> n, valid |-> TRUE]
Redacted    == [kind |-> "redacted", name |-> "", parts |-> 0, valid |-> TRUE]
Tool(n)     == [kind |-> "tool", name |-> "recall", parts |-> n, valid |-> TRUE]
BadTool(n)  == [Tool(n) EXCEPT !.valid = FALSE]

MCMessages ==
    [proto : {"openai"}, blocks : {<<Text(2), Tool(2), Tool(2)>>, <<Tool(0), Tool(3)>>,
                                   <<BadTool(2), Tool(1)>>, <<Text(3)>>}]
    \cup
    [proto : {"anthropic"}, blocks : {<<Thinking(2), Text(2), Tool(2), Tool(0)>>,
                                      <<Redacted, Text(1), Text(2)>>,
                                      <<Text(1), BadTool(2), Tool(1)>>}]
    \cup
    [proto : {"google"}, blocks : {<<Text(1), Tool(1), Text(1), Tool(1)>>, <<Text(1)>>}]
=============================================================================
