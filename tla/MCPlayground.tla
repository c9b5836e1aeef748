---------------------------- MODULE MCPlayground ----------------------------
(***************************************************************************)
(* Small instance of Playground.  The scripts: reasoning, then snapshots   *)
(* of the content; and deltas with think tags split over two chunks.       *)
(***************************************************************************)
EXTENDS Playground

Content(text) == [type |-> "content", text |-> text]
Reasoning(text) == [type |-> "reasoning", text |-> text]

MCAlphabet == {"a", "b", "c", Think, EndThink}
MCScripts ==
    {<<Reasoning(<<"a">>), Content(<<"b">>), Content(<<"b", "c">>)>>,
     <<Content(<<Think, "a">>), Content(<<EndThink, "b">>)>>}
=============================================================================
