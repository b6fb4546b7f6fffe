----------------------------- MODULE MCToolLoop -----------------------------
(* Instance of ToolLoop for TLC.                                            *)
EXTENDS ToolLoop

CONSTANTS s1

Call(name) == [name |-> name, skill |-> s1]

\* No call, an edit, a skill loaded and run at once, a script by itself.
MCResponses ==
    {<<>>, <<Call("replace_text")>>, <<Call("load_skill"), Call("run_skill_script")>>,
     <<Call("run_skill_script")>>}

\* A task without limits, a tight one, and one without room for an action.
MCTaskLimits == {None, [model |-> 2, tool |-> 1], [model |-> 1, tool |-> 1]}
=============================================================================
