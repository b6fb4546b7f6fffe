------------------------------ MODULE MCGateway ------------------------------
(* Instance of Gateway for TLC.                                             *)
EXTENDS Gateway

\* A tool turn, and the structured answer that ends the loop.
MCPlan == <<[op |-> "next_action", scope |-> "repair"],
            [op |-> "finalize", scope |-> "repair"]>>

\* A named answer with counts, an unnamed one with counts of the other form that
\* does not parse, and one without counts.
MCAnswers ==
    {[valid |-> TRUE, meta |-> 1, token_usage |-> 0, hasId |-> TRUE],
     [valid |-> FALSE, meta |-> 0, token_usage |-> 1, hasId |-> FALSE],
     [valid |-> TRUE, meta |-> 0, token_usage |-> 0, hasId |-> FALSE]}
=============================================================================
