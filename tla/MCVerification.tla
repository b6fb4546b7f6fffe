--------------------------- MODULE MCVerification ---------------------------
(* Instance of Verification for TLC.                                        *)
EXTENDS Verification

CONSTANTS c1, c2, t1, t2, t3

\* A repeated oracle, one the agent repeats and adds to, and no oracle at all.
MCInputs ==
    {[mandatory |-> <<c1, c1>>, supplementary |-> <<>>],
     [mandatory |-> <<c1>>, supplementary |-> <<c1, c2>>],
     [mandatory |-> <<>>, supplementary |-> <<c2>>]}
=============================================================================
