------------------------------ MODULE MCStack ------------------------------
(* Instances of Stack for TLC.                                             *)
EXTENDS Stack

\* All that occurs, together.
Everything == {[assocs |-> Assocs, codes |-> Codes, inits |-> Inits]}

\* One association with all codes and messages, or all associations with
\* requests of one procedure.
OneOrAll ==
    {[assocs |-> {CHOOSE a \in Assocs : TRUE}, codes |-> Codes, inits |-> Inits],
     [assocs |-> Assocs, codes |-> {CHOOSE k \in Codes : TRUE}, inits |-> {}]}
=============================================================================
