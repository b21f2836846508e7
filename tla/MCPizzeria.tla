---------------------------- MODULE MCPizzeria ----------------------------
(* The constants under which TLC checks the kitchen and its refinement.    *)
EXTENDS PizzeriaImpl

CONSTANTS k1, k2, d1, margherita, hawaii
=============================================================================
