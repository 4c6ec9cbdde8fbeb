---------------------------- MODULE MCCommandLine ----------------------------
(* Values for model checking CommandLine: one variable with a branch, and    *)
(* nothing read in line mode.                                                *)
EXTENDS CommandLine

MCTrees == { {<<"a">>, <<"a", "b">>} }
=============================================================================
