-------------------------- MODULE MCBreakpointTable --------------------------
(* Values for model checking BreakpointTable: one file and the functions,   *)
(* two lines in each.  Line 1 can have a condition; Delve does not know     *)
(* function 2 and rejects that condition for function 1.                    *)
EXTENDS BreakpointTable

MCBad == {<<Functions, <<2, "none">>>>, <<Functions, <<2, "hits > 3">>>>,
          <<Functions, <<1, "hits > 3">>>>}
=============================================================================
