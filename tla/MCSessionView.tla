---------------------------- MODULE MCSessionView ----------------------------
(* Values for model checking SessionView: two shapes of variables, with the *)
(* name "b" at two depths, and commands for every branch of the switch.     *)
EXTENDS SessionView

MCTrees == { {<<"a">>, <<"a", "b">>, <<"a", "b", "c">>, <<"d">>, <<"d", "b">>},
             {<<"a">>, <<"a", "b">>, <<"a", "b", "c">>, <<"c">>} }

MCCommands == { <<"c">>, <<"l">>, <<"o">>, <<"h">>, <<"b">>, <<"q">>, <<"e">>, <<":">>,
                <<":", "b">>, <<":", "b", "1">>, <<":", "l", "x">>, <<":", "e", "a">>,
                <<":", "e", "b">>, <<":", "e", "d">>, <<":", "e", "a", "b">>, <<"x">> }
=============================================================================
