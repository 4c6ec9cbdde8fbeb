------------------------------ MODULE MCStartup ------------------------------
(* Values for model checking Startup: two marked lines of one file, one of    *)
(* which Delve cannot verify, a default breakpoint that exists, and another   *)
(* function for which Delve reports no source line.                           *)
EXTENDS Startup

MCBad == {<<"main.go", <<2, "none">>>>}
Location(group, line) == [group |-> group, spot |-> <<line, "none">>, form |-> "absolute"]
MCMarked == {Location("main.go", 1), Location("main.go", 2)}
MCBootstrap == Location(Functions, 1)
MCSites == {<<"main.go", n>> : n \in 1..3}
MCNoSite == <<>>
MCSite == [gl \in Groups \X Lines |->
             IF gl = <<Functions, 1>> THEN <<"main.go", 3>>
             ELSE IF gl = <<Functions, 2>> THEN MCNoSite
             ELSE gl]
=============================================================================
