----------------------------- MODULE MCStartup -----------------------------
(* An instance of Startup for TLC: "any" is an address with port 0.        *)
EXTENDS Startup

SmallBindings(a) == IF a = "any" THEN {"p1", "p2"} ELSE {a}

SmallPeerLists == {<<>>, <<"p1">>, <<"p2", "p1">>, <<"p1", "junk">>}
=============================================================================
