--------------------------- MODULE MCGatewayServer ---------------------------
(***************************************************************************)
(* Two versions with two URLs, one lease and two pods.  Operations that    *)
(* read the same state are mixed; those that share nothing are not.        *)
(***************************************************************************)
EXTENDS GatewayServer

CONSTANTS r1, r2

Mix(a, b) == [r \in {r1, r2} |-> IF r = r1 THEN a ELSE b]

TheScenarios ==
    {Mix({"async"}, {"instance"}), Mix({"list", "get"}, {}),
     Mix({"definition"}, {}), Mix({"sync"}, {"catalog"})}

=============================================================================
