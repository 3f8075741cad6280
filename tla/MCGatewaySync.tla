---------------------------- MODULE MCGatewaySync ----------------------------
(* An instance of GatewaySync for TLC: of the initial states, those in which a *)
(* project and a task that names it are in Notion.                             *)
EXTENDS GatewaySync

CONSTANTS s1, s2, v1, p1, p2, t1, t2, x, y

OneNamed == gwProject[p1] = x /\ gwTask[t2] = [ref |-> x]

MCInit == Init /\ OneNamed

MCSpec == MCInit /\ [][Next]_vars /\ Fairness
=============================================================================
