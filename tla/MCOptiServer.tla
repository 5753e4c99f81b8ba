---------------------------- MODULE MCOptiServer ----------------------------
(* Small instances of OptiServer for TLC.                                  *)
EXTENDS OptiServer, TLC

CONSTANTS c1, c2, c3

R(line, route, headers, body, sends) ==
  [line |-> line, method_ok |-> TRUE, route |-> route, headers |-> headers,
   body |-> body, sends |-> sends]

(* A POST to an endpoint, of which any part may never come, and so on.     *)
PostEndpoint == R("ok", "endpoint", "ok", TRUE, 3)
GetUnknown   == R("ok", "unknown", "none", FALSE, 2)
GetApiEcho   == R("ok", "api/v1/echo", "ok", FALSE, 2)
BadEcho      == [R("ok", "/echo", "none", FALSE, 2) EXCEPT !.method_ok = FALSE]

OnePost     == {PostEndpoint}
OneGet      == {GetUnknown}
ServedKinds == {PostEndpoint, GetApiEcho}
SlowOrBad   == {PostEndpoint, BadEcho}

Symmetry == Permutations(Conns)

NoFaults      == {}
ChainFaults   == {"accept", "conn_init", "sigint"}
RequestFaults == {"tcp_init", "store_init", "osi_init", "alloc"}
TcpInitFault  == {"tcp_init"}
=============================================================================
