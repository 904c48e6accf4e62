------------------------- MODULE MCManageSieveServer -------------------------
(* Server.Close, two calls of Serve and one connection, which is not yet      *)
(* accepted, only accepted, registered or leaving when Close comes. Two       *)
(* sessions, so that the client can authenticate, unauthenticate and          *)
(* authenticate again, with two commands pipelined.                           *)
EXTENDS ManageSieveServer

MCListeners == {"l1", "l2"}
MCConns == {"c1"}
MCSessions == {"s1", "s2"}
=============================================================================
