---------------------------- MODULE MC_EchoServer ----------------------------
(* EchoServer with two client connections. *)
EXTENDS EchoServer

CONSTANTS c1, c2

MCConns == {c1, c2}
====
