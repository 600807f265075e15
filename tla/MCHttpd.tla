------------------------------ MODULE MCHttpd -------------------------------
(***************************************************************************)
(* A small instance of Httpd: two clients, room for one child at a time,   *)
(* and a file of up to a full read that is rewritten, removed or created   *)
(* once while it may be served.                                            *)
(***************************************************************************)
EXTENDS Httpd
=============================================================================
