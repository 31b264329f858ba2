----------------------------- MODULE MCThreadedServer -----------------------------
(* Two threads and three clients, one of which may hang up.                *)
EXTENDS ThreadedServer
==================================================================================
