----------------------------- MODULE MCTaskDispatcher -----------------------------
(* Two workers and three tasks: both workers can be busy while a third     *)
(* task waits, and a worker gets a second task.                            *)
EXTENDS TaskDispatcher
==================================================================================
