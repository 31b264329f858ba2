------------------------------- MODULE MCSemaphore -------------------------------
(* Semaphore with three threads: two can sleep while a third signals.      *)
EXTENDS Semaphore
==================================================================================
