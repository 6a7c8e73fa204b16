------------------------------ MODULE MCStartup ------------------------------
(* Instances of Startup for TLC.                                           *)
EXTENDS Startup

(* As install.sh has it: -init by root, the service by fabrixe.            *)
Users == [p \in Procs |-> IF p = "setup" THEN "root" ELSE "fabrixe"]
=============================================================================
