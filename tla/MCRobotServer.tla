---------------------------- MODULE MCRobotServer ----------------------------
(* RobotServer for TLC: clients and handlers are interchangeable.           *)
EXTENDS RobotServer, TLC

Symmetry == Permutations(Clients) \cup Permutations(Handlers)
=============================================================================
