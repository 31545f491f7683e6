---- MODULE MCElection ----
(***************************************************************************)
(* Two peers of an organization.  A unit of time is five seconds with the  *)
(* defaults, LeaderElectionDuration 5 s and LeaderAliveThreshold 10 s.     *)
(***************************************************************************)
EXTENDS Election

TwoPeers == {1, 2}
====
