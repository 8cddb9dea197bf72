----------------------------- MODULE MCWebTasks -----------------------------
(* Instances of WebTasks for TLC: two server processes, a campaign of two    *)
(* attempts, a reproduction of the campaign's first run, and a command-line  *)
(* job that runs the same campaign.                                          *)
EXTENDS WebTasks

CONSTANTS w1, w2, c1, r1, j1

MCAttempts == [c \in Campaigns |-> 2]
MCTarget == [j \in Jobs |-> c1]
MCSource == [r \in Reproductions |-> c1]
=============================================================================
