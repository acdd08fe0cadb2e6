------------------------------ MODULE MCElection ------------------------------
(* Election for TLC.  The ids are ordered, so there is no symmetry.          *)
EXTENDS Election

\* Calls of node 2 to node 1 may get lost; those the other way arrive.
OneWay == {<<2, 1>>}

\* Any call may wait in a queue for as long as the queue can last.
AllPairs == Node \X Node
===============================================================================
