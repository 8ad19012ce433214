------------------------------- MODULE MCServer -------------------------------
(* Server for TLC: one file with the values of the pool, and files at the      *)
(* bounds of main()'s checks.                                                  *)
EXTENDS Server

PoolFile ==
  [k \in {"max_children", "max_requests"} |->
     IF k = "max_children" THEN MaxChildren ELSE MaxRequests]

MCConfigFiles ==
  {PoolFile, [k \in Keys |-> 0]}
    \cup {[k \in {key} |-> 101] : key \in {"min_spare", "max_spare", "max_children"}}
    \cup {[max_requests |-> 1025], [max_execute_time |-> 3601]}
=============================================================================
