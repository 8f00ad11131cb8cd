------------------------------ MODULE MCRelay ------------------------------
(* Constants of the relay's runs: a request of each route, and two files,   *)
(* of which the larger fills the total by itself.                            *)
EXTENDS Relay

CONSTANTS start, list, hostCall, small, medium, other

MCMethod ==
  [r \in Requests |->
     CASE r = start -> "thread/start"
       [] r = list -> "thread/list"
       [] r = hostCall -> "host"]

MCBytes == [r \in Requests |-> 1]

MCFileBytes == [p \in Paths |-> IF p = small THEN 1 ELSE 2]
=============================================================================
