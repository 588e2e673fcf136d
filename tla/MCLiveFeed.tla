----------------------------- MODULE MCLiveFeed ------------------------------
(* One page, opened with project A, that may connect twice; e1 is an event  *)
(* of its project, e2 of another.                                           *)
EXTENDS LiveFeed

CONSTANTS p1, e1, e2

MCProjectOf == [e \in Event |-> IF e = e1 THEN "A" ELSE "B"]
MCOpened    == [p \in Page |-> "A"]
==============================================================================
