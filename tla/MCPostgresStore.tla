--------------------------- MODULE MCPostgresStore ---------------------------
(***************************************************************************)
(* Three threads and a pool of two connections.  The batches <<a, c>> and  *)
(* <<d, b>> write the traces t1 and t2 in opposite orders; a, b and x are  *)
(* of t1, c and d of t2, b carries the earliest start and an error, and    *)
(* its statements may raise.  After any of the three has inserted t1, the  *)
(* others may update it from one read.  a and d carry the same chunk, so   *)
(* that it is locked within the traces in either order and may be rolled   *)
(* back while another waits for it.  Two notes may be put into one slot.   *)
(***************************************************************************)
EXTENDS PostgresStore

CONSTANTS a, b, c, d, x, q1, q2, none

MCEvent     == {a, b, c, d, x}
MCTraceOf   == [e \in MCEvent |-> IF e \in {c, d} THEN "t2" ELSE "t1"]
MCProjectOf == [e \in MCEvent |-> "p1"]
MCQueryOf   == [e \in MCEvent |-> IF e = b THEN q1 ELSE IF e = x THEN q2 ELSE none]
MCStartOf   == [e \in MCEvent |-> IF e = b THEN 1 ELSE 2]
MCEndOf     == [e \in MCEvent |-> IF e = a THEN 4 ELSE 3]
MCChunksOf  == [e \in MCEvent |-> IF e \in {a, d} THEN <<"k">> ELSE <<>>]
MCBatches   == {<<a, c>>, <<d, b>>, <<x>>}
==============================================================================
