---------------------------- MODULE MCSqliteStore ----------------------------
(***************************************************************************)
(* Two threads and three calls.  Events a, b and c belong to one trace and *)
(* d to another; b carries the earliest start and an error and is ingested *)
(* whole, c breaks at its event row after its trace row was written, d     *)
(* breaks among its chunks.  b names another project than a.               *)
(***************************************************************************)
EXTENDS SqliteStore

CONSTANTS a, b, c, d, q1, q2, none

MCEvent     == {a, b, c, d}
MCTrace     == {"t1", "t2"}
MCTraceOf   == [e \in MCEvent |-> IF e = d THEN "t2" ELSE "t1"]
MCProject   == {"p1", "p2"}
MCProjectOf == [e \in MCEvent |-> IF e = b THEN "p2" ELSE "p1"]
MCQuery     == {q1, q2}
MCQueryOf   == [e \in MCEvent |-> IF e = b THEN q1 ELSE IF e = c THEN q2 ELSE none]
MCStartOf   == [e \in MCEvent |-> IF e = b THEN 1 ELSE 2]
MCEndOf     == [e \in MCEvent |-> IF e = a THEN 4 ELSE 3]
MCFailed    == {b}
MCHitsOf    == [e \in MCEvent |-> IF e \in {b, d} THEN {"k"} ELSE {}]
MCBreaksAt  == [e \in MCEvent |-> IF e = c THEN "event"
                                  ELSE IF e = d THEN "chunks" ELSE "never"]
MCBatches   == {<<a, b>>, <<a, c>>, <<d>>}
==============================================================================
