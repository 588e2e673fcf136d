--------------------------- MODULE FanOutStoreProofs ---------------------------
(***************************************************************************)
(* The SQLite store for any threads, events, batches and any way in which  *)
(* a statement may raise; and the fan-out store, whose SQLite store is one *)
(* to which what the other backend does is invisible.  So each theorem of  *)
(* the first part holds of the composition that the runs check, and from   *)
(* its invariant follows what the two backends have in common after any    *)
(* failure.                                                                *)
(***************************************************************************)
EXTENDS FanOutStore, TLAPS

Locked(t) == pc[t] \in {"ingesting", "merging"}

(* The holder of the lock, and only it, is inside the locked section. *)
LockInv == \A t \in Thread : Locked(t) <=> lock = t

(* How far each call has come: what it ingested is in the connection's     *)
(* view, the row it is about to update is the one the view has, and what   *)
(* it publishes was acknowledged.                                          *)
CallOK(t) ==
  /\ at[t] <= Len(call[t])
  /\ pc[t] \in {"idle", "waiting", "listing"} => at[t] = 0
  /\ Locked(t) => \A i \in 1..at[t] : call[t][i] \in view.event
  /\ pc[t] = "merging" =>
       /\ at[t] < Len(call[t])
       /\ BreaksAt[Current(t)] # "project"
       /\ seen[t] = view.trace[TraceOf[Current(t)]]
       /\ ProjectOf[Current(t)] \in view.project
  /\ pc[t] = "publishing" => InBatch(t) \subseteq acked

CallInv == \A t \in Thread : CallOK(t)

(* The view never has less than the disk. *)
ViewExtendsDisk ==
  /\ disk.event \subseteq view.event
  /\ \A tr \in Trace : disk.trace[tr] # NoRow => Widens(disk.trace[tr], view.trace[tr])

(* The inductive invariant. *)
IInv ==
  /\ TypeOK
  /\ LockInv
  /\ CallInv
  /\ ViewExtendsDisk
  /\ StoreConsistent
  /\ AckedDurable
  /\ published \subseteq acked
  /\ UncommittedIsOwned
  /\ ListedHaveTraces

------------------------------------------------------------------------------
(* The statements of _ingest_one, one lemma each. *)

(* What an event writes of its trace's row is a row (db.py:176-195). *)
LEMMA RowTyped ==
  ASSUME NEW e \in Event, NEW row \in Row \cup {NoRow}
  PROVE  (IF row = NoRow THEN NewRow(e) ELSE MergedRow(row, e)) \in Row
<1> USE EventData DEF Row, Status
<1>1. NewRow(e) \in Row
  BY DEF NewRow
<1>2. CASE row = NoRow
  BY <1>1, <1>2
<1>3. CASE row # NoRow
  BY <1>3 DEF MergedRow
<1> QED
  BY <1>2, <1>3

(* The row a trace gets from an event covers the event and loses nothing   *)
(* of the row it had.                                                      *)
LEMMA RowMerge ==
  ASSUME NEW e \in Event, NEW row \in Row \cup {NoRow},
         NEW new, new = IF row = NoRow THEN NewRow(e) ELSE MergedRow(row, e)
  PROVE  /\ new \in Row
         /\ new # NoRow
         /\ new.start <= StartOf[e]
         /\ new.end >= EndOf[e]
         /\ e \in Failed => new.status = "error"
         /\ row # NoRow => Widens(row, new)
         /\ new.project = IF row = NoRow THEN ProjectOf[e] ELSE row.project
<1>1. new \in Row /\ new # NoRow
  BY RowTyped, NoRowAssumption
<1>2. CASE row = NoRow
  BY <1>1, <1>2, EventData DEF NewRow
<1>3. CASE row # NoRow
  BY <1>1, <1>3, EventData DEF MergedRow, Widens, Row
<1> QED
  BY <1>1, <1>2, <1>3

(* A row that widens twice widens. *)
LEMMA WidensTransitive ==
  ASSUME NEW r1 \in Row, NEW r2 \in Row, NEW r3 \in Row,
         Widens(r1, r2), Widens(r2, r3)
  PROVE  Widens(r1, r3)
BY DEF Widens, Row

(* A row that is left alone widens. *)
LEMMA WidensReflexive ==
  ASSUME NEW r \in Row
  PROVE  Widens(r, r)
BY NoRowAssumption DEF Widens, Row

(* What a statement may do to consistent tables: keep them consistent,     *)
(* keep every event and every trace row, add no event but e.               *)
Extends(old, new, e) ==
  /\ new \in Tables
  /\ Linked(new)
  /\ Covers(new)
  /\ old.event \subseteq new.event
  /\ new.event \subseteq old.event \cup {e}
  /\ old.project \subseteq new.project
  /\ \A tr \in Trace : old.trace[tr] # NoRow => Widens(old.trace[tr], new.trace[tr])

(* INSERT OR IGNORE of the project loses nothing (db.py:171-174). *)
LEMMA ProjectStatement ==
  ASSUME NEW db \in Tables, NEW e \in Event, Linked(db), Covers(db)
  PROVE  /\ Extends(db, WithProject(db, e), e)
         /\ ProjectOf[e] \in WithProject(db, e).project
         /\ WithProject(db, e).trace = db.trace
         /\ WithProject(db, e).event = db.event
<1> DEFINE new == WithProject(db, e)
<1>1. /\ new \in Tables
      /\ new.project = db.project \cup {ProjectOf[e]}
      /\ new.trace = db.trace /\ new.event = db.event
      /\ new.chunk = db.chunk /\ new.hit = db.hit
  BY EventData DEF WithProject, Tables
<1> HIDE DEF new
<1>2. Linked(new) /\ Covers(new)
  BY <1>1 DEF Linked, Covers
<1>3. \A tr \in Trace : db.trace[tr] # NoRow => Widens(db.trace[tr], new.trace[tr])
  BY <1>1, WidensReflexive DEF Tables
<1>4. Extends(db, new, e)
  BY <1>1, <1>2, <1>3 DEF Extends
<1> QED
  BY <1>1, <1>4 DEF new

(* INSERT or UPDATE of the trace's row, from the row that was selected      *)
(* (db.py:182-195).                                                         *)
LEMMA TraceStatement ==
  ASSUME NEW db \in Tables, NEW e \in Event, Linked(db), Covers(db),
         ProjectOf[e] \in db.project,
         NEW new, new = WithTrace(db, e, db.trace[TraceOf[e]])
  PROVE  /\ Extends(db, new, e)
         /\ new.trace[TraceOf[e]] # NoRow
         /\ new.trace[TraceOf[e]].start <= StartOf[e]
         /\ new.trace[TraceOf[e]].end >= EndOf[e]
         /\ e \in Failed => new.trace[TraceOf[e]].status = "error"
         /\ new.event = db.event /\ new.project = db.project
<1> DEFINE k == TraceOf[e]
           row == db.trace[k]
           nrow == IF row = NoRow THEN NewRow(e) ELSE MergedRow(row, e)
<1>1. k \in Trace /\ row \in Row \cup {NoRow}
  BY EventData DEF Tables
<1>2. /\ nrow \in Row
      /\ nrow # NoRow
      /\ nrow.start <= StartOf[e]
      /\ nrow.end >= EndOf[e]
      /\ e \in Failed => nrow.status = "error"
      /\ row # NoRow => Widens(row, nrow)
      /\ nrow.project = IF row = NoRow THEN ProjectOf[e] ELSE row.project
  BY <1>1, RowMerge
<1> HIDE DEF nrow
<1>3. new = [db EXCEPT !.trace[k] = nrow]
  BY DEF WithTrace, nrow
<1>4. /\ new \in Tables
      /\ new.project = db.project /\ new.event = db.event
      /\ new.chunk = db.chunk /\ new.hit = db.hit
      /\ new.trace[k] = nrow
      /\ \A tr \in Trace \ {k} : new.trace[tr] = db.trace[tr]
  BY <1>1, <1>2, <1>3 DEF Tables
<1>5. nrow.project \in db.project
  BY <1>1, <1>2 DEF Linked
<1>6. Linked(new)
  <2>1. \A f \in new.event : new.trace[TraceOf[f]] # NoRow
    <3> TAKE f \in new.event
    <3>1. f \in Event /\ TraceOf[f] \in Trace /\ db.trace[TraceOf[f]] # NoRow
      BY <1>4, EventData DEF Tables, Linked
    <3> QED
      BY <1>2, <1>4, <3>1
  <2>2. \A tr \in Trace : new.trace[tr] # NoRow => new.trace[tr].project \in new.project
    BY <1>1, <1>4, <1>5 DEF Linked
  <2> QED
    BY <1>4, <2>1, <2>2 DEF Linked
<1>7. \A f \in db.event : TraceOf[f] = k => row # NoRow
  BY DEF Linked
<1>8. Covers(new)
  <2> SUFFICES ASSUME NEW f \in new.event
               PROVE  /\ new.trace[TraceOf[f]].start <= StartOf[f]
                      /\ new.trace[TraceOf[f]].end >= EndOf[f]
                      /\ f \in Failed => new.trace[TraceOf[f]].status = "error"
    BY DEF Covers
  <2>1. f \in Event /\ f \in db.event /\ TraceOf[f] \in Trace
    BY <1>4, EventData DEF Tables
  <2>2. /\ db.trace[TraceOf[f]].start <= StartOf[f]
        /\ db.trace[TraceOf[f]].end >= EndOf[f]
        /\ f \in Failed => db.trace[TraceOf[f]].status = "error"
    BY <2>1 DEF Covers
  <2>3. CASE TraceOf[f] = k
    <3>1. Widens(row, nrow) /\ row \in Row
      BY <1>1, <1>2, <1>7, <2>1, <2>3
    <3>2. StartOf[f] \in Int /\ EndOf[f] \in Int
      BY <2>1, EventData
    <3> QED
      BY <1>2, <1>4, <2>2, <2>3, <3>1, <3>2 DEF Widens, Row
  <2>4. CASE TraceOf[f] # k
    BY <1>4, <2>1, <2>2, <2>4
  <2> QED
    BY <2>3, <2>4
<1>9. \A tr \in Trace : db.trace[tr] # NoRow => Widens(db.trace[tr], new.trace[tr])
  <2> SUFFICES ASSUME NEW tr \in Trace, db.trace[tr] # NoRow
               PROVE  Widens(db.trace[tr], new.trace[tr])
    OBVIOUS
  <2>1. CASE tr = k
    BY <1>2, <1>4, <2>1
  <2>2. CASE tr # k
    <3>1. db.trace[tr] \in Row /\ new.trace[tr] = db.trace[tr]
      BY <1>4, <2>2 DEF Tables
    <3> QED
      BY <3>1, WidensReflexive
  <2> QED
    BY <2>1, <2>2
<1> QED
  BY <1>2, <1>4, <1>6, <1>8, <1>9 DEF Extends

(* INSERT OR REPLACE of the event's row (db.py:196-213). *)
LEMMA EventStatement ==
  ASSUME NEW db \in Tables, NEW e \in Event, Linked(db), Covers(db),
         db.trace[TraceOf[e]] # NoRow,
         db.trace[TraceOf[e]].start <= StartOf[e],
         db.trace[TraceOf[e]].end >= EndOf[e],
         e \in Failed => db.trace[TraceOf[e]].status = "error",
         NEW new, new = WithEvent(db, e)
  PROVE  /\ Extends(db, new, e)
         /\ new.event = db.event \cup {e} /\ new.project = db.project
         /\ new.trace = db.trace
<1>1. /\ new \in Tables
      /\ new.project = db.project /\ new.trace = db.trace
      /\ new.event = db.event \cup {e}
      /\ new.chunk = db.chunk /\ new.hit = db.hit
  BY DEF WithEvent, Tables
<1>2. Linked(new) /\ Covers(new)
  BY <1>1 DEF Linked, Covers
<1>3. \A tr \in Trace : db.trace[tr] # NoRow => Widens(db.trace[tr], new.trace[tr])
  BY <1>1, WidensReflexive DEF Tables
<1> QED
  BY <1>1, <1>2, <1>3 DEF Extends

(* INSERT OR IGNORE of an event's chunks (db.py:216-260). *)
LEMMA ChunksStatement ==
  ASSUME NEW db \in Tables, NEW e \in Event, Linked(db), Covers(db), e \in db.event,
         NEW new, new = WithChunks(db, e)
  PROVE  /\ Extends(db, new, e)
         /\ new.event = db.event /\ new.project = db.project
         /\ new.trace = db.trace
<1>1. /\ new.project = db.project /\ new.trace = db.trace
      /\ new.event = db.event
      /\ new.truth = db.truth /\ new.score = db.score
      /\ new.chunk = db.chunk \cup ({ProjectOf[e]} \X HitsOf[e])
      /\ new.hit \in [Event -> Nat]
      /\ \A f \in Event \ {e} : new.hit[f] = db.hit[f]
      /\ DOMAIN new = DOMAIN db
  BY DEF WithChunks, Tables
<1>2. new \in Tables
  <2>1. {ProjectOf[e]} \X HitsOf[e] \subseteq Project \X Chunk
    BY EventData
  <2>2. new.chunk \in SUBSET (Project \X Chunk)
    BY <1>1, <2>1 DEF Tables
  <2> QED
    BY <1>1, <2>2 DEF Tables, WithChunks
<1>3. Linked(new) /\ Covers(new)
  BY <1>1 DEF Linked, Covers
<1>4. \A tr \in Trace : db.trace[tr] # NoRow => Widens(db.trace[tr], new.trace[tr])
  BY <1>1, WidensReflexive DEF Tables
<1> QED
  BY <1>1, <1>2, <1>3, <1>4 DEF Extends

(* What one statement after another leaves extends what there was. *)
LEMMA ExtendsTransitive ==
  ASSUME NEW d1 \in Tables, NEW d2, NEW d3, NEW e,
         Extends(d1, d2, e), Extends(d2, d3, e)
  PROVE  Extends(d1, d3, e)
<1>1. d2 \in Tables /\ d3 \in Tables
  BY DEF Extends
<1>2. ASSUME NEW tr \in Trace, d1.trace[tr] # NoRow
      PROVE  Widens(d1.trace[tr], d3.trace[tr])
  <2>1. Widens(d1.trace[tr], d2.trace[tr])
    BY <1>2 DEF Extends
  <2>2. Widens(d2.trace[tr], d3.trace[tr])
    BY <2>1 DEF Extends, Widens
  <2>3. d1.trace[tr] \in Row /\ d2.trace[tr] \in Row /\ d3.trace[tr] \in Row
    BY <1>1, <1>2, <2>1, <2>2 DEF Tables, Widens
  <2> QED
    BY <2>1, <2>2, <2>3, WidensTransitive
<1> QED
  BY <1>2 DEF Extends

(* Whichever statement raises, what was written keeps the tables           *)
(* consistent: the order trace row, event row, chunks is what matters.     *)
LEMMA Written ==
  ASSUME NEW db \in Tables, NEW e \in Event, Linked(db), Covers(db),
         ProjectOf[e] \in db.project, NEW s \in Step \ {"project"},
         NEW new, new = WrittenUpTo(db, e, db.trace[TraceOf[e]], s)
  PROVE  /\ Extends(db, new, e)
         /\ s = "never" => e \in new.event
<1> DEFINE d1 == WithTrace(db, e, db.trace[TraceOf[e]])
           d2 == WithEvent(d1, e)
           d3 == WithChunks(d2, e)
<1>1. /\ Extends(db, d1, e)
      /\ d1.trace[TraceOf[e]] # NoRow
      /\ d1.trace[TraceOf[e]].start <= StartOf[e]
      /\ d1.trace[TraceOf[e]].end >= EndOf[e]
      /\ e \in Failed => d1.trace[TraceOf[e]].status = "error"
  BY TraceStatement
<1>2. d1 \in Tables /\ Linked(d1) /\ Covers(d1)
  BY <1>1 DEF Extends
<1> HIDE DEF d1
<1>3. Extends(d1, d2, e) /\ e \in d2.event
  BY <1>1, <1>2, EventStatement
<1>4. d2 \in Tables /\ Linked(d2) /\ Covers(d2)
  BY <1>3 DEF Extends
<1> HIDE DEF d2
<1>5. Extends(d2, d3, e) /\ e \in d3.event
  BY <1>3, <1>4, ChunksStatement
<1> HIDE DEF d3
<1>6. Extends(db, d2, e) /\ Extends(db, d3, e)
  BY <1>1, <1>3, <1>5, ExtendsTransitive
<1>7. Extends(db, db, e)
  BY WidensReflexive DEF Extends, Tables
<1>8. new = (CASE s = "trace" -> db [] s = "event" -> d1 [] s = "chunks" -> d2
               [] s = "never" -> d3)
  BY DEF WrittenUpTo, d1, d2, d3
<1> QED
  BY <1>1, <1>5, <1>6, <1>7, <1>8 DEF Step

------------------------------------------------------------------------------
(* The steps of a call. *)

(* The thread inside the locked section is the only one there. *)
LEMMA Alone ==
  ASSUME LockInv, NEW t \in Thread, Locked(t)
  PROVE  lock = t /\ \A u \in Thread \ {t} : ~Locked(u)
BY DEF LockInv

(* The event a locked thread is at is an event. *)
LEMMA CurrentIsEvent ==
  ASSUME TypeOK, NEW t \in Thread, at[t] < Len(call[t])
  PROVE  /\ Current(t) \in Event
         /\ at[t] + 1 \in DOMAIN call[t]
         /\ TraceOf[Current(t)] \in Trace
         /\ Current(t) \in InBatch(t)
<1>1. call[t] \in Seq(Event) /\ at[t] \in Nat
  BY DEF TypeOK
<1>2. at[t] + 1 \in 1..Len(call[t])
  BY <1>1
<1> QED
  BY <1>1, <1>2, EventData DEF Current, InBatch

(* No trace row disappears from the view. *)
RowsStay == \A tr \in Trace : view.trace[tr] # NoRow => view'.trace[tr] # NoRow

(* A step that takes no trace row away leaves listings as they are          *)
(* (db.py:472-500).                                                         *)
LEMMA ListingsHold ==
  ASSUME TypeOK, ListedHaveTraces, RowsStay, UNCHANGED listed
  PROVE  ListedHaveTraces'
BY EventData DEF TypeOK, ListedHaveTraces, RowsStay

(* A step that writes no event and leaves the lock and the calls of its    *)
(* holder alone leaves what is uncommitted with its owners.                *)
LEMMA OwnersHold ==
  ASSUME TypeOK, UncommittedIsOwned, view'.event \ disk'.event \subseteq view.event \ disk.event,
         raised \subseteq raised',
         \A u \in Thread : lock = u => lock' = u /\ call'[u] = call[u]
  PROVE  UncommittedIsOwned'
BY DEF UncommittedIsOwned, InBatch

(* A statement extends the view and touches nothing that is committed. *)
LEMMA ViewGrows ==
  ASSUME TypeOK, ViewExtendsDisk, StoreConsistent, AckedDurable,
         NEW e \in Event, Extends(view, view', e), UNCHANGED <<disk, acked, published>>
  PROVE  /\ view' \in Tables
         /\ StoreConsistent' /\ ViewExtendsDisk' /\ AckedDurable'
         /\ view.event \subseteq view'.event
         /\ view'.event \subseteq view.event \cup {e}
         /\ RowsStay
<1>1. view' \in Tables /\ StoreConsistent' /\ AckedDurable' /\ RowsStay
  BY DEF Extends, StoreConsistent, AckedDurable, RowsStay, Widens
<1>2. disk.event \subseteq view'.event /\ view.event \subseteq view'.event
  BY DEF Extends, ViewExtendsDisk
<1>3. ASSUME NEW tr \in Trace, disk.trace[tr] # NoRow
      PROVE  Widens(disk.trace[tr], view'.trace[tr])
  <2>1. Widens(disk.trace[tr], view.trace[tr])
    BY <1>3 DEF ViewExtendsDisk
  <2>2. Widens(view.trace[tr], view'.trace[tr])
    BY <2>1 DEF Extends, Widens
  <2>3. disk.trace[tr] \in Row /\ view.trace[tr] \in Row /\ view'.trace[tr] \in Row
    BY <1>1, <1>3, <2>1, <2>2 DEF TypeOK, Tables, Widens
  <2> QED
    BY <2>1, <2>2, <2>3, WidensTransitive
<1> QED
  BY <1>1, <1>2, <1>3 DEF ViewExtendsDisk, Extends

(* A batch is given to ingest_events (db.py:146). *)
LEMMA CallStep ==
  ASSUME IInv, NEW t \in Thread, NEW b \in Batches, Call(t, b)
  PROVE  IInv'
<1> USE DEF IInv
<1>1. /\ b \in Seq(Event) /\ Len(b) \in Nat
      /\ calls' \in 0..MaxCalls
  BY BatchesAssumption DEF Call, TypeOK
<1>2. TypeOK'
  BY <1>1 DEF Call, TypeOK, Phase
<1>3. LockInv'
  BY DEF Call, LockInv, Locked, TypeOK
<1>4. CallInv'
  <2> SUFFICES ASSUME NEW u \in Thread PROVE CallOK(u)'
    BY DEF CallInv
  <2>0. CallOK(u)
    BY DEF CallInv
  <2>1. CASE u = t
    BY <1>1, <2>0, <2>1 DEF Call, CallOK, TypeOK, Locked
  <2>2. CASE u # t
    BY <2>0, <2>2 DEF Call, CallOK, TypeOK, Locked, Current, InBatch
  <2> QED
    BY <2>1, <2>2
<1>5. ViewExtendsDisk' /\ StoreConsistent' /\ AckedDurable' /\ published' \subseteq acked'
  BY DEF Call, ViewExtendsDisk, StoreConsistent, AckedDurable
<1>6. UncommittedIsOwned' /\ ListedHaveTraces'
  <2>1. \A u \in Thread : lock = u => lock' = u /\ call'[u] = call[u]
    BY DEF Call, LockInv, Locked, TypeOK
  <2> QED
    BY <2>1, OwnersHold, ListingsHold DEF Call, RowsStay
<1> QED
  BY <1>2, <1>3, <1>4, <1>5, <1>6

(* The lock is taken by one thread (db.py:147). *)
LEMMA AcquireStep ==
  ASSUME IInv, NEW t \in Thread, Acquire(t)
  PROVE  IInv'
<1> USE DEF IInv
<1>1. TypeOK'
  BY DEF Acquire, TypeOK, Phase
<1>2. LockInv'
  BY SentinelsApart DEF Acquire, LockInv, Locked, TypeOK
<1>3. CallInv'
  <2> SUFFICES ASSUME NEW u \in Thread PROVE CallOK(u)'
    BY DEF CallInv
  <2>0. CallOK(u)
    BY DEF CallInv
  <2>1. CASE u = t
    BY <2>0, <2>1 DEF Acquire, CallOK, TypeOK, Locked
  <2>2. CASE u # t
    BY <2>0, <2>2 DEF Acquire, CallOK, TypeOK, Locked, Current, InBatch
  <2> QED
    BY <2>1, <2>2
<1>4. ViewExtendsDisk' /\ StoreConsistent' /\ AckedDurable' /\ published' \subseteq acked'
  BY DEF Acquire, ViewExtendsDisk, StoreConsistent, AckedDurable
<1>5. UncommittedIsOwned' /\ ListedHaveTraces'
  <2>1. \A u \in Thread : lock # u
    BY SentinelsApart DEF Acquire
  <2> QED
    BY <2>1, OwnersHold, ListingsHold DEF Acquire, RowsStay
<1> QED
  BY <1>1, <1>2, <1>3, <1>4, <1>5

(* A thread outside the locked section is not disturbed by a statement. *)
LEMMA OthersUndisturbed ==
  ASSUME NEW u \in Thread, CallOK(u), ~Locked(u),
         pc'[u] = pc[u], call'[u] = call[u], at'[u] = at[u], acked \subseteq acked'
  PROVE  CallOK(u)'
BY DEF CallOK, Locked, InBatch

(* The project's row, and the SELECT of the trace's row (db.py:171-177). *)
LEMMA SelectStep ==
  ASSUME IInv, NEW t \in Thread, SelectTrace(t)
  PROVE  IInv'
<1> USE DEF IInv
<1> DEFINE e == Current(t)
<1>1. /\ at[t] < Len(call[t]) /\ pc[t] = "ingesting"
      /\ e \in Event /\ TraceOf[e] \in Trace
      /\ \A u \in Thread \ {t} : ~Locked(u)
      /\ CallOK(t)
  BY CurrentIsEvent, Alone DEF SelectTrace, Locked, CallInv
<1> HIDE DEF e
<1>2. /\ Extends(view, view', e)
      /\ ProjectOf[e] \in view'.project
      /\ view'.trace = view.trace /\ view'.event = view.event
  BY <1>1, ProjectStatement DEF SelectTrace, TypeOK, StoreConsistent, e
<1>3. /\ view' \in Tables
      /\ StoreConsistent' /\ ViewExtendsDisk' /\ AckedDurable' /\ RowsStay
  BY <1>1, <1>2, ViewGrows DEF SelectTrace
<1>4. TypeOK'
  <2>1. view.trace[TraceOf[e]] \in Row \cup {NoRow}
    BY <1>1 DEF TypeOK, Tables
  <2> QED
    BY <1>3, <2>1 DEF SelectTrace, TypeOK, Phase, e
<1>5. LockInv'
  BY DEF SelectTrace, LockInv, Locked, TypeOK
<1>6. CallInv'
  <2> SUFFICES ASSUME NEW u \in Thread PROVE CallOK(u)'
    BY DEF CallInv
  <2>1. CASE u = t
    <3>1. /\ pc'[t] = "merging" /\ at' = at /\ call' = call
          /\ seen'[t] = view.trace[TraceOf[e]]
          /\ Current(t)' = e
          /\ BreaksAt[e] # "project"
      BY DEF SelectTrace, TypeOK, Current, e
    <3> QED
      BY <1>1, <1>2, <2>1, <3>1 DEF CallOK, Locked
  <2>2. CASE u # t
    BY <1>1, <2>2, OthersUndisturbed DEF SelectTrace, TypeOK, CallInv
  <2> QED
    BY <2>1, <2>2
<1>7. UncommittedIsOwned' /\ ListedHaveTraces'
  BY <1>2, <1>3, OwnersHold, ListingsHold DEF SelectTrace
<1> QED
  BY <1>3, <1>4, <1>5, <1>6, <1>7 DEF SelectTrace

(* What a thread about to write knows, and what its write leaves. *)
LEMMA MergeFacts ==
  ASSUME IInv, NEW t \in Thread, pc[t] = "merging",
         NEW s \in Step \ {"project"},
         view' = WrittenUpTo(view, Current(t), seen[t], s),
         UNCHANGED <<disk, acked, published>>
  PROVE  /\ at[t] < Len(call[t])
         /\ Current(t) \in Event /\ Current(t) \in InBatch(t)
         /\ \A u \in Thread \ {t} : ~Locked(u)
         /\ view' \in Tables
         /\ StoreConsistent' /\ ViewExtendsDisk' /\ AckedDurable'
         /\ view.event \subseteq view'.event
         /\ view'.event \subseteq view.event \cup {Current(t)} /\ RowsStay
         /\ s = "never" => Current(t) \in view'.event
<1> USE DEF IInv
<1>1. CallOK(t)
  BY DEF CallInv
<1>2. /\ at[t] < Len(call[t])
      /\ Current(t) \in Event /\ Current(t) \in InBatch(t)
      /\ \A u \in Thread \ {t} : ~Locked(u)
      /\ seen[t] = view.trace[TraceOf[Current(t)]]
      /\ ProjectOf[Current(t)] \in view.project
  BY <1>1, CurrentIsEvent, Alone DEF CallOK, Locked
<1>3. /\ Extends(view, view', Current(t))
      /\ s = "never" => Current(t) \in view'.event
  BY <1>2, Written DEF TypeOK, StoreConsistent
<1>4. /\ view' \in Tables
      /\ StoreConsistent' /\ ViewExtendsDisk' /\ AckedDurable'
      /\ view.event \subseteq view'.event
      /\ view'.event \subseteq view.event \cup {Current(t)} /\ RowsStay
  BY <1>2, <1>3, ViewGrows
<1> QED
  BY <1>2, <1>3, <1>4

(* The writes of an event, from the row that was selected (db.py:182-260). *)
LEMMA WriteStep ==
  ASSUME IInv, NEW t \in Thread, WriteRows(t)
  PROVE  IInv'
<1> USE DEF IInv
<1>1. /\ at[t] < Len(call[t]) /\ pc[t] = "merging"
      /\ \A u \in Thread \ {t} : ~Locked(u)
      /\ view' \in Tables
      /\ StoreConsistent' /\ ViewExtendsDisk' /\ AckedDurable'
      /\ view.event \subseteq view'.event
      /\ Current(t) \in view'.event
      /\ view'.event \subseteq view.event \cup {Current(t)} /\ RowsStay
      /\ Current(t) \in InBatch(t)
  BY MergeFacts DEF WriteRows, Step
<1>2. TypeOK'
  BY <1>1 DEF WriteRows, TypeOK, Phase
<1>3. LockInv'
  BY DEF WriteRows, LockInv, Locked, TypeOK
<1>4. CallInv'
  <2> SUFFICES ASSUME NEW u \in Thread PROVE CallOK(u)'
    BY DEF CallInv
  <2>1. CASE u = t
    <3>1. CallOK(t) /\ Locked(t) /\ at[t] \in Nat /\ Len(call[t]) \in Nat
      BY <1>1 DEF CallInv, Locked, TypeOK
    <3>2. /\ pc'[t] = "ingesting" /\ at'[t] = at[t] + 1 /\ call' = call
      BY DEF WriteRows, TypeOK
    <3>3. \A i \in 1..(at[t] + 1) : call[t][i] \in view'.event
      <4> TAKE i \in 1..(at[t] + 1)
      <4>1. i \in 1..at[t] \/ i = at[t] + 1
        BY <3>1
      <4> QED
        BY <1>1, <3>1, <4>1 DEF CallOK, Current
    <3> QED
      BY <1>1, <2>1, <3>1, <3>2, <3>3 DEF CallOK, Locked
  <2>2. CASE u # t
    BY <1>1, <2>2, OthersUndisturbed DEF WriteRows, TypeOK, CallInv
  <2> QED
    BY <2>1, <2>2
<1>5. UncommittedIsOwned' /\ ListedHaveTraces'
  <2>1. lock = t /\ UNCHANGED <<lock, call, raised, disk>>
    BY <1>1, Alone DEF Locked, WriteRows
  <2>2. UncommittedIsOwned'
    BY <1>1, <2>1 DEF UncommittedIsOwned, InBatch
  <2> QED
    BY <1>1, <2>2, ListingsHold DEF WriteRows
<1> QED
  BY <1>1, <1>2, <1>3, <1>4, <1>5 DEF WriteRows

(* A call that raises leaves the lock, what it wrote and nothing else. *)
LEMMA RaiseStep ==
  ASSUME IInv, NEW t \in Thread, Locked(t), Raise(t),
         view' \in Tables, view.event \subseteq view'.event,
         view'.event \subseteq view.event \cup InBatch(t), RowsStay,
         StoreConsistent', ViewExtendsDisk', AckedDurable'
  PROVE  IInv'
<1> USE DEF IInv
<1>1. \A u \in Thread \ {t} : ~Locked(u)
  BY Alone
<1>2. InBatch(t) \subseteq Event
  BY DEF InBatch, TypeOK
<1>3. TypeOK'
  <2>1. <<>> \in Seq(Event)
    OBVIOUS
  <2> QED
    BY <1>2, <2>1 DEF Raise, Leave, TypeOK, Phase
<1>4. LockInv'
  BY <1>1, SentinelsApart DEF Raise, Leave, LockInv, Locked, TypeOK
<1>5. CallInv'
  <2> SUFFICES ASSUME NEW u \in Thread PROVE CallOK(u)'
    BY DEF CallInv
  <2>1. CASE u = t
    BY <2>1 DEF Raise, Leave, CallOK, Locked, TypeOK
  <2>2. CASE u # t
    BY <1>1, <2>2, OthersUndisturbed DEF Raise, Leave, TypeOK, CallInv
  <2> QED
    BY <2>1, <2>2
<1>6. UncommittedIsOwned' /\ ListedHaveTraces'
  <2>1. lock = t
    BY Alone
  <2>2. \A u \in Thread : lock = u => u = t
    BY <2>1
  <2>3. view'.event \ disk'.event \subseteq raised'
    BY <2>2 DEF Raise, UncommittedIsOwned
  <2> QED
    BY <2>3, ListingsHold DEF Raise, UncommittedIsOwned
<1> QED
  BY <1>3, <1>4, <1>5, <1>6 DEF Raise

(* One of an event's writes raises: a prefix of them is kept                *)
(* (db.py:182-260).                                                         *)
LEMMA WriteBreaksStep ==
  ASSUME IInv, NEW t \in Thread, WriteBreaks(t)
  PROVE  IInv'
<1>1. /\ Current(t) \in Event /\ BreaksAt[Current(t)] \in Step \ {"project"}
      /\ pc[t] = "merging"
  BY CurrentIsEvent, EventData DEF WriteBreaks, IInv, CallInv, CallOK
<1>2. /\ view' \in Tables /\ view.event \subseteq view'.event
      /\ view'.event \subseteq view.event \cup InBatch(t) /\ RowsStay
      /\ StoreConsistent' /\ ViewExtendsDisk' /\ AckedDurable'
  BY <1>1, MergeFacts DEF WriteBreaks, Raise
<1> QED
  BY <1>1, <1>2, RaiseStep DEF WriteBreaks, Locked

(* The first statement of an event raises (db.py:171-174). *)
LEMMA FirstBreaksStep ==
  ASSUME IInv, NEW t \in Thread, FirstBreaks(t)
  PROVE  IInv'
<1>1. /\ view' \in Tables /\ view.event \subseteq view'.event
      /\ view'.event \subseteq view.event \cup InBatch(t) /\ RowsStay
      /\ StoreConsistent' /\ ViewExtendsDisk' /\ AckedDurable'
  BY DEF FirstBreaks, Raise, IInv, TypeOK, StoreConsistent, ViewExtendsDisk, AckedDurable,
         RowsStay
<1> QED
  BY <1>1, RaiseStep DEF FirstBreaks, Locked

(* A commit makes the disk what the view is: the view extends itself. *)
LEMMA ViewExtendsView ==
  ASSUME TypeOK, disk' = view, view' = view
  PROVE  ViewExtendsDisk'
<1>1. \A tr \in Trace : view.trace[tr] # NoRow => Widens(view.trace[tr], view.trace[tr])
  BY WidensReflexive DEF TypeOK, Tables
<1> QED
  BY <1>1 DEF ViewExtendsDisk

(* The transaction is committed, with what earlier calls left in it         *)
(* (db.py:151).                                                             *)
LEMMA CommitStep ==
  ASSUME IInv, NEW t \in Thread, Commit(t)
  PROVE  IInv'
<1> USE DEF IInv
<1>1. /\ \A u \in Thread \ {t} : ~Locked(u)
      /\ CallOK(t) /\ Locked(t)
  BY Alone DEF Commit, Locked, CallInv
<1>2. InBatch(t) \subseteq Event /\ InBatch(t) \subseteq view.event
  <2>0. call[t] \in Seq(Event) /\ at[t] = Len(call[t])
    BY DEF Commit, TypeOK
  <2>1. call[t] \in Seq(Event) /\ DOMAIN call[t] = 1..at[t]
    BY <2>0
  <2>2. \A i \in 1..at[t] : call[t][i] \in view.event
    BY <1>1 DEF CallOK
  <2>3. \A i \in 1..at[t] : call[t][i] \in Event
    BY <2>0
  <2> QED
    BY <2>1, <2>2, <2>3 DEF InBatch
<1>3. TypeOK'
  BY <1>2 DEF Commit, TypeOK, Phase
<1>4. LockInv'
  BY <1>1, SentinelsApart DEF Commit, LockInv, Locked, TypeOK
<1>5. CallInv'
  <2> SUFFICES ASSUME NEW u \in Thread PROVE CallOK(u)'
    BY DEF CallInv
  <2>1. CASE u = t
    BY <1>1, <2>1 DEF Commit, CallOK, Locked, TypeOK, InBatch
  <2>2. CASE u # t
    BY <1>1, <2>2, OthersUndisturbed DEF Commit, TypeOK, CallInv
  <2> QED
    BY <2>1, <2>2
<1>6. ViewExtendsDisk'
  BY ViewExtendsView DEF Commit
<1>7. StoreConsistent'
  BY DEF Commit, StoreConsistent
<1>8. AckedDurable' /\ published' \subseteq acked'
  BY <1>2 DEF Commit, AckedDurable, ViewExtendsDisk
<1>9. UncommittedIsOwned' /\ ListedHaveTraces'
  BY ListingsHold DEF Commit, UncommittedIsOwned, RowsStay
<1> QED
  BY <1>3, <1>4, <1>5, <1>6, <1>7, <1>8, <1>9

(* An event is announced after the lock is released (db.py:152-155). *)
LEMMA PublishStep ==
  ASSUME IInv, NEW t \in Thread, Publish(t)
  PROVE  IInv'
<1> USE DEF IInv
<1>1. /\ Current(t) \in Event /\ Current(t) \in InBatch(t)
      /\ InBatch(t) \subseteq acked /\ CallOK(t)
      /\ at[t] \in Nat /\ Len(call[t]) \in Nat
  BY CurrentIsEvent DEF Publish, CallInv, CallOK, TypeOK
<1>2. TypeOK'
  BY <1>1 DEF Publish, TypeOK
<1>3. LockInv'
  BY DEF Publish, LockInv, Locked
<1>4. CallInv'
  <2> SUFFICES ASSUME NEW u \in Thread PROVE CallOK(u)'
    BY DEF CallInv
  <2>1. CASE u = t
    <3>1. at'[t] = at[t] + 1 /\ at[t] + 1 <= Len(call[t])
      BY <1>1 DEF Publish, TypeOK
    <3>2. pc' = pc /\ call' = call /\ pc[t] = "publishing" /\ acked' = acked
      BY DEF Publish
    <3> QED
      BY <1>1, <2>1, <3>1, <3>2 DEF CallOK, Locked, InBatch
  <2>2. CASE u # t
    BY <2>2 DEF Publish, CallOK, CallInv, Locked, TypeOK, InBatch, Current
  <2> QED
    BY <2>1, <2>2
<1>5. published' \subseteq acked'
  BY <1>1 DEF Publish
<1>6. ViewExtendsDisk' /\ StoreConsistent' /\ AckedDurable'
  BY <1>5 DEF Publish, ViewExtendsDisk, StoreConsistent, AckedDurable
<1>7. UncommittedIsOwned' /\ ListedHaveTraces'
  BY OwnersHold, ListingsHold DEF Publish, RowsStay
<1> QED
  BY <1>2, <1>3, <1>4, <1>5, <1>6, <1>7

(* The call returns the number of its events (db.py:158). *)
LEMMA ReturnStep ==
  ASSUME IInv, NEW t \in Thread, Return(t)
  PROVE  IInv'
<1> USE DEF IInv
<1>1. TypeOK'
  <2>1. <<>> \in Seq(Event)
    OBVIOUS
  <2> QED
    BY <2>1 DEF Return, Leave, TypeOK, Phase
<1>2. LockInv'
  BY DEF Return, Leave, LockInv, Locked, TypeOK
<1>3. CallInv'
  <2> SUFFICES ASSUME NEW u \in Thread PROVE CallOK(u)'
    BY DEF CallInv
  <2>1. CASE u = t
    <3>1. pc'[t] = "idle" /\ at'[t] = 0 /\ call'[t] = <<>> /\ Len(call'[t]) = 0
      BY DEF Return, Leave, TypeOK
    <3> QED
      BY <2>1, <3>1 DEF CallOK, Locked
  <2>2. CASE u # t
    <3>1. /\ pc'[u] = pc[u] /\ at'[u] = at[u] /\ call'[u] = call[u] /\ seen'[u] = seen[u]
          /\ view' = view /\ acked' = acked
      BY <2>2 DEF Return, Leave, TypeOK
    <3> QED
      BY <3>1 DEF CallOK, CallInv, Locked, InBatch, Current
  <2> QED
    BY <2>1, <2>2
<1>4. ViewExtendsDisk' /\ StoreConsistent' /\ AckedDurable'
  BY DEF Return, ViewExtendsDisk, StoreConsistent, AckedDurable
<1>5. UncommittedIsOwned' /\ ListedHaveTraces'
  <2>1. \A u \in Thread : lock = u => lock' = u /\ call'[u] = call[u]
    BY DEF Return, Leave, LockInv, Locked, TypeOK
  <2> QED
    BY <2>1, OwnersHold, ListingsHold DEF Return, RowsStay
<1> QED
  BY <1>1, <1>2, <1>3, <1>4, <1>5 DEF Return

(* Ground truth and scores: no event and no trace row changes, and nobody  *)
(* is inside the locked section.                                           *)
LEMMA OtherWriteStep ==
  ASSUME IInv, NEW tr \in Trace, NEW cs \in SUBSET Chunk,
         SetGroundTruth(tr, cs) \/ SetEvalScore(tr)
  PROVE  IInv'
<1> USE DEF IInv
<1>1. /\ view' \in Tables /\ disk' = view'
      /\ view'.event = view.event /\ view'.trace = view.trace
      /\ view'.project = view.project /\ view'.chunk = view.chunk /\ view'.hit = view.hit
      /\ calls' \in 0..MaxCalls /\ open' \in BOOLEAN
      /\ lock = NoThread
      /\ UNCHANGED <<lock, pc, call, at, seen, acked, raised, published, listed>>
  <2>1. \/ view' = [view EXCEPT !.truth[tr] = {cs}]
        \/ view' = [view EXCEPT !.score = @ \cup {tr}]
    BY DEF SetGroundTruth, SetEvalScore, WriteAndCommit
  <2>2. /\ disk' = view' /\ lock = NoThread /\ open' \in BOOLEAN
        /\ calls' = calls + 1 /\ calls < MaxCalls
        /\ UNCHANGED <<lock, pc, call, at, seen, acked, raised, published, listed>>
    BY DEF SetGroundTruth, SetEvalScore, WriteAndCommit
  <2>3. view \in Tables /\ calls' \in 0..MaxCalls
    BY <2>2, BatchesAssumption DEF TypeOK
  <2>4. ASSUME view' = [view EXCEPT !.truth[tr] = {cs}]
        PROVE  /\ view' \in Tables
               /\ view'.event = view.event /\ view'.trace = view.trace
               /\ view'.project = view.project /\ view'.chunk = view.chunk
               /\ view'.hit = view.hit
    BY <2>3, <2>4 DEF Tables
  <2>5. ASSUME view' = [view EXCEPT !.score = @ \cup {tr}]
        PROVE  /\ view' \in Tables
               /\ view'.event = view.event /\ view'.trace = view.trace
               /\ view'.project = view.project /\ view'.chunk = view.chunk
               /\ view'.hit = view.hit
    BY <2>3, <2>5 DEF Tables
  <2> QED
    BY <2>1, <2>2, <2>3, <2>4, <2>5
<1>2. \A u \in Thread : ~Locked(u)
  BY <1>1, SentinelsApart DEF LockInv
<1>3. TypeOK'
  BY <1>1 DEF TypeOK
<1>4. LockInv'
  BY <1>1, <1>2 DEF LockInv, Locked
<1>5. CallInv'
  BY <1>1, <1>2, OthersUndisturbed DEF CallInv
<1>6. StoreConsistent'
  BY <1>1 DEF StoreConsistent, Linked, Covers
<1>7. ViewExtendsDisk'
  <2>1. \A t \in Trace : view.trace[t] # NoRow => Widens(view.trace[t], view.trace[t])
    BY WidensReflexive DEF TypeOK, Tables
  <2> QED
    BY <1>1, <2>1 DEF ViewExtendsDisk
<1>8. AckedDurable' /\ published' \subseteq acked'
  BY <1>1 DEF AckedDurable, ViewExtendsDisk
<1>9. UncommittedIsOwned' /\ ListedHaveTraces'
  BY <1>1, ListingsHold DEF UncommittedIsOwned, RowsStay
<1> QED
  BY <1>3, <1>4, <1>5, <1>6, <1>7, <1>8, <1>9

(* A listing takes its rows from the view, whose events all have traces. *)
LEMMA ListStep ==
  ASSUME IInv, NEW t \in Thread, NEW p \in Project, ListGenerations(t, p)
  PROVE  IInv'
<1> USE DEF IInv
<1>1. /\ \A e \in listed'[t] : e \in view.event
      /\ \A u \in Thread \ {t} : listed'[u] = listed[u]
      /\ calls' \in 0..MaxCalls
  BY BatchesAssumption DEF ListGenerations, TypeOK
<1>2. TypeOK'
  BY <1>1 DEF ListGenerations, TypeOK, Tables, Phase
<1>3. LockInv'
  BY SentinelsApart DEF ListGenerations, LockInv, Locked, TypeOK
<1>4. CallInv'
  <2> SUFFICES ASSUME NEW u \in Thread PROVE CallOK(u)'
    BY DEF CallInv
  <2>0. CallOK(u)
    BY DEF CallInv
  <2>1. CASE u = t
    BY <2>0, <2>1 DEF ListGenerations, CallOK, TypeOK, Locked
  <2>2. CASE u # t
    BY <2>0, <2>2 DEF ListGenerations, CallOK, TypeOK, Locked, Current, InBatch
  <2> QED
    BY <2>1, <2>2
<1>5. ViewExtendsDisk' /\ StoreConsistent' /\ AckedDurable' /\ published' \subseteq acked'
  BY DEF ListGenerations, ViewExtendsDisk, StoreConsistent, AckedDurable
<1>6. UncommittedIsOwned'
  BY OwnersHold DEF ListGenerations
<1>7. ListedHaveTraces'
  BY <1>1 DEF ListGenerations, ListedHaveTraces, StoreConsistent, Linked
<1> QED
  BY <1>2, <1>3, <1>4, <1>5, <1>6, <1>7

(* The traces of a listing are read outside the lock (db.py:491-500). *)
LEMMA FillStep ==
  ASSUME IInv, NEW t \in Thread, FillQueries(t)
  PROVE  IInv'
<1> USE DEF IInv
<1>1. TypeOK'
  BY DEF FillQueries, TypeOK, Phase
<1>2. LockInv'
  BY DEF FillQueries, LockInv, Locked, TypeOK
<1>3. CallInv'
  <2> SUFFICES ASSUME NEW u \in Thread PROVE CallOK(u)'
    BY DEF CallInv
  <2>0. CallOK(u)
    BY DEF CallInv
  <2>1. CASE u = t
    <3>1. listed' = [listed EXCEPT ![t] = {}] /\ call' = call /\ at' = at /\ pc'[u] = "idle"
      BY <2>1 DEF FillQueries, TypeOK
    <3>2. at[u] = 0
      BY <2>0, <2>1 DEF FillQueries, CallOK
    <3> QED
      BY <2>0, <3>1, <3>2 DEF CallOK, Locked
  <2>2. CASE u # t
    BY <2>0, <2>2 DEF FillQueries, CallOK, TypeOK, Locked, Current, InBatch
  <2> QED
    BY <2>1, <2>2
<1>4. ViewExtendsDisk' /\ StoreConsistent' /\ AckedDurable' /\ published' \subseteq acked'
  BY DEF FillQueries, ViewExtendsDisk, StoreConsistent, AckedDurable
<1>5. UncommittedIsOwned' /\ ListedHaveTraces'
  <2>1. \A u \in Thread : listed'[u] \subseteq listed[u]
    BY DEF FillQueries, TypeOK
  <2> QED
    BY <2>1, OwnersHold DEF FillQueries, ListedHaveTraces
<1> QED
  BY <1>1, <1>2, <1>3, <1>4, <1>5

(* A ground truth or a score whose statement raises changes nothing         *)
(* (db.py:262-268).                                                         *)
LEMMA RefusedStep ==
  ASSUME IInv, WriteRefused
  PROVE  IInv'
<1> USE DEF IInv
<1>1. calls' \in 0..MaxCalls
  BY BatchesAssumption DEF WriteRefused, TypeOK
<1>2. TypeOK' /\ LockInv'
  BY <1>1 DEF WriteRefused, TypeOK, LockInv, Locked
<1>3. CallInv' /\ ViewExtendsDisk' /\ StoreConsistent' /\ AckedDurable'
  BY DEF WriteRefused, CallInv, CallOK, Locked, Current, InBatch, ViewExtendsDisk,
         StoreConsistent, AckedDurable
<1>4. UncommittedIsOwned' /\ ListedHaveTraces' /\ published' \subseteq acked'
  BY DEF WriteRefused, UncommittedIsOwned, InBatch, ListedHaveTraces
<1> QED
  BY <1>2, <1>3, <1>4

(* The process dies and starts again with what is on disk (db.py:123-138). *)
LEMMA CrashStep ==
  ASSUME IInv, Crash
  PROVE  IInv'
<1> USE DEF IInv
<1>1. TypeOK'
  <2>1. <<>> \in Seq(Event)
    OBVIOUS
  <2> QED
    BY <2>1 DEF Crash, TypeOK, Phase
<1>2. LockInv' /\ CallInv'
  BY SentinelsApart DEF Crash, LockInv, CallInv, CallOK, Locked
<1>3. ViewExtendsDisk'
  <2>1. \A t \in Trace : disk.trace[t] # NoRow => Widens(disk.trace[t], disk.trace[t])
    BY WidensReflexive DEF TypeOK, Tables
  <2> QED
    BY <2>1 DEF Crash, ViewExtendsDisk
<1>4. StoreConsistent' /\ AckedDurable' /\ published' \subseteq acked'
  BY DEF Crash, StoreConsistent, AckedDurable
<1>5. UncommittedIsOwned' /\ ListedHaveTraces'
  BY DEF Crash, UncommittedIsOwned, ListedHaveTraces
<1> QED
  BY <1>1, <1>2, <1>3, <1>4, <1>5

(* A step that changes nothing. *)
LEMMA StutterStep ==
  ASSUME IInv, UNCHANGED vars
  PROVE  IInv'
BY DEF IInv, vars, TypeOK, LockInv, CallInv, CallOK, Locked, Current, InBatch,
       ViewExtendsDisk, StoreConsistent, AckedDurable, UncommittedIsOwned, ListedHaveTraces

(* Each step that a call takes keeps the invariant (db.py:146-158,          *)
(* 472-500).                                                                *)
LEMMA ThreadStepInv ==
  ASSUME IInv, NEW t \in Thread, ThreadStep(t)
  PROVE  IInv'
BY AcquireStep, SelectStep, WriteStep, WriteBreaksStep, FirstBreaksStep,
   CommitStep, PublishStep, ReturnStep, FillStep DEF ThreadStep

(* IInv is inductive. *)
THEOREM Inductive == Spec => []IInv
<1>1. Init => IInv
  <2> SUFFICES ASSUME Init PROVE IInv
    OBVIOUS
  <2>1. EmptyTables \in Tables
    BY DEF EmptyTables, Tables
  <2>2. TypeOK
    <3>1. <<>> \in Seq(Event) /\ calls \in 0..MaxCalls
      BY BatchesAssumption DEF Init
    <3> QED
      BY <2>1, <3>1 DEF Init, TypeOK, Phase
  <2>3. LockInv /\ CallInv
    BY SentinelsApart DEF Init, LockInv, CallInv, CallOK, Locked
  <2>4. ViewExtendsDisk /\ StoreConsistent /\ AckedDurable
    BY DEF Init, EmptyTables, ViewExtendsDisk, StoreConsistent, Linked, Covers, AckedDurable
  <2>5. UncommittedIsOwned /\ ListedHaveTraces
    BY DEF Init, EmptyTables, UncommittedIsOwned, ListedHaveTraces
  <2> QED
    BY <2>2, <2>3, <2>4, <2>5 DEF Init, IInv
<1>2. IInv /\ [Next]_vars => IInv'
  BY CallStep, ListStep, ThreadStepInv, OtherWriteStep, RefusedStep, CrashStep, StutterStep DEF Next
<1> QED
  BY <1>1, <1>2, PTL DEF Spec

(* Every variable keeps its type. *)
THEOREM TypeCorrect == Spec => []TypeOK
<1>1. IInv => TypeOK
  BY DEF IInv
<1> QED
  BY <1>1, Inductive, PTL

(* Whatever statement raises in whichever batch, whoever commits the rest  *)
(* of it and whenever the process dies: every row refers to rows that      *)
(* exist and every trace row covers its events.                            *)
THEOREM Consistent == Spec => []StoreConsistent
<1>1. IInv => StoreConsistent
  BY DEF IInv
<1> QED
  BY <1>1, Inductive, PTL

(* What ingest_events acknowledged or announced survives every crash. *)
THEOREM AckedSurvives == Spec => []AckedDurable
<1>1. IInv => AckedDurable
  BY DEF IInv
<1> QED
  BY <1>1, Inductive, PTL

(* What is not committed belongs to the call that holds the lock or to one *)
(* that raised, whatever interleaves and whatever raises.                  *)
THEOREM UncommittedOwned == Spec => []UncommittedIsOwned
<1>1. IInv => UncommittedIsOwned
  BY DEF IInv
<1> QED
  BY <1>1, Inductive, PTL

(* A listing, which reads without the lock, finds the trace of each of its *)
(* generations.                                                            *)
THEOREM ListingsFindTraces == Spec => []ListedHaveTraces
<1>1. IInv => ListedHaveTraces
  BY DEF IInv
<1> QED
  BY <1>1, Inductive, PTL

(* What an invariant step does to the committed tables: nothing, or it     *)
(* makes them the view, up to ground truth and scores.                     *)
LEMMA DiskChanges ==
  ASSUME IInv, [Next]_vars
  PROVE  disk'.trace = disk.trace \/ disk'.trace = view.trace
<1>1. ASSUME NEW tr \in Trace, NEW cs \in SUBSET Chunk,
             SetGroundTruth(tr, cs) \/ SetEvalScore(tr)
      PROVE  disk'.trace = view.trace
  BY <1>1 DEF SetGroundTruth, SetEvalScore, WriteAndCommit, IInv, TypeOK, Tables
<1>2. ASSUME NEW t \in Thread, ThreadStep(t)
      PROVE  disk' = disk \/ disk' = view
  BY <1>2 DEF ThreadStep, Acquire, SelectTrace, WriteRows, WriteBreaks, FirstBreaks, Raise,
              Commit, Publish, Return, FillQueries
<1>3. ASSUME NEW t \in Thread,
             (\E b \in Batches : Call(t, b)) \/ (\E p \in Project : ListGenerations(t, p))
      PROVE  disk' = disk
  BY <1>3 DEF Call, ListGenerations
<1>4. WriteRefused \/ Crash \/ UNCHANGED vars => disk' = disk
  BY DEF WriteRefused, Crash, vars
<1> QED
  <2>1. ASSUME NEW tr \in Trace, SetEvalScore(tr)
        PROVE  disk'.trace = view.trace
    BY <1>1, <2>1, {} \in SUBSET Chunk
  <2> QED
    BY <1>1, <1>2, <1>3, <1>4, <2>1 DEF Next

(* A committed trace row is never lost, narrowed, moved to another project *)
(* or cleared of its error.                                                *)
THEOREM TraceRowsWiden == Spec => TraceRowsOnlyWiden
<1>1. ASSUME IInv, [Next]_vars, NEW tr \in Trace, disk.trace[tr] # NoRow
      PROVE  Widens(disk.trace[tr], disk'.trace[tr])
  <2>1. disk.trace[tr] \in Row
    BY <1>1 DEF IInv, TypeOK, Tables
  <2>2. Widens(disk.trace[tr], disk.trace[tr])
    BY <2>1, WidensReflexive
  <2>3. Widens(disk.trace[tr], view.trace[tr])
    BY <1>1 DEF IInv, ViewExtendsDisk
  <2> QED
    BY <1>1, <2>2, <2>3, DiskChanges
<1>2. IInv /\ [Next]_vars =>
        [\A tr \in Trace : disk.trace[tr] # NoRow => Widens(disk.trace[tr], disk'.trace[tr])]_vars
  BY <1>1
<1> QED
  BY <1>2, Inductive, PTL DEF Spec, TraceRowsOnlyWiden

------------------------------------------------------------------------------
(* The fan-out store. *)

Sent(t) == Members(sent[t])

(* How far each call has come: between the backends the SQLite store's     *)
(* part is over, and the files of the events before the current one are    *)
(* whole unless the event was sent again.                                  *)
LegOK(t) ==
  /\ leg[t] = "truth" <=> relevant[t] # NoTrace
  /\ leg[t] \in {"none", "truth"} => sent[t] = <<>>
  /\ leg[t] # "files" => filed[t] = 0 /\ ~opened[t] /\ ~took[t]
  /\ leg[t] = "sqlite" => call[t] = sent[t] /\ pc[t] \notin {"idle", "listing"}
  /\ leg[t] # "sqlite" => pc[t] \in {"idle", "listing"}
  /\ filed[t] <= Len(sent[t])
  /\ opened[t] => filed[t] < Len(sent[t])
  /\ leg[t] = "files" => Sent(t) \subseteq acked \cup raised
  /\ took[t] => Sent(t) \subseteq acked
  /\ \A i \in 1..filed[t] :
       \/ file[sent[t][i]] = "whole"
       \/ sent[t][i] \in again
       \/ opened[t] /\ sent[t][i] = Unfiled(t)

(* What the histories say of the events that are in a call. *)
Accounts ==
  /\ \A t \in Thread : Sent(t) \subseteq logged
  /\ again \subseteq logged /\ counted \subseteq logged
  /\ \A t, u \in Thread : t # u => Sent(t) \cap Sent(u) \subseteq again
  /\ \A t \in Thread : counted \cap Sent(t) \subseteq again
  /\ EachBackendAccounts

Writes(t, tr) == relevant[t] # NoTrace /\ relevant[t][1] = tr

(* While one call writes the ground truth of a trace, the database has it  *)
(* already; no ground truth is ever uncommitted.                           *)
Truths ==
  /\ view.truth = disk.truth
  /\ \A tr \in Trace \ apart : \A t \in Thread : Writes(t, tr) =>
       /\ disk.truth[tr] = {relevant[t][2]}
       /\ \A u \in Thread : Writes(u, tr) => u = t
  /\ TruthsAgree

(* The inductive invariant, given the SQLite store's own. *)
FanInv == FanTypeOK /\ (\A t \in Thread : LegOK(t)) /\ Accounts /\ Truths

(* Every step of the composition is one of the SQLite store's, or leaves   *)
(* it alone (stores.py:807-840).                                           *)
LEMMA FanSteps == [FanNext]_allvars => [Next]_vars
<1> SUFFICES ASSUME [FanNext]_allvars PROVE [Next]_vars
  OBVIOUS
<1>1. ASSUME NEW t \in Thread, NEW b \in Batches, FanCall(t, b) PROVE [Next]_vars
  BY <1>1 DEF FanCall, Next
<1>2. ASSUME NEW t \in Thread, NEW tr \in Trace, NEW cs \in SUBSET Chunk, FanTruth(t, tr, cs)
      PROVE  [Next]_vars
  BY <1>2 DEF FanTruth, Next
<1>3. ASSUME NEW t \in Thread, FanThreadStep(t) PROVE [Next]_vars
  <2>1. CASE SqliteLeg(t)
    BY <2>1 DEF SqliteLeg, Next
  <2>2. CASE OpenFile(t) \/ WriteFile(t) \/ FilingFails(t) \/ FilingEnds(t) \/ TruthFiled(t)
    BY <2>2 DEF OpenFile, WriteFile, FilingFails, FilingEnds, EndCall, TruthFiled
  <2> QED
    BY <1>3, <2>1, <2>2 DEF FanThreadStep
<1>4. ASSUME NEW t \in Thread, Read(t) PROVE [Next]_vars
  BY <1>4 DEF Read, EndListing, ThreadStep, Next
<1>5. ASSUME NEW tr \in Trace, Score(tr) PROVE [Next]_vars
  BY <1>5 DEF Score, Next
<1>6. CASE FanCrash
  BY <1>6 DEF FanCrash, Next
<1>7. CASE UNCHANGED allvars
  BY <1>7 DEF allvars
<1> QED
  BY <1>1, <1>2, <1>3, <1>4, <1>5, <1>6, <1>7 DEF FanNext

(* A fan-out store behaves towards its SQLite store as any callers do, and *)
(* so inherits every theorem of it (stores.py:789-840).                    *)
THEOREM FanImplementsStore == FanSpec => Spec
<1>1. FanInit => Init
  BY DEF FanInit
<1> QED
  BY <1>1, FanSteps, PTL DEF FanSpec, Spec

(* Whatever becomes of the files, the tables stay linked and cover their   *)
(* events, and acknowledged or announced events survive (db.py:123-158).   *)
THEOREM FanStoreSafe == FanSpec => [](TypeOK /\ StoreConsistent /\ AckedDurable)
<1> QED
  BY FanImplementsStore, TypeCorrect, Consistent, AckedSurvives, PTL

------------------------------------------------------------------------------
(* What steps of the SQLite store do to what the other backend relies on.  *)

(* No step takes back an acknowledgement, a failure or a committed event   *)
(* (db.py:146-151).                                                        *)
LEMMA StoreGrows ==
  ASSUME IInv, [Next]_vars
  PROVE  /\ acked \subseteq acked' /\ raised \subseteq raised'
         /\ disk.event \subseteq disk'.event
<1> USE DEF IInv, ViewExtendsDisk, TypeOK, Tables
<1>1. ASSUME NEW tr \in Trace, NEW cs \in SUBSET Chunk, SetGroundTruth(tr, cs) PROVE
        acked' = acked /\ raised' = raised /\ disk'.event = view.event
  BY <1>1 DEF SetGroundTruth, WriteAndCommit
<1>2. ASSUME NEW tr \in Trace, SetEvalScore(tr) PROVE
        acked' = acked /\ raised' = raised /\ disk'.event = view.event
  BY <1>2 DEF SetEvalScore, WriteAndCommit
<1>3. ASSUME NEW t \in Thread, ThreadStep(t) PROVE
        /\ acked \subseteq acked' /\ raised \subseteq raised'
        /\ disk' = disk \/ disk' = view
  BY <1>3 DEF ThreadStep, Acquire, SelectTrace, WriteRows, WriteBreaks, FirstBreaks, Raise,
              Commit, Publish, Return, FillQueries
<1>4. ASSUME NEW t \in Thread,
             (\E b \in Batches : Call(t, b)) \/ (\E p \in Project : ListGenerations(t, p))
      PROVE  acked' = acked /\ raised' = raised /\ disk' = disk
  BY <1>4 DEF Call, ListGenerations
<1>5. WriteRefused \/ Crash \/ UNCHANGED vars =>
        acked' = acked /\ raised' = raised /\ disk' = disk
  BY DEF WriteRefused, Crash, vars
<1> QED
  BY <1>1, <1>2, <1>3, <1>4, <1>5 DEF Next

(* The part of a call in the SQLite store stays what it was given to do    *)
(* until it ends, having acknowledged the batch or raised.                 *)
LEMMA SqlitePart ==
  ASSUME IInv, NEW t \in Thread, ThreadStep(t), pc[t] \notin {"idle", "listing"}
  PROVE  /\ \A u \in Thread \ {t} : pc'[u] = pc[u] /\ call'[u] = call[u]
         /\ pc'[t] # "idle" => call'[t] = call[t] /\ pc'[t] # "listing"
         /\ pc'[t] = "idle" /\ pc[t] = "publishing" => InBatch(t) \subseteq acked'
         /\ pc'[t] = "idle" /\ pc[t] # "publishing" => InBatch(t) \subseteq raised'
<1> USE DEF IInv, TypeOK, CallInv, CallOK
<1>1. CASE Acquire(t) \/ SelectTrace(t) \/ WriteRows(t) \/ Commit(t)
  BY <1>1 DEF Acquire, SelectTrace, WriteRows, Commit
<1>2. CASE WriteBreaks(t) \/ FirstBreaks(t)
  BY <1>2 DEF WriteBreaks, FirstBreaks, Raise, Leave
<1>3. CASE Publish(t)
  BY <1>3 DEF Publish
<1>4. CASE Return(t)
  BY <1>4 DEF Return, Leave
<1>5. ~FillQueries(t)
  BY DEF FillQueries
<1> QED
  BY <1>1, <1>2, <1>3, <1>4, <1>5 DEF ThreadStep

(* No statement of _ingest_one touches a ground truth. *)
LEMMA WrittenTruth ==
  ASSUME NEW db \in Tables, NEW e \in Event, NEW row \in Row \cup {NoRow},
         NEW s \in Step \ {"project"},
         NEW new, new = WrittenUpTo(db, e, row, s)
  PROVE  new.truth = db.truth
<1>1. ASSUME NEW d \in Tables, NEW n, n = WithTrace(d, e, row)
      PROVE  n \in Tables /\ n.truth = d.truth
  BY <1>1, RowTyped, EventData DEF WithTrace, Tables
<1>2. ASSUME NEW d \in Tables, NEW n, n = WithEvent(d, e)
      PROVE  n \in Tables /\ n.truth = d.truth
  BY <1>2 DEF WithEvent, Tables
<1>3. ASSUME NEW d \in Tables, NEW n, n = WithChunks(d, e)
      PROVE  n.truth = d.truth
  BY <1>3 DEF WithChunks, Tables
<1> DEFINE withTrace == WithTrace(db, e, row)
           withEvent == WithEvent(withTrace, e)
<1>4. withTrace \in Tables /\ withTrace.truth = db.truth
  BY <1>1
<1>5. withEvent \in Tables /\ withEvent.truth = db.truth
  BY <1>2, <1>4
<1>6. WithChunks(withEvent, e).truth = db.truth
  BY <1>3, <1>5
<1>7. new \in {db, withTrace, withEvent, WithChunks(withEvent, e)}
  BY DEF WrittenUpTo, Step
<1> QED
  BY <1>4, <1>5, <1>6, <1>7

(* So no step of ingest_events does, neither in the view nor on the disk   *)
(* (db.py:146-214).                                                        *)
LEMMA TruthKept ==
  ASSUME IInv, view.truth = disk.truth, NEW t \in Thread, ThreadStep(t)
  PROVE  view'.truth = view.truth /\ disk'.truth = disk.truth
<1> USE DEF IInv, TypeOK
<1>1. CASE SelectTrace(t)
  <2>1. view' = WithProject(view, Current(t)) /\ disk' = disk
    BY <1>1 DEF SelectTrace
  <2>2. ASSUME NEW n, n = WithProject(view, Current(t)) PROVE n.truth = view.truth
    BY <2>2 DEF WithProject, Tables
  <2> QED
    BY <2>1, <2>2
<1>2. CASE WriteRows(t) \/ WriteBreaks(t)
  <2>1. pc[t] = "merging" /\ seen[t] \in Row \cup {NoRow} /\ disk' = disk
    BY <1>2 DEF WriteRows, WriteBreaks, Raise
  <2>2. Current(t) \in Event /\ BreaksAt[Current(t)] \in Step \ {"project"}
    BY <2>1, CurrentIsEvent, EventData DEF CallInv, CallOK
  <2>3. PICK s \in Step \ {"project"} : view' = WrittenUpTo(view, Current(t), seen[t], s)
    BY <1>2, <2>2 DEF WriteRows, WriteBreaks, Step
  <2>4. view \in Tables
    OBVIOUS
  <2> HIDE DEF IInv, TypeOK
  <2>5. view'.truth = view.truth
    BY <2>1, <2>2, <2>3, <2>4, WrittenTruth
  <2> QED
    BY <2>1, <2>5
<1>3. CASE Acquire(t) \/ FirstBreaks(t) \/ Commit(t) \/ Publish(t) \/ Return(t) \/ FillQueries(t)
  BY <1>3 DEF Acquire, FirstBreaks, Raise, Commit, Publish, Return, FillQueries
<1> QED
  BY <1>1, <1>2, <1>3 DEF ThreadStep

------------------------------------------------------------------------------
(* The types. *)

(* What a call was given, and what it has still to file, are events.       *)
LEMMA MembersAreEvents ==
  ASSUME NEW s \in Seq(Event)
  PROVE  Members(s) \subseteq Event
BY DEF Members

(* The event that is filed next is one of the call's (stores.py:129-140).  *)
LEMMA UnfiledIsSent ==
  ASSUME FanTypeOK, NEW t \in Thread, filed[t] < Len(sent[t])
  PROVE  /\ filed[t] + 1 \in 1..Len(sent[t]) /\ filed[t] + 1 \in DOMAIN sent[t]
         /\ Unfiled(t) \in Sent(t) /\ Unfiled(t) \in Event
<1>1. sent[t] \in Seq(Event) /\ filed[t] \in Nat /\ file \in [Event -> {"absent", "torn", "whole"}]
  BY DEF FanTypeOK
<1>2. filed[t] + 1 \in 1..Len(sent[t])
  BY <1>1
<1> QED
  BY <1>1, <1>2 DEF Unfiled, Members, Sent

(* Every step of the composition keeps the types (stores.py:807-840).      *)
LEMMA FanTypes ==
  ASSUME FanTypeOK, \A t \in Thread : LegOK(t), [FanNext]_allvars, TypeOK'
  PROVE  FanTypeOK'
<1> USE DEF FanTypeOK
<1>1. ASSUME NEW t \in Thread, NEW b \in Batches, FanCall(t, b) PROVE FanTypeOK'
  BY <1>1, MembersAreEvents, BatchesAssumption DEF FanCall
<1>2. ASSUME NEW t \in Thread, NEW tr \in Trace, NEW cs \in SUBSET Chunk, FanTruth(t, tr, cs)
      PROVE  FanTypeOK'
  BY <1>2 DEF FanTruth
<1>3. ASSUME NEW t \in Thread, SqliteLeg(t) PROVE FanTypeOK'
  BY <1>3 DEF SqliteLeg
<1>4. ASSUME NEW t \in Thread, OpenFile(t) \/ WriteFile(t) PROVE FanTypeOK'
  <2>1. filed[t] + 1 \in Nat
    OBVIOUS
  <2>2. file' \in [Event -> {"absent", "torn", "whole"}]
    BY <1>4 DEF OpenFile, WriteFile
  <2>3. filed' \in [Thread -> Nat]
    <3>1. CASE OpenFile(t)
      BY <3>1 DEF OpenFile
    <3>2. CASE WriteFile(t)
      BY <2>1, <3>2 DEF WriteFile
    <3> QED
      BY <1>4, <3>1, <3>2
  <2>4. opened' \in [Thread -> BOOLEAN]
    BY <1>4 DEF OpenFile, WriteFile
  <2> QED
    BY <1>4, <2>2, <2>3, <2>4 DEF OpenFile, WriteFile
<1>5. ASSUME NEW t \in Thread, FilingFails(t) PROVE FanTypeOK'
  <2>1. {sent[t][i] : i \in (filed[t] + 1)..Len(sent[t])} \subseteq Event
    BY <1>5 DEF FilingFails
  <2>2. Members(sent[t]) \subseteq Event
    BY MembersAreEvents
  <2> QED
    BY <1>5, <2>1, <2>2 DEF FilingFails, EndCall
<1>6. ASSUME NEW t \in Thread, FilingEnds(t) PROVE FanTypeOK'
  BY <1>6, MembersAreEvents DEF FilingEnds, EndCall
<1>7. ASSUME NEW t \in Thread, TruthFiled(t) PROVE FanTypeOK'
  <2>1. relevant[t][1] \in Trace /\ relevant[t][2] \in SUBSET Chunk
    BY <1>7 DEF TruthFiled, LegOK
  <2>2. truthFile[relevant[t][1]] \in SUBSET SUBSET Chunk
    BY <2>1
  <2>3. PICK earlier \in SUBSET SUBSET Chunk :
            truthFile' \in {truthFile,
              [truthFile EXCEPT ![relevant[t][1]] = earlier \cup {relevant[t][2]}]}
    BY <1>7, <2>2 DEF TruthFiled
  <2>4. earlier \cup {relevant[t][2]} \in SUBSET SUBSET Chunk
    BY <2>1
  <2>5. truthFile' \in [Trace -> SUBSET SUBSET Chunk]
    BY <2>3, <2>4
  <2>6. apart' \in SUBSET Trace
    BY <1>7, <2>1 DEF TruthFiled
  <2>7. leg' \in [Thread -> {"none", "sqlite", "files", "truth"}]
    BY <1>7 DEF TruthFiled
  <2>8. relevant' \in [Thread -> (Trace \X SUBSET Chunk) \cup {NoTrace}]
    BY <1>7 DEF TruthFiled
  <2> QED
    BY <1>7, <2>5, <2>6, <2>7, <2>8 DEF TruthFiled
<1>8. ASSUME NEW t \in Thread, Read(t) PROVE FanTypeOK'
  BY <1>8 DEF Read, EndListing, fanvars
<1>9. ASSUME NEW tr \in Trace, Score(tr) PROVE FanTypeOK'
  BY <1>9 DEF Score, fanvars
<1>10. CASE FanCrash
  <2>1. UNION {Members(sent[t]) : t \in Thread} \subseteq Event
    BY MembersAreEvents
  <2> QED
    BY <1>10, <2>1 DEF FanCrash
<1>11. CASE UNCHANGED allvars
  BY <1>11 DEF allvars, fanvars
<1> QED
  BY <1>1, <1>2, <1>3, <1>4, <1>5, <1>6, <1>7, <1>8, <1>9, <1>10, <1>11
     DEF FanNext, FanThreadStep

------------------------------------------------------------------------------
(* The progress of each call. *)

(* A call whose own variables a step leaves alone has come as far as       *)
(* before, if only files of events that are sent twice changed.            *)
LEMMA LegKept ==
  ASSUME FanTypeOK, NEW t \in Thread, LegOK(t),
         leg'[t] = leg[t], sent'[t] = sent[t], filed'[t] = filed[t],
         opened'[t] = opened[t], took'[t] = took[t], relevant'[t] = relevant[t],
         pc'[t] = pc[t], call'[t] = call[t],
         acked \subseteq acked', raised \subseteq raised', again \subseteq again',
         \A e \in Sent(t) : file'[e] = file[e] \/ e \in again'
  PROVE  LegOK(t)'
<1>1. sent[t] \in Seq(Event) /\ filed[t] \in Nat
  BY DEF FanTypeOK
<1>2. Sent(t)' = Sent(t) /\ Unfiled(t)' = Unfiled(t)
  BY DEF Sent, Unfiled, Members
<1>3. ASSUME NEW i \in 1..filed[t]
      PROVE  file'[sent[t][i]] = "whole" \/ sent[t][i] \in again'
               \/ (opened[t] /\ sent[t][i] = Unfiled(t))
  <2>1. i \in DOMAIN sent[t]
    BY <1>1 DEF LegOK
  <2>2. sent[t][i] \in Sent(t)
    BY <2>1 DEF Sent, Members
  <2> QED
    BY <2>2 DEF LegOK
<1> QED
  BY <1>2, <1>3 DEF LegOK

(* Every step keeps what is known of how far each call has come: the       *)
(* backends are called one after the other (stores.py:807-814).            *)
LEMMA LegStep ==
  ASSUME IInv, FanInv, [FanNext]_allvars
  PROVE  \A u \in Thread : LegOK(u)'
<1> SUFFICES ASSUME NEW u \in Thread PROVE LegOK(u)'
  OBVIOUS
<1> DEFINE T == FanTypeOK /\ LegOK(u)
<1>0. T /\ acked \subseteq acked' /\ raised \subseteq raised'
  BY FanSteps, StoreGrows DEF FanInv
<1>t. /\ pc \in [Thread -> Phase] /\ call \in [Thread -> Seq(Event)]
      /\ leg \in [Thread -> {"none", "sqlite", "files", "truth"}]
      /\ sent \in [Thread -> Seq(Event)] /\ filed \in [Thread -> Nat]
      /\ opened \in [Thread -> BOOLEAN] /\ took \in [Thread -> BOOLEAN]
      /\ file \in [Event -> {"absent", "torn", "whole"}]
      /\ relevant \in [Thread -> (Trace \X SUBSET Chunk) \cup {NoTrace}]
  BY <1>0 DEF FanTypeOK, TypeOK
<1>1. ASSUME NEW t \in Thread, NEW b \in Batches, FanCall(t, b) PROVE LegOK(u)'
  <2>1. CASE u = t
    BY <1>1, <1>0, <1>t, <2>1, BatchesAssumption DEF FanCall, Call, LegOK
  <2>2. CASE u # t
    BY <1>1, <1>0, <1>t, <2>2, LegKept DEF FanCall, Call
  <2> QED
    BY <2>1, <2>2
<1>2. ASSUME NEW t \in Thread, NEW tr \in Trace, NEW cs \in SUBSET Chunk, FanTruth(t, tr, cs)
      PROVE  LegOK(u)'
  <2>0. pc' = pc /\ call' = call
    BY <1>2 DEF FanTruth, SetGroundTruth, WriteAndCommit, WriteRefused
  <2>1. CASE u = t
    <3>1. relevant'[t] # NoTrace /\ leg'[t] = "truth" /\ leg[t] = "none" /\ pc[t] = "idle"
      BY <1>2, <1>t DEF FanTruth, NoTrace
    <3>2. sent' = sent /\ filed' = filed /\ opened' = opened /\ took' = took
      BY <1>2 DEF FanTruth
    <3> QED
      BY <1>0, <1>t, <2>0, <2>1, <3>1, <3>2 DEF LegOK
  <2>2. CASE u # t
    BY <1>2, <1>0, <1>t, <2>0, <2>2, LegKept DEF FanTruth
  <2> QED
    BY <2>1, <2>2
<1>3. ASSUME NEW t \in Thread, SqliteLeg(t) PROVE LegOK(u)'
  <2>0. pc[t] \notin {"idle", "listing"} /\ ThreadStep(t) /\ call[t] = sent[t]
    BY <1>3 DEF SqliteLeg, LegOK, FanInv
  <2>1. CASE u = t
    <3>1. Sent(u)' = Sent(u) /\ InBatch(t) = Sent(t)
      BY <1>3, <2>0 DEF SqliteLeg, Sent, Members, InBatch
    <3>2. leg[t] = "sqlite" /\ sent' = sent /\ filed' = filed /\ opened' = opened /\ relevant' = relevant
      BY <1>3 DEF SqliteLeg
    <3>3. filed[t] = 0 /\ ~opened[t] /\ ~took[t] /\ relevant[t] = NoTrace
      BY <1>0, <2>1, <3>2 DEF LegOK
    <3>4. CASE pc'[t] = "idle"
      <4>1. leg'[t] = "files" /\ (took'[t] => pc[t] = "publishing")
        BY <1>3, <1>t, <3>4 DEF SqliteLeg
      <4>2. took'[t] => Sent(t) \subseteq acked'
        BY <2>0, <3>1, <3>4, <4>1, SqlitePart
      <4>3. Sent(t) \subseteq acked' \cup raised'
        BY <2>0, <3>1, <3>4, SqlitePart
      <4> QED
        BY <1>t, <2>1, <3>1, <3>2, <3>3, <3>4, <4>1, <4>2, <4>3 DEF LegOK
    <3>5. CASE pc'[t] # "idle"
      <4>1. leg' = leg /\ took' = took
        BY <1>3, <3>5 DEF SqliteLeg
      <4>2. call'[t] = sent[t] /\ pc'[t] # "listing"
        BY <2>0, <3>5, SqlitePart
      <4> QED
        BY <1>t, <2>1, <3>1, <3>2, <3>3, <3>5, <4>1, <4>2 DEF LegOK
    <3> QED
      BY <3>4, <3>5
  <2>2. CASE u # t
    <3>1. pc'[u] = pc[u] /\ call'[u] = call[u]
      BY <2>0, <2>2, SqlitePart
    <3> QED
      BY <1>3, <1>0, <1>t, <2>2, <3>1, LegKept DEF SqliteLeg
  <2> QED
    BY <2>1, <2>2
<1>4. ASSUME NEW t \in Thread, OpenFile(t) \/ WriteFile(t) PROVE LegOK(u)'
  <2>0. /\ vars' = vars /\ leg' = leg /\ sent' = sent /\ took' = took
        /\ relevant' = relevant /\ again' = again
        /\ leg[t] = "files" /\ filed[t] < Len(sent[t])
    BY <1>4 DEF OpenFile, WriteFile, FanInv, LegOK
  <2>1. Unfiled(t) \in Sent(t) /\ Unfiled(t) \in Event
    BY <1>0, <2>0, UnfiledIsSent
  <2>2. \A e \in Event : e # Unfiled(t) => file'[e] = file[e]
    BY <1>4, <1>t, <2>1 DEF OpenFile, WriteFile
  <2>3. CASE u # t
    <3>1. \A e \in Sent(u) : file'[e] = file[e] \/ e \in again'
      <4>1. Sent(u) \subseteq Event
        BY <1>t, MembersAreEvents DEF Sent
      <4>2. Sent(u) \cap Sent(t) \subseteq again
        BY <2>3 DEF FanInv, Accounts
      <4> QED
        BY <2>0, <2>1, <2>2, <4>1, <4>2
    <3>2. filed'[u] = filed[u] /\ opened'[u] = opened[u]
      BY <1>4, <1>t, <2>3 DEF OpenFile, WriteFile
    <3> QED
      BY <1>0, <1>t, <2>0, <3>1, <3>2, LegKept DEF vars
  <2>4. CASE u = t
    <3>0. Sent(u)' = Sent(u) /\ pc' = pc /\ call' = call /\ acked' = acked /\ raised' = raised
      BY <2>0 DEF vars, Sent, Members
    <3>1. ASSUME NEW i \in 1..filed[t]
          PROVE  sent[t][i] \in Event
      BY <1>t, <2>0
    <3>2. CASE OpenFile(t)
      <4>1. filed' = filed /\ opened'[t]
        BY <1>t, <3>2 DEF OpenFile
      <4>2. Unfiled(t)' = Unfiled(t)
        BY <2>0, <4>1 DEF Unfiled
      <4> QED
        BY <1>0, <1>t, <2>0, <2>2, <2>4, <3>0, <3>1, <4>1, <4>2 DEF LegOK
    <3>3. CASE WriteFile(t)
      <4>1. filed'[t] = filed[t] + 1 /\ ~opened'[t]
        BY <1>t, <3>3 DEF WriteFile
      <4>2. file'[Unfiled(t)] = "whole" /\ Unfiled(t) = sent[t][filed[t] + 1]
        BY <1>t, <2>1, <3>3 DEF WriteFile, Unfiled
      <4>3. \A i \in 1..filed'[t] : i \in 1..filed[t] \/ i = filed[t] + 1
        BY <1>t, <4>1
      <4>4. ASSUME NEW i \in 1..filed[t]
            PROVE  file'[sent[t][i]] = "whole" \/ sent[t][i] \in again'
        BY <1>0, <2>0, <2>2, <2>4, <3>1, <4>2 DEF LegOK
      <4>5. filed'[t] <= Len(sent[t])
        BY <1>t, <2>0, <4>1
      <4> QED
        BY <1>0, <2>0, <2>4, <3>0, <4>1, <4>2, <4>3, <4>4, <4>5 DEF LegOK
    <3> QED
      BY <1>4, <3>2, <3>3
  <2> QED
    BY <2>3, <2>4
<1>5. ASSUME NEW t \in Thread, FilingFails(t) \/ FilingEnds(t) PROVE LegOK(u)'
  <2>0. /\ EndCall(t) /\ leg[t] = "files" /\ pc' = pc /\ call' = call
        /\ file' = file /\ again' = again /\ relevant' = relevant
    BY <1>5 DEF FilingFails, FilingEnds, EndCall, vars
  <2>1. CASE u = t
    BY <1>0, <1>t, <2>0, <2>1 DEF EndCall, LegOK
  <2>2. CASE u # t
    BY <1>0, <1>t, <2>0, <2>2, LegKept DEF EndCall
  <2> QED
    BY <2>1, <2>2
<1>6. ASSUME NEW t \in Thread, TruthFiled(t) PROVE LegOK(u)'
  <2>0. /\ leg[t] = "truth" /\ pc' = pc /\ call' = call /\ file' = file /\ again' = again
        /\ sent' = sent /\ filed' = filed /\ opened' = opened /\ took' = took
        /\ leg' = [leg EXCEPT ![t] = "none"] /\ relevant' = [relevant EXCEPT ![t] = NoTrace]
    BY <1>6 DEF TruthFiled, vars
  <2>1. CASE u = t
    BY <1>0, <1>t, <2>0, <2>1 DEF LegOK
  <2>2. CASE u # t
    BY <1>0, <1>t, <2>0, <2>2, LegKept
  <2> QED
    BY <2>1, <2>2
<1>7. ASSUME NEW t \in Thread, Read(t) PROVE LegOK(u)'
  <2>0. UNCHANGED fanvars /\ leg[t] = "none" /\ call' = call
    BY <1>7 DEF Read, EndListing, FillQueries, ListGenerations
  <2>1. CASE u = t
    <3>1. pc'[t] \in {"idle", "listing"}
      BY <1>7, <1>t DEF Read, EndListing, FillQueries, ListGenerations
    <3>2. sent' = sent /\ leg' = leg /\ filed' = filed /\ opened' = opened /\ took' = took
            /\ relevant' = relevant
      BY <2>0 DEF fanvars
    <3> QED
      BY <1>0, <1>t, <2>0, <2>1, <3>1, <3>2 DEF LegOK
  <2>2. CASE u # t
    <3>1. pc'[u] = pc[u]
      BY <1>7, <1>t, <2>2 DEF Read, EndListing, FillQueries, ListGenerations
    <3> QED
      BY <1>0, <2>0, <3>1, LegKept DEF fanvars
  <2> QED
    BY <2>1, <2>2
<1>8. ASSUME NEW tr \in Trace, Score(tr) PROVE LegOK(u)'
  <2>1. UNCHANGED fanvars /\ pc' = pc /\ call' = call
    BY <1>8 DEF Score, SetEvalScore, WriteAndCommit, WriteRefused
  <2> QED
    BY <1>0, <2>1, LegKept DEF fanvars
<1>9. CASE FanCrash
  BY <1>9 DEF FanCrash, Crash, LegOK
<1>10. CASE UNCHANGED allvars
  BY <1>10, <1>0, LegKept DEF allvars, fanvars, vars
<1> QED
  BY <1>1, <1>2, <1>3, <1>4, <1>5, <1>6, <1>7, <1>8, <1>9, <1>10 DEF FanNext, FanThreadStep

------------------------------------------------------------------------------
(* What the histories say. *)

(* Steps that neither call, file nor end a call keep the accounts: what    *)
(* was acknowledged, raised or committed remains so.                       *)
LEMMA AccountsKept ==
  ASSUME Accounts, sent' = sent, logged' = logged, again' = again, counted' = counted,
         unfiled' = unfiled, file' = file,
         acked \subseteq acked', raised \subseteq raised', disk.event \subseteq disk'.event
  PROVE  Accounts'
<1>1. (\A t \in Thread : Sent(t)' = Sent(t)) /\ \A t \in Thread : Members(sent[t])' = Members(sent[t])
  BY DEF Sent, Members
<1> QED
  BY <1>1 DEF Accounts, EachBackendAccounts, Sent

(* Every step keeps the accounts: an event leaves a call filed, announced  *)
(* as unfiled, or sent again (stores.py:129-140, 807-814).                 *)
LEMMA AccountsStep ==
  ASSUME IInv, FanInv, [FanNext]_allvars
  PROVE  Accounts'
<1>0. /\ FanTypeOK /\ Accounts /\ EachBackendAccounts /\ AckedDurable
      /\ acked \subseteq acked' /\ raised \subseteq raised' /\ disk.event \subseteq disk'.event
  BY FanSteps, StoreGrows DEF FanInv, Accounts, IInv
<1>t. /\ sent \in [Thread -> Seq(Event)] /\ filed \in [Thread -> Nat]
      /\ file \in [Event -> {"absent", "torn", "whole"}]
      /\ \A t \in Thread : Sent(t) = Members(sent[t]) /\ Sent(t) \subseteq Event
  BY <1>0, MembersAreEvents DEF FanTypeOK, Sent
<1>1. ASSUME NEW t \in Thread, NEW b \in Batches, FanCall(t, b) PROVE Accounts'
  <2>1. Sent(t)' = Members(b) /\ \A u \in Thread \ {t} : Sent(u)' = Sent(u)
    BY <1>1, <1>t DEF FanCall, Sent, Members
  <2>2. Sent(t) = {}
    BY <1>1 DEF FanCall, FanInv, LegOK, Sent, Members
  <2>3. /\ logged' = logged \cup Members(b)
        /\ again' = again \cup (logged \cap Members(b))
        /\ counted' = counted /\ unfiled' = unfiled /\ file' = file
    BY <1>1 DEF FanCall
  <2>4. /\ \A u \in Thread : Sent(u)' \subseteq logged'
        /\ again' \subseteq logged' /\ counted' \subseteq logged'
    BY <1>0, <2>1, <2>3 DEF Accounts
  <2>5. \A u, v \in Thread : u # v => Sent(u)' \cap Sent(v)' \subseteq again'
    BY <1>0, <2>1, <2>3 DEF Accounts
  <2>6. \A u \in Thread : counted' \cap Sent(u)' \subseteq again'
    BY <1>0, <2>1, <2>3 DEF Accounts
  <2>7. logged' \ UNION {Sent(u)' : u \in Thread} \subseteq logged \ UNION {Sent(u) : u \in Thread}
    BY <2>1, <2>2, <2>3
  <2>8. EachBackendAccounts'
    BY <1>0, <2>3, <2>7 DEF EachBackendAccounts, Sent
  <2> QED
    BY <2>4, <2>5, <2>6, <2>8 DEF Accounts
<1>2. ASSUME NEW t \in Thread, OpenFile(t) \/ WriteFile(t) PROVE Accounts'
  <2>0. /\ sent' = sent /\ logged' = logged /\ again' = again /\ counted' = counted
        /\ unfiled' = unfiled /\ filed[t] < Len(sent[t])
    BY <1>2 DEF OpenFile, WriteFile, FanInv, LegOK
  <2>1. Unfiled(t) \in Sent(t)
    BY <1>0, <2>0, UnfiledIsSent
  <2>2. \A e \in Event : e # Unfiled(t) => file'[e] = file[e]
    BY <1>2, <1>t, <2>1 DEF OpenFile, WriteFile
  <2>3. \A u \in Thread : Sent(u)' = Sent(u)
    BY <2>0 DEF Sent, Members
  <2>4. {e \in Event : file[e] = "whole"} \ Sent(t) \subseteq {e \in Event : file'[e] = "whole"}
    BY <2>1, <2>2
  <2>5. counted \cap Sent(t) \subseteq again
    BY <1>0 DEF Accounts
  <2>6. EachBackendAccounts'
    BY <1>0, <2>0, <2>3, <2>4, <2>5 DEF EachBackendAccounts, Sent
  <2> QED
    BY <1>0, <2>0, <2>3, <2>6 DEF Accounts
<1>3. ASSUME NEW t \in Thread, FilingFails(t) \/ FilingEnds(t) PROVE Accounts'
  <2>0. /\ EndCall(t) /\ leg[t] = "files" /\ LegOK(t) /\ Sent(t) = Members(sent[t])
        /\ file' = file /\ logged' = logged /\ again' = again
        /\ acked' = acked /\ raised' = raised /\ disk' = disk
    BY <1>3 DEF FilingFails, FilingEnds, EndCall, vars, FanInv, Sent
  <2>1. Sent(t)' = {} /\ \A u \in Thread \ {t} : Sent(u)' = Sent(u)
    BY <1>t, <2>0 DEF EndCall, Sent, Members
  <2>2. unfiled \subseteq unfiled' /\ counted' \subseteq counted \cup Sent(t)
    BY <1>3, <1>t DEF FilingFails, FilingEnds
  <2>3. logged' \ UNION {Sent(u)' : u \in Thread}
          \subseteq (logged \ UNION {Sent(u) : u \in Thread}) \cup Sent(t)
    BY <2>0, <2>1
  <2>4. Sent(t) \ again \subseteq {e \in Event : file[e] = "whole"} \cup unfiled'
    <3> SUFFICES ASSUME NEW i \in DOMAIN sent[t], sent[t][i] \notin again,
                        file[sent[t][i]] # "whole"
                 PROVE  sent[t][i] \in unfiled'
      BY <1>t, <2>0 DEF Members
    <3>1. i \in 1..Len(sent[t]) /\ Len(sent[t]) \in Nat /\ filed[t] \in Nat
      BY <1>t
    <3>2. CASE FilingFails(t)
      <4>1. CASE i > filed[t]
        <5>1. i \in (filed[t] + 1)..Len(sent[t])
          BY <3>1, <4>1
        <5> QED
          BY <3>2, <5>1 DEF FilingFails
      <4>2. CASE i <= filed[t]
        <5>1. i \in 1..filed[t]
          BY <3>1, <4>2
        <5>2. sent[t][i] = Unfiled(t)
          BY <2>0, <5>1 DEF LegOK
        <5>3. filed[t] + 1 \in (filed[t] + 1)..Len(sent[t])
          BY <3>1, <3>2 DEF FilingFails
        <5> QED
          BY <3>2, <5>2, <5>3 DEF FilingFails, Unfiled
      <4> QED
        BY <3>1, <4>1, <4>2
    <3>3. CASE FilingEnds(t)
      <4>1. i \in 1..filed[t]
        BY <3>1, <3>3 DEF FilingEnds
      <4>2. ~opened[t]
        BY <3>1, <3>3, <2>0 DEF FilingEnds, LegOK
      <4> QED
        BY <2>0, <4>1, <4>2 DEF LegOK
    <3> QED
      BY <1>3, <3>2, <3>3
  <2>5. Sent(t) \subseteq acked \cup raised
    BY <2>0 DEF LegOK
  <2>6. counted' \ again \subseteq disk.event \cup {e \in Event : file[e] = "whole"}
    <3>1. CASE FilingFails(t)
      <4>1. took[t] => Sent(t) \subseteq disk.event
        BY <1>0, <2>0 DEF LegOK, AckedDurable
      <4>2. counted' \subseteq counted \cup (IF took[t] THEN Sent(t) ELSE {})
        BY <2>0, <3>1 DEF FilingFails
      <4> QED
        BY <1>0, <4>1, <4>2 DEF EachBackendAccounts
    <3>2. CASE FilingEnds(t)
      <4>1. unfiled' = unfiled /\ Len(sent[t]) \in Nat
        BY <1>t, <3>2 DEF FilingEnds
      <4>2. \A i \in DOMAIN sent[t] : file[sent[t][i]] = "whole" \/ sent[t][i] \in again
        BY <1>t, <2>0, <3>2, <4>1 DEF FilingEnds, LegOK
      <4>3. Sent(t) \ again \subseteq {e \in Event : file[e] = "whole"}
        BY <1>t, <2>0, <4>2 DEF Members
      <4> QED
        BY <1>0, <2>2, <4>3 DEF EachBackendAccounts
    <3> QED
      BY <1>3, <3>1, <3>2
  <2>7. EachBackendAccounts'
    <3>1. logged' \ UNION {Members(sent[u])' : u \in Thread}
            \subseteq (logged \ UNION {Members(sent[u]) : u \in Thread}) \cup Sent(t)
      BY <2>3 DEF Sent
    <3> QED
      BY <1>0, <2>0, <2>2, <2>4, <2>5, <2>6, <3>1 DEF EachBackendAccounts
  <2>8. /\ \A u \in Thread : Sent(u)' \subseteq logged'
        /\ again' \subseteq logged' /\ counted' \subseteq logged'
    BY <1>0, <2>0, <2>1, <2>2 DEF Accounts
  <2>9. /\ \A u, v \in Thread : u # v => Sent(u)' \cap Sent(v)' \subseteq again'
        /\ \A u \in Thread : counted' \cap Sent(u)' \subseteq again'
    BY <1>0, <2>0, <2>1, <2>2 DEF Accounts
  <2> QED
    BY <2>7, <2>8, <2>9 DEF Accounts
<1>4. CASE FanCrash
  <2>1. /\ \A u \in Thread : Sent(u)' = {} /\ Members(sent[u])' = {}
        /\ unfiled' = unfiled \cup UNION {Members(sent[u]) : u \in Thread}
        /\ file' = file /\ logged' = logged /\ again' = again /\ counted' = counted
    BY <1>4 DEF FanCrash, Sent, Members
  <2>2. EachBackendAccounts'
    BY <1>0, <2>1 DEF EachBackendAccounts
  <2> QED
    BY <1>0, <2>1, <2>2 DEF Accounts
<1>5. ASSUME NEW t \in Thread, TruthFiled(t) \/ SqliteLeg(t) \/ Read(t) PROVE Accounts'
  BY <1>5, <1>0, AccountsKept DEF TruthFiled, SqliteLeg, Read, EndListing, fanvars
<1>6. ASSUME NEW t \in Thread, NEW tr \in Trace, NEW cs \in SUBSET Chunk, FanTruth(t, tr, cs)
      PROVE  Accounts'
  BY <1>6, <1>0, AccountsKept DEF FanTruth
<1>7. ASSUME NEW tr \in Trace, Score(tr) PROVE Accounts'
  BY <1>7, <1>0, AccountsKept DEF Score, fanvars
<1>8. CASE UNCHANGED allvars
  BY <1>8, <1>0, AccountsKept DEF allvars, fanvars
<1> QED
  BY <1>1, <1>2, <1>3, <1>4, <1>5, <1>6, <1>7, <1>8 DEF FanNext, FanThreadStep

------------------------------------------------------------------------------
(* The ground truths. *)

(* Steps that touch no ground truth keep what is known of them.            *)
LEMMA TruthsKept ==
  ASSUME Truths, view'.truth = view.truth, disk'.truth = disk.truth,
         truthFile' = truthFile, relevant' = relevant, apart' = apart
  PROVE  Truths'
BY DEF Truths, TruthsAgree, Writes

(* Every step keeps the ground truths together: the database's comes       *)
(* first, and a call that is not disturbed files the same (stores.py:      *)
(* 142-153, 816-821).                                                      *)
LEMMA TruthsStep ==
  ASSUME IInv, FanInv, [FanNext]_allvars
  PROVE  Truths'
<1>0. /\ FanTypeOK /\ Truths /\ TruthsAgree /\ view.truth = disk.truth
      /\ view \in Tables /\ disk \in Tables
  BY DEF FanInv, Truths, IInv, TypeOK
<1>t. /\ relevant \in [Thread -> (Trace \X SUBSET Chunk) \cup {NoTrace}]
      /\ truthFile \in [Trace -> SUBSET SUBSET Chunk]
  BY <1>0 DEF FanTypeOK
<1>1. ASSUME NEW t \in Thread, NEW tr \in Trace, NEW cs \in SUBSET Chunk, FanTruth(t, tr, cs)
      PROVE  Truths'
  <2>1. /\ relevant' = [relevant EXCEPT ![t] = <<tr, cs>>] /\ truthFile' = truthFile
        /\ relevant[t] = NoTrace
        /\ \A u \in Thread : leg[u] = "truth" <=> relevant[u] # NoTrace
    BY <1>1 DEF FanTruth, FanInv, LegOK
  <2>2. relevant'[t] = <<tr, cs>> /\ \A u \in Thread \ {t} : relevant'[u] = relevant[u]
    BY <1>t, <2>1
  <2>3. <<tr, cs>> # NoTrace /\ <<tr, cs>>[1] = tr /\ <<tr, cs>>[2] = cs
    BY DEF NoTrace
  <2>4. /\ Writes(t, tr)' /\ \A x \in Trace \ {tr} : ~Writes(t, x)'
        /\ \A x \in Trace : \A u \in Thread \ {t} : Writes(u, x)' = Writes(u, x)
    BY <2>2, <2>3 DEF Writes
  <2>5. CASE SetGroundTruth(tr, cs) /\ apart' = apart \cup {x \in {tr} :
               \E u \in Thread : leg[u] = "truth" /\ relevant[u][1] = tr}
    <3>1. view'.truth = [view.truth EXCEPT ![tr] = {cs}] /\ disk'.truth = view'.truth
      BY <1>0, <2>5 DEF SetGroundTruth, WriteAndCommit, Tables
    <3>2. /\ disk'.truth[tr] = {cs}
          /\ \A x \in Trace \ {tr} : disk'.truth[x] = disk.truth[x]
      BY <1>0, <3>1 DEF Tables
    <3>3. tr \notin apart' => \A u \in Thread : ~Writes(u, tr)
      BY <2>1, <2>5 DEF Writes
    <3>4. \A x \in Trace \ apart' : \A u \in Thread : Writes(u, x)' =>
            /\ disk'.truth[x] = {relevant'[u][2]}
            /\ \A v \in Thread : Writes(v, x)' => v = u
      <4> SUFFICES ASSUME NEW x \in Trace \ apart', NEW u \in Thread, Writes(u, x)'
                   PROVE  /\ disk'.truth[x] = {relevant'[u][2]}
                          /\ \A v \in Thread : Writes(v, x)' => v = u
        OBVIOUS
      <4>1. CASE x = tr
        <5>1. u = t /\ \A v \in Thread : Writes(v, x)' => v = t
          BY <2>4, <3>3, <4>1
        <5> QED
          BY <2>2, <2>3, <3>2, <4>1, <5>1
      <4>2. CASE x # tr
        <5>1. u # t /\ x \notin apart /\ Writes(u, x)
          BY <2>4, <2>5, <4>2
        <5>2. disk.truth[x] = {relevant[u][2]} /\ \A v \in Thread : Writes(v, x) => v = u
          BY <1>0, <5>1 DEF Truths
        <5> QED
          BY <2>2, <2>4, <3>2, <4>2, <5>1, <5>2
      <4> QED
        BY <4>1, <4>2
    <3>5. TruthsAgree'
      <4> SUFFICES ASSUME NEW x \in Trace \ apart',
                          \A u \in Thread : relevant'[u] # NoTrace => relevant'[u][1] # x
                   PROVE  /\ disk'.truth[x] \subseteq truthFile'[x]
                          /\ disk'.truth[x] = {} => truthFile'[x] = {}
        BY DEF TruthsAgree
      <4>1. x # tr
        BY <2>2, <2>3
      <4>2. \A u \in Thread : relevant[u] # NoTrace => relevant[u][1] # x
        BY <2>1, <2>2
      <4> QED
        BY <1>0, <2>1, <2>5, <3>2, <4>1, <4>2 DEF TruthsAgree
    <3> QED
      BY <3>1, <3>4, <3>5 DEF Truths
  <2>6. CASE WriteRefused /\ apart' = apart \cup {tr}
    <3>1. view' = view /\ disk' = disk
      BY <2>6 DEF WriteRefused
    <3>2. \A x \in Trace \ apart' : x \notin apart /\ x # tr
      BY <2>6
    <3>3. \A x \in Trace \ apart' : \A u \in Thread : Writes(u, x)' => u # t /\ Writes(u, x)
      BY <2>4, <3>2
    <3>4. \A x \in Trace \ apart' : \A u \in Thread : Writes(u, x)' =>
            /\ disk'.truth[x] = {relevant'[u][2]}
            /\ \A v \in Thread : Writes(v, x)' => v = u
      BY <1>0, <2>2, <3>1, <3>2, <3>3 DEF Truths
    <3>5. TruthsAgree'
      <4> SUFFICES ASSUME NEW x \in Trace \ apart',
                          \A u \in Thread : relevant'[u] # NoTrace => relevant'[u][1] # x
                   PROVE  /\ disk'.truth[x] \subseteq truthFile'[x]
                          /\ disk'.truth[x] = {} => truthFile'[x] = {}
        BY DEF TruthsAgree
      <4>1. \A u \in Thread : relevant[u] # NoTrace => relevant[u][1] # x
        BY <2>1, <2>2
      <4> QED
        BY <1>0, <2>1, <3>1, <3>2, <4>1 DEF TruthsAgree
    <3> QED
      BY <1>0, <3>1, <3>4, <3>5 DEF Truths
  <2> QED
    BY <1>1, <2>5, <2>6 DEF FanTruth
<1>2. ASSUME NEW t \in Thread, TruthFiled(t) PROVE Truths'
  <2>1. /\ relevant' = [relevant EXCEPT ![t] = NoTrace] /\ view' = view /\ disk' = disk
        /\ relevant[t] \in Trace \X SUBSET Chunk
    BY <1>2, <1>t DEF TruthFiled, vars, FanInv, LegOK
  <2> DEFINE tr == relevant[t][1]
  <2>2. tr \in Trace /\ apart \subseteq apart'
    BY <1>2, <2>1 DEF TruthFiled
  <2>3. relevant'[t] = NoTrace /\ \A u \in Thread \ {t} : relevant'[u] = relevant[u]
    BY <1>t, <2>1
  <2>4. \A x \in Trace : \A u \in Thread : Writes(u, x)' => u # t /\ Writes(u, x)
    BY <2>3 DEF Writes
  <2>5. \A x \in Trace \ apart' : \A u \in Thread : Writes(u, x)' =>
          /\ disk'.truth[x] = {relevant'[u][2]}
          /\ \A v \in Thread : Writes(v, x)' => v = u
    BY <1>0, <2>1, <2>2, <2>3, <2>4 DEF Truths
  <2>6. \A x \in Trace \ {tr} : truthFile'[x] = truthFile[x]
    BY <1>2, <1>t, <2>2 DEF TruthFiled
  <2>7. TruthsAgree'
    <3> SUFFICES ASSUME NEW x \in Trace \ apart',
                        \A u \in Thread : relevant'[u] # NoTrace => relevant'[u][1] # x
                 PROVE  /\ disk'.truth[x] \subseteq truthFile'[x]
                        /\ disk'.truth[x] = {} => truthFile'[x] = {}
      BY DEF TruthsAgree
    <3>1. CASE x = tr
      <4>1. relevant[t][2] \in truthFile'[tr]
        BY <1>2, <1>t, <2>2, <3>1 DEF TruthFiled
      <4>2. Writes(t, tr) /\ tr \notin apart
        BY <2>1, <2>2, <3>1 DEF Writes, NoTrace
      <4>3. disk.truth[tr] = {relevant[t][2]}
        BY <1>0, <2>2, <4>2 DEF Truths
      <4> QED
        BY <2>1, <3>1, <4>1, <4>3
    <3>2. CASE x # tr
      <4>1. \A u \in Thread : relevant[u] # NoTrace => relevant[u][1] # x
        BY <2>3, <3>2
      <4> QED
        BY <1>0, <2>1, <2>2, <2>6, <3>2, <4>1 DEF TruthsAgree
    <3> QED
      BY <3>1, <3>2
  <2> QED
    BY <1>0, <2>1, <2>5, <2>7 DEF Truths
<1>3. CASE FanCrash
  <2>1. /\ view' = disk /\ disk' = disk /\ truthFile' = truthFile
        /\ \A u \in Thread : relevant'[u] = NoTrace
        /\ apart' = apart \cup {x \in Trace : \E u \in Thread :
                                  leg[u] = "truth" /\ relevant[u][1] = x}
    BY <1>3 DEF FanCrash, Crash
  <2>2. \A x \in Trace \ apart' : x \notin apart /\
          \A u \in Thread : relevant[u] # NoTrace => relevant[u][1] # x
    BY <2>1 DEF FanInv, LegOK
  <2>3. TruthsAgree'
    BY <1>0, <2>1, <2>2 DEF TruthsAgree
  <2> QED
    BY <1>0, <2>1, <2>3 DEF Truths, Writes
<1>4. ASSUME NEW t \in Thread, SqliteLeg(t) \/ Read(t) PROVE Truths'
  <2>1. CASE ThreadStep(t)
    <3>1. view'.truth = view.truth /\ disk'.truth = disk.truth
      BY <1>0, <2>1, TruthKept
    <3> QED
      BY <1>4, <1>0, <3>1, TruthsKept DEF SqliteLeg, Read, EndListing, fanvars
  <2>2. ASSUME NEW p \in Project, ListGenerations(t, p), UNCHANGED fanvars PROVE Truths'
    BY <2>2, <1>0, TruthsKept DEF ListGenerations, fanvars
  <2> QED
    BY <1>4, <2>1, <2>2 DEF SqliteLeg, Read, EndListing, ThreadStep
<1>5. ASSUME NEW tr \in Trace, Score(tr) PROVE Truths'
  <2>1. view'.truth = view.truth /\ disk'.truth = disk.truth
    BY <1>5, <1>0 DEF Score, SetEvalScore, WriteAndCommit, WriteRefused, Tables
  <2> QED
    BY <1>5, <1>0, <2>1, TruthsKept DEF Score, fanvars
<1>6. ASSUME NEW t \in Thread, NEW b \in Batches, FanCall(t, b) PROVE Truths'
  BY <1>6, <1>0, TruthsKept DEF FanCall, Call
<1>7. ASSUME NEW t \in Thread,
             OpenFile(t) \/ WriteFile(t) \/ FilingFails(t) \/ FilingEnds(t)
      PROVE  Truths'
  <2>1. UNCHANGED <<vars, truthFile, relevant, apart>>
    BY <1>7 DEF OpenFile, WriteFile, FilingFails, FilingEnds, EndCall
  <2> QED
    BY <1>0, <2>1, TruthsKept DEF vars
<1>8. CASE UNCHANGED allvars
  BY <1>8, <1>0, TruthsKept DEF allvars, fanvars, vars
<1> QED
  BY <1>1, <1>2, <1>3, <1>4, <1>5, <1>6, <1>7, <1>8 DEF FanNext, FanThreadStep

------------------------------------------------------------------------------

(* The invariant of the composition holds, by that of the SQLite store in  *)
(* it (stores.py:789-840).                                                 *)
THEOREM FanInductive == FanSpec => []FanInv
<1>1. FanInit => FanInv
  <2> SUFFICES ASSUME FanInit PROVE FanInv
    OBVIOUS
  <2>1. TypeOK /\ Init
    <3>1. EmptyTables \in Tables /\ calls \in 0..MaxCalls /\ <<>> \in Seq(Event)
      BY BatchesAssumption DEF EmptyTables, Tables, FanInit, Init
    <3> QED
      BY <3>1 DEF FanInit, Init, TypeOK, Phase
  <2>2. \A t \in Thread : Members(sent[t]) = {} /\ sent[t] = <<>> /\ relevant[t] = NoTrace
    BY DEF FanInit, Members
  <2>3. FanTypeOK
    BY <2>1 DEF FanInit, FanTypeOK
  <2>4. \A t \in Thread : LegOK(t)
    BY <2>1, <2>2 DEF FanInit, Init, LegOK, Sent
  <2>5. Accounts
    BY <2>2 DEF FanInit, Accounts, Sent, EachBackendAccounts
  <2>6. Truths
    BY <2>1, <2>2 DEF FanInit, Init, Truths, TruthsAgree, Writes, EmptyTables
  <2> QED
    BY <2>3, <2>4, <2>5, <2>6 DEF FanInv
<1>2. IInv /\ IInv' /\ FanInv /\ [FanNext]_allvars => FanInv'
  <2>1. IInv => TypeOK
    BY DEF IInv
  <2>2. IInv' => TypeOK'
    BY DEF IInv
  <2> QED
    BY <2>2, FanTypes, LegStep, AccountsStep, TruthsStep DEF FanInv
<1>3. FanSpec => []IInv
  BY FanImplementsStore, Inductive, PTL
<1> QED
  BY <1>1, <1>2, <1>3, PTL DEF FanSpec

(* Every variable of the composition keeps its type. *)
THEOREM FanTypeCorrect == FanSpec => []FanTypeOK
<1>1. FanInv => FanTypeOK
  BY DEF FanInv
<1> QED
  BY <1>1, FanInductive, PTL

(* Whichever backend fails, at whichever event, and whenever the process   *)
(* dies: each one has the events of the calls it did not fail, and a call  *)
(* that counts events has them somewhere (stores.py:807-814).              *)
THEOREM BackendsAccount == FanSpec => []EachBackendAccounts
<1>1. FanInv => EachBackendAccounts
  BY DEF FanInv, Accounts
<1> QED
  BY <1>1, FanInductive, PTL

(* Database and files hold the same ground truth of a trace, but for calls *)
(* that overlapped, failed or died (stores.py:816-821).                    *)
THEOREM GroundTruthsAgree == FanSpec => []TruthsAgree
<1>1. FanInv => TruthsAgree
  BY DEF FanInv, Truths
<1> QED
  BY <1>1, FanInductive, PTL
==============================================================================
