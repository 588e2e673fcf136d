----------------------------- MODULE SqliteStore -----------------------------
(***************************************************************************)
(* The SQLite store of the tracking server and of the local client         *)
(* (server/db.py, class Store): one connection shared by every thread of   *)
(* the process, guarded by one lock.                                       *)
(*                                                                         *)
(* The connection is in Python's default transaction mode: the first       *)
(* write opens a transaction and only commit() ends it.  view is what the  *)
(* connection sees, disk is what is committed; an exception in the middle  *)
(* of ingest_events releases the lock but neither commits nor rolls back.  *)
(* Events are batched, and each of the statements of _ingest_one may be    *)
(* the one that raises.                                                    *)
(***************************************************************************)
EXTENDS Integers, FiniteSets, Sequences

CONSTANTS Thread,     \* threads that use the store
          NoThread,   \* nobody holds the lock
          Trace, Project, Event, Chunk, Query,
          NoQuery,    \* the event or the row carries no query
          NoRow,      \* there is no row for the trace
          TraceOf,    \* [Event -> Trace]
          ProjectOf,  \* [Event -> Project]
          QueryOf,    \* [Event -> Query \cup {NoQuery}]
          StartOf,    \* [Event -> Int], the start time
          EndOf,      \* [Event -> Int], the end time
          Failed,     \* events whose status is "error"
          HitsOf,     \* [Event -> SUBSET Chunk], the chunks the event lists
          BreaksAt,   \* [Event -> Step], the statement that raises, if one does
          Batches,    \* the batches callers may pass to ingest_events
          MaxCalls    \* bound: calls

Step == {"project", "trace", "event", "chunks", "never"}

ASSUME EventData ==
  /\ TraceOf \in [Event -> Trace]
  /\ ProjectOf \in [Event -> Project]
  /\ QueryOf \in [Event -> Query \cup {NoQuery}]
  /\ StartOf \in [Event -> Int]
  /\ EndOf \in [Event -> Int]
  /\ Failed \subseteq Event
  /\ HitsOf \in [Event -> SUBSET Chunk]
  /\ BreaksAt \in [Event -> Step]
ASSUME SentinelsApart == NoQuery \notin Query /\ NoThread \notin Thread
ASSUME BatchesAssumption == Batches \subseteq Seq(Event) /\ MaxCalls \in Nat

Status == {"ok", "error"}
Row == [project : Project, query : Query \cup {NoQuery}, start : Int, end : Int,
        status : Status]
ASSUME NoRowAssumption == NoRow \notin Row

VARIABLES disk,       \* the committed tables
          view,       \* the tables as the connection sees them
          open,       \* the connection has written and not committed
          lock,       \* the thread that holds _lock, if any
          pc,         \* what each thread does
          call,       \* the batch each thread was called with
          at,         \* how many events of it are ingested, then published
          seen,       \* the trace row each thread selected and will update
          listed,     \* the generations each thread read and is completing
          acked,      \* events of a call whose commit returned
          raised,     \* events of a call that raised
          published,  \* events handed to bus.publish
          calls       \* calls so far

vars == <<disk, view, open, lock, pc, call, at, seen, listed, acked, raised,
          published, calls>>

Tables == [project : SUBSET Project,
           trace   : [Trace -> Row \cup {NoRow}],
           event   : SUBSET Event,
           chunk   : SUBSET (Project \X Chunk),
           hit     : [Event -> Nat],            \* how often its hits were inserted
           truth   : [Trace -> SUBSET SUBSET Chunk],   \* {} or {the relevant chunks}
           score   : SUBSET Trace]              \* traces with an evaluation score

Phase == {"idle", "waiting", "ingesting", "merging", "publishing", "listing"}

TypeOK ==
  /\ disk \in Tables
  /\ view \in Tables
  /\ open \in BOOLEAN
  /\ lock \in Thread \cup {NoThread}
  /\ pc \in [Thread -> Phase]
  /\ call \in [Thread -> Seq(Event)]
  /\ at \in [Thread -> Nat]
  /\ seen \in [Thread -> Row \cup {NoRow}]
  /\ listed \in [Thread -> SUBSET Event]
  /\ acked \in SUBSET Event
  /\ raised \in SUBSET Event
  /\ published \in SUBSET Event
  /\ calls \in 0..MaxCalls

EmptyTables ==
  [project |-> {}, trace |-> [t \in Trace |-> NoRow], event |-> {}, chunk |-> {},
   hit |-> [e \in Event |-> 0], truth |-> [t \in Trace |-> {}], score |-> {}]

(* __init__: the schema is created and committed. *)
Init ==
  /\ disk = EmptyTables
  /\ view = EmptyTables
  /\ open = FALSE
  /\ lock = NoThread
  /\ pc = [t \in Thread |-> "idle"]
  /\ call = [t \in Thread |-> <<>>]
  /\ at = [t \in Thread |-> 0]
  /\ seen = [t \in Thread |-> NoRow]
  /\ listed = [t \in Thread |-> {}]
  /\ acked = {}
  /\ raised = {}
  /\ published = {}
  /\ calls = 0

------------------------------------------------------------------------------
(* The statements of _ingest_one, as functions of the tables. *)

(* INSERT OR IGNORE INTO projects *)
WithProject(db, e) == [db EXCEPT !.project = @ \cup {ProjectOf[e]}]

(* Mutant: the end time of an event that has none is stored as it is. *)
NewRowWithoutEnd(e) ==
  [project |-> ProjectOf[e], query |-> QueryOf[e], start |-> StartOf[e],
   end |-> NoRow, status |-> IF e \in Failed THEN "error" ELSE "ok"]

(* The row of a trace's first event. *)
NewRow(e) ==
  [project |-> ProjectOf[e], query |-> QueryOf[e], start |-> StartOf[e],
   end |-> EndOf[e], status |-> IF e \in Failed THEN "error" ELSE "ok"]

(* Mutant: the last query wins. *)
MergedRowLastQuery(row, e) ==
  [row EXCEPT !.start  = IF StartOf[e] < @ THEN StartOf[e] ELSE @,
              !.end    = IF EndOf[e] > @ THEN EndOf[e] ELSE @,
              !.query  = IF QueryOf[e] = NoQuery THEN @ ELSE QueryOf[e],
              !.status = IF e \in Failed THEN "error" ELSE @]

(* Later events extend the bounds, fill in a missing query and make the    *)
(* status an error for good; the project stays that of the first event.    *)
MergedRow(row, e) ==
  [row EXCEPT !.start  = IF StartOf[e] < @ THEN StartOf[e] ELSE @,
              !.end    = IF EndOf[e] > @ THEN EndOf[e] ELSE @,
              !.query  = IF @ = NoQuery THEN QueryOf[e] ELSE @,
              !.status = IF e \in Failed THEN "error" ELSE @]

WithTrace(db, e, row) ==
  [db EXCEPT !.trace[TraceOf[e]] = IF row = NoRow THEN NewRow(e) ELSE MergedRow(row, e)]

(* INSERT OR REPLACE INTO events *)
WithEvent(db, e) == [db EXCEPT !.event = @ \cup {e}]

(* _extract_chunks: chunks are inserted once, retrieval hits every time. *)
WithChunks(db, e) ==
  [db EXCEPT !.chunk  = @ \cup ({ProjectOf[e]} \X HitsOf[e]),
             !.hit[e] = @ + (IF HitsOf[e] = {} THEN 0 ELSE 1)]

(* The tables after every statement that follows the SELECT of the trace   *)
(* row and precedes the one that raises.                                   *)
WrittenUpTo(db, e, row, s) ==
  CASE s = "trace"  -> db
    [] s = "event"  -> WithTrace(db, e, row)
    [] s = "chunks" -> WithEvent(WithTrace(db, e, row), e)
    [] s = "never"  -> WithChunks(WithEvent(WithTrace(db, e, row), e), e)

------------------------------------------------------------------------------
(* ingest_events. *)

InBatch(t) == {call[t][i] : i \in DOMAIN call[t]}
Current(t) == call[t][at[t] + 1]

Call(t, b) ==
  /\ pc[t] = "idle"
  /\ calls < MaxCalls
  /\ calls' = calls + 1
  /\ pc' = [pc EXCEPT ![t] = "waiting"]
  /\ call' = [call EXCEPT ![t] = b]
  /\ UNCHANGED <<disk, view, open, lock, at, seen, acked, raised, published, listed>>

(* Mutant: the lock is not taken. *)
AcquireNothing(t) ==
  /\ pc[t] = "waiting"
  /\ pc' = [pc EXCEPT ![t] = "ingesting"]
  /\ UNCHANGED <<disk, view, open, lock, call, at, seen, acked, raised, published, listed, calls>>

(* Mutant: a call begins by rolling back what the last one left. *)
AcquireRollsBack(t) ==
  /\ pc[t] = "waiting"
  /\ lock = NoThread
  /\ lock' = t
  /\ view' = disk
  /\ open' = FALSE
  /\ pc' = [pc EXCEPT ![t] = "ingesting"]
  /\ UNCHANGED <<disk, call, at, seen, listed, acked, raised, published, calls>>

(* with self._lock *)
Acquire(t) ==
  /\ pc[t] = "waiting"
  /\ lock = NoThread
  /\ lock' = t
  /\ pc' = [pc EXCEPT ![t] = "ingesting"]
  /\ UNCHANGED <<disk, view, open, call, at, seen, acked, raised, published, listed, calls>>

(* The first half of _ingest_one: the project row, then the SELECT whose   *)
(* result the second half updates from.                                    *)
SelectTrace(t) ==
  /\ pc[t] = "ingesting"
  /\ at[t] < Len(call[t])
  /\ BreaksAt[Current(t)] # "project"
  /\ view' = WithProject(view, Current(t))
  /\ open' = TRUE
  /\ seen' = [seen EXCEPT ![t] = view.trace[TraceOf[Current(t)]]]
  /\ pc' = [pc EXCEPT ![t] = "merging"]
  /\ UNCHANGED <<disk, lock, call, at, acked, raised, published, listed, calls>>

(* Mutant: the event is announced as soon as it is written. *)
WriteRowsAndPublish(t) ==
  /\ pc[t] = "merging"
  /\ BreaksAt[Current(t)] = "never"
  /\ view' = WrittenUpTo(view, Current(t), seen[t], "never")
  /\ at' = [at EXCEPT ![t] = @ + 1]
  /\ pc' = [pc EXCEPT ![t] = "ingesting"]
  /\ published' = published \cup {Current(t)}
  /\ UNCHANGED <<disk, open, lock, call, seen, acked, raised, listed, calls>>

(* The second half: the trace row, the event row, the chunks. *)
WriteRows(t) ==
  /\ pc[t] = "merging"
  /\ BreaksAt[Current(t)] = "never"
  /\ view' = WrittenUpTo(view, Current(t), seen[t], "never")
  /\ at' = [at EXCEPT ![t] = @ + 1]
  /\ pc' = [pc EXCEPT ![t] = "ingesting"]
  /\ UNCHANGED <<disk, open, lock, call, seen, acked, raised, published, listed, calls>>

(* The thread is out of the call. *)
Leave(t) ==
  /\ pc' = [pc EXCEPT ![t] = "idle"]
  /\ call' = [call EXCEPT ![t] = <<>>]
  /\ at' = [at EXCEPT ![t] = 0]
  /\ seen' = [seen EXCEPT ![t] = NoRow]

(* Mutant: an exception leaves the lock held. *)
RaiseLocked(t) ==
  /\ raised' = raised \cup InBatch(t)
  /\ Leave(t)
  /\ UNCHANGED <<disk, open, lock, acked, published, listed, calls>>

(* The call raises: the lock is released, nothing is rolled back. *)
Raise(t) ==
  /\ lock' = NoThread
  /\ raised' = raised \cup InBatch(t)
  /\ Leave(t)
  /\ UNCHANGED <<disk, open, acked, published, listed, calls>>

(* A statement of the second half raises: what was written before it stays *)
(* in the transaction.                                                     *)
WriteBreaks(t) ==
  /\ pc[t] = "merging"
  /\ BreaksAt[Current(t)] # "never"
  /\ view' = WrittenUpTo(view, Current(t), seen[t], BreaksAt[Current(t)])
  /\ Raise(t)

(* The first statement for an event raises: the event is malformed, or     *)
(* another process holds the database beyond the busy timeout when this    *)
(* statement would begin to write.                                         *)
FirstBreaks(t) ==
  /\ pc[t] = "ingesting"
  /\ at[t] < Len(call[t])
  /\ BreaksAt[Current(t)] = "project" \/ ~open
  /\ UNCHANGED view
  /\ Raise(t)

(* Mutant: the call returns without a commit. *)
CommitForgotten(t) ==
  /\ pc[t] = "ingesting"
  /\ at[t] = Len(call[t])
  /\ lock' = NoThread
  /\ pc' = [pc EXCEPT ![t] = "publishing"]
  /\ at' = [at EXCEPT ![t] = 0]
  /\ acked' = acked \cup InBatch(t)
  /\ UNCHANGED <<disk, view, open, call, seen, raised, published, listed, calls>>

(* The batch is complete: commit and release the lock. *)
Commit(t) ==
  /\ pc[t] = "ingesting"
  /\ at[t] = Len(call[t])
  /\ disk' = view
  /\ open' = FALSE
  /\ lock' = NoThread
  /\ pc' = [pc EXCEPT ![t] = "publishing"]
  /\ at' = [at EXCEPT ![t] = 0]
  /\ acked' = acked \cup InBatch(t)
  /\ UNCHANGED <<view, call, seen, raised, published, listed, calls>>

(* bus.publish for one event, after the lock was released. *)
Publish(t) ==
  /\ pc[t] = "publishing"
  /\ at[t] < Len(call[t])
  /\ published' = published \cup {Current(t)}
  /\ at' = [at EXCEPT ![t] = @ + 1]
  /\ UNCHANGED <<disk, view, open, lock, pc, call, seen, acked, raised, listed, calls>>

(* The call returns: every event was handed to the bus, or publishing one  *)
(* of them raised (the event loop closed under it), which ends the loop    *)
(* and is only logged.                                                     *)
Return(t) ==
  /\ pc[t] = "publishing"
  /\ Leave(t)
  /\ UNCHANGED <<disk, view, open, lock, acked, raised, published, listed, calls>>

------------------------------------------------------------------------------
(* The other writes, each one locked section that ends in a commit: it     *)
(* commits whatever the open transaction holds.                            *)

WriteAndCommit(db) ==
  /\ lock = NoThread
  /\ calls < MaxCalls
  /\ calls' = calls + 1
  /\ view' = db
  /\ disk' = db
  /\ open' = FALSE
  /\ UNCHANGED <<lock, pc, call, at, seen, acked, raised, published, listed>>

SetGroundTruth(tr, relevant) == WriteAndCommit([view EXCEPT !.truth[tr] = {relevant}])

SetEvalScore(tr) == WriteAndCommit([view EXCEPT !.score = @ \cup {tr}])

(* One of them raises before it has written: another process holds the     *)
(* database.                                                               *)
WriteRefused ==
  /\ lock = NoThread
  /\ ~open
  /\ calls < MaxCalls
  /\ calls' = calls + 1
  /\ UNCHANGED <<disk, view, open, lock, pc, call, at, seen, acked, raised, published, listed>>

(* list_generations: the generations of a project are read under the lock  *)
(* (every event stands for one), and the query of each one's trace after   *)
(* it was released, on the connection that another call may be writing     *)
(* with.                                                                   *)
ListGenerations(t, p) ==
  /\ pc[t] = "idle"
  /\ lock = NoThread
  /\ calls < MaxCalls
  /\ calls' = calls + 1
  /\ listed' = [listed EXCEPT ![t] = {e \in view.event : ProjectOf[e] = p}]
  /\ pc' = [pc EXCEPT ![t] = "listing"]
  /\ UNCHANGED <<disk, view, open, lock, call, at, seen, acked, raised, published>>

(* Each row has got the query of its trace, one statement each; the call   *)
(* returns.                                                                *)
FillQueries(t) ==
  /\ pc[t] = "listing"
  /\ listed' = [listed EXCEPT ![t] = {}]
  /\ pc' = [pc EXCEPT ![t] = "idle"]
  /\ UNCHANGED <<disk, view, open, lock, call, at, seen, acked, raised, published, calls>>

(* The process dies and restarts: what was not committed is gone. *)
Crash ==
  /\ view' = disk
  /\ open' = FALSE
  /\ lock' = NoThread
  /\ pc' = [t \in Thread |-> "idle"]
  /\ call' = [t \in Thread |-> <<>>]
  /\ at' = [t \in Thread |-> 0]
  /\ seen' = [t \in Thread |-> NoRow]
  /\ listed' = [t \in Thread |-> {}]
  /\ UNCHANGED <<disk, acked, raised, published, calls>>

------------------------------------------------------------------------------

ThreadStep(t) ==
  \/ Acquire(t) \/ SelectTrace(t) \/ WriteRows(t) \/ WriteBreaks(t)
  \/ FirstBreaks(t) \/ Commit(t) \/ Publish(t) \/ Return(t) \/ FillQueries(t)

Next ==
  \/ \E t \in Thread :
       \/ \E b \in Batches : Call(t, b)
       \/ \E p \in Project : ListGenerations(t, p)
       \/ ThreadStep(t)
  \/ \E tr \in Trace : SetEvalScore(tr) \/ \E cs \in SUBSET Chunk : SetGroundTruth(tr, cs)
  \/ WriteRefused
  \/ Crash

Spec == Init /\ [][Next]_vars

------------------------------------------------------------------------------

(* The rows of db refer to rows that exist: an event to its trace, a trace *)
(* to its project, the hits of an event to the event and to its chunks.    *)
Linked(db) ==
  /\ \A e \in db.event : db.trace[TraceOf[e]] # NoRow
  /\ \A tr \in Trace : db.trace[tr] # NoRow => db.trace[tr].project \in db.project
  /\ \A e \in Event : db.hit[e] > 0 =>
       /\ e \in db.event
       /\ {ProjectOf[e]} \X HitsOf[e] \subseteq db.chunk

(* A trace's row covers its events: their times lie within its bounds and  *)
(* an error among them makes it an error.                                  *)
Covers(db) ==
  \A e \in db.event :
    LET row == db.trace[TraceOf[e]]
    IN  /\ row.start <= StartOf[e]
        /\ row.end >= EndOf[e]
        /\ e \in Failed => row.status = "error"

(* The tables are consistent whatever raised in the middle of a batch,     *)
(* whichever later call committed the half that was left in the            *)
(* transaction, and whenever the process died (db.py:146-214).             *)
StoreConsistent ==
  /\ Linked(disk) /\ Linked(view)
  /\ Covers(disk) /\ Covers(view)

(* An event whose call returned, or that the live feed announced, survives *)
(* a crash (db.py:128-132: "crash-safety against process death"; bus       *)
(* notifications follow the commit, db.py:147-157).                        *)
AckedDurable == acked \cup published \subseteq disk.event

(* What the connection shows beyond what is committed was written by the   *)
(* call that holds the lock or by one that raised; no completed call       *)
(* leaves anything uncommitted (db.py:146-151, 262-268).                   *)
UncommittedIsOwned ==
  view.event \ disk.event \subseteq
    raised \cup UNION {InBatch(t) : t \in {u \in Thread : lock = u}}

(* A committed trace row never loses anything: it stays, keeps its project *)
(* and its query, its bounds only widen and an error is never forgotten.   *)
Widens(old, new) ==
  /\ new # NoRow
  /\ new.project = old.project
  /\ old.query # NoQuery => new.query = old.query
  /\ new.start <= old.start
  /\ new.end >= old.end
  /\ old.status = "error" => new.status = "error"

TraceRowsOnlyWiden ==
  [][\A tr \in Trace : disk.trace[tr] # NoRow => Widens(disk.trace[tr], disk'.trace[tr])]_vars

(* A listing finds the trace of each generation it has read although it    *)
(* looks for it without the lock, while other calls write and raise on the *)
(* same connection (db.py:473-503): only a crash takes a row away.         *)
ListedHaveTraces ==
  \A t \in Thread : \A e \in listed[t] : view.trace[TraceOf[e]] # NoRow

(* db.py:128: "Every log_* call is its own transaction": what a call that  *)
(* raised wrote is never committed by another call.                        *)
EachCallIsItsOwnTransaction == disk.event \cap raised \subseteq acked
==============================================================================
