---------------------------- MODULE PostgresStore -----------------------------
(***************************************************************************)
(* The PostgreSQL store (stores.py, class PostgresStore): every call takes *)
(* a connection of the pool and runs one transaction on it, at the         *)
(* server's default isolation level, READ COMMITTED.                       *)
(*                                                                         *)
(* The server (external): a statement sees what is committed when it       *)
(* starts and what its own transaction wrote; a row somebody else wrote    *)
(* and has not committed makes a writer of the same key wait; a cycle of   *)
(* waits is broken by aborting one of them.  _ingest_one reads the trace   *)
(* row and writes it back with no lock in between.  No event is logged     *)
(* twice, so event rows are written with the trace row; the rows of chunks *)
(* have keys that several events share.  A ground truth or an evaluation   *)
(* score is a note on a trace, which one statement inserts or replaces.    *)
(***************************************************************************)
EXTENDS Integers, FiniteSets, Sequences

CONSTANTS Thread,     \* threads that use the store
          NoThread,   \* nobody has an uncommitted version of the row
          Trace, Project, Event, Query,
          Chunk,      \* keys of chunks
          Slot,       \* keys of ground truths and of scores
          Value,      \* what a note may say
          NoNote,     \* no note
          NoQuery,    \* the event or the row carries no query
          NoRow,      \* there is no row for the trace
          TraceOf,    \* [Event -> Trace]
          ProjectOf,  \* [Event -> Project]
          QueryOf,    \* [Event -> Query \cup {NoQuery}]
          StartOf,    \* [Event -> Int], the start time
          EndOf,      \* [Event -> Int], the end time
          ChunksOf,   \* [Event -> Seq(Chunk)], the chunks it carries
          Failed,     \* events whose status is "error"
          Raising,    \* events one of whose statements may raise
          Batches,    \* the batches callers may pass to ingest_events
          MaxConn     \* max_conn of the constructor

ASSUME EventData ==
  /\ TraceOf \in [Event -> Trace]
  /\ ProjectOf \in [Event -> Project]
  /\ QueryOf \in [Event -> Query \cup {NoQuery}]
  /\ StartOf \in [Event -> Int]
  /\ EndOf \in [Event -> Int]
  /\ ChunksOf \in [Event -> Seq(Chunk)]
  /\ Failed \subseteq Event /\ Raising \subseteq Event
ASSUME SentinelsApart ==
  /\ NoQuery \notin Query /\ NoThread \notin Thread /\ NoNote \notin Value
  /\ Trace \cap Project = {} /\ (Trace \cup Project) \cap Chunk = {}
  /\ (Trace \cup Project \cup Chunk) \cap Slot = {}
ASSUME BatchesAssumption == Batches \subseteq Seq(Event) /\ MaxConn \in Nat \ {0}

Row == [project : Project, query : Query \cup {NoQuery}, start : Int, end : Int,
        status : {"ok", "error"}]
ASSUME NoRowAssumption == NoRow \notin Row

Key == Trace \cup Project \cup Chunk \cup Slot

Note == [slot : Slot, value : Value]
ASSUME NoNoteAssumption == NoNote \notin Note

VARIABLES project,    \* committed rows of projects
          chunk,      \* committed rows of chunks
          row,        \* committed rows of traces
          slot,       \* committed notes
          ledger,     \* the batches whose transaction committed, in order
          holder,     \* who has an uncommitted version of each row
          dirty,      \* the uncommitted version of each trace's row
          pc,         \* what each thread does
          call,       \* the batch each thread was called with
          note,       \* the note each thread was called with
          at,         \* how many events of the batch are written
          put,        \* how many chunks of the next one are
          seen,       \* the trace row each thread selected and will update
          logged,     \* events that were passed to a call
          acked,      \* events of a call that returned
          lost,       \* events of a call that raised without a commit
          stale,      \* traces updated from a row that was no longer there
          noted,      \* notes that were passed to a call
          owed        \* the note of the last call to return, for each slot

vars == <<project, chunk, row, slot, ledger, holder, dirty, pc, call, note, at, put,
          seen, logged, acked, lost, stale, noted, owed>>

TypeOK ==
  /\ project \in SUBSET Project
  /\ chunk \in SUBSET Chunk
  /\ row \in [Trace -> Row \cup {NoRow}]
  /\ {slot, owed} \subseteq [Slot -> Value \cup {NoNote}]
  /\ ledger \in Seq(SUBSET Event)
  /\ holder \in [Key -> Thread \cup {NoThread}]
  /\ dirty \in [Trace -> Row \cup {NoRow}]
  /\ pc \in [Thread -> {"idle", "connecting", "project", "select", "write", "chunks",
                      "note"}]
  /\ call \in [Thread -> Seq(Event)]
  /\ note \in [Thread -> Note \cup {NoNote}]
  /\ {at, put} \subseteq [Thread -> Nat]
  /\ seen \in [Thread -> Row \cup {NoRow}]
  /\ logged \in SUBSET Event
  /\ acked \in SUBSET Event
  /\ lost \in SUBSET Event
  /\ stale \in SUBSET Trace
  /\ noted \in SUBSET Note

(* The schema exists; earlier programs may have used the projects. *)
Init ==
  /\ project \in SUBSET Project
  /\ chunk = {}
  /\ row = [tr \in Trace |-> NoRow]
  /\ slot = [s \in Slot |-> NoNote]
  /\ ledger = <<>>
  /\ holder = [k \in Key |-> NoThread]
  /\ dirty = [tr \in Trace |-> NoRow]
  /\ pc = [t \in Thread |-> "idle"]
  /\ call = [t \in Thread |-> <<>>]
  /\ note = [t \in Thread |-> NoNote]
  /\ at = [t \in Thread |-> 0]
  /\ put = [t \in Thread |-> 0]
  /\ seen = [t \in Thread |-> NoRow]
  /\ logged = {}
  /\ acked = {}
  /\ lost = {}
  /\ stale = {}
  /\ noted = {}
  /\ owed = [s \in Slot |-> NoNote]

Committed  == UNION {ledger[i] : i \in DOMAIN ledger}
InBatch(t) == {call[t][i] : i \in DOMAIN call[t]}
Current(t) == call[t][at[t] + 1]
More(t)    == at[t] < Len(call[t])

Tables   == <<project, chunk, row, slot, ledger>>
Tx       == <<holder, dirty>>
Caller   == <<call, note, logged, acked, lost, noted, owed>>
Progress == <<at, put, seen>>

------------------------------------------------------------------------------
(* A call begins and takes a connection. *)

Call(t, b) ==
  /\ pc[t] = "idle"
  /\ \A i \in DOMAIN b : b[i] \notin logged
  /\ pc' = [pc EXCEPT ![t] = "connecting"]
  /\ call' = [call EXCEPT ![t] = b]
  /\ logged' = logged \cup {b[i] : i \in DOMAIN b}
  /\ UNCHANGED <<Tables, Tx, Progress, note, acked, lost, stale, noted, owed>>

(* set_ground_truth and set_eval_score; each note is passed once, which    *)
(* bounds the calls.                                                       *)
CallNote(t, n) ==
  /\ pc[t] = "idle" /\ n \notin noted
  /\ noted' = noted \cup {n}
  /\ pc' = [pc EXCEPT ![t] = "connecting"]
  /\ note' = [note EXCEPT ![t] = n]
  /\ UNCHANGED <<Tables, Tx, Progress, call, logged, acked, lost, stale, owed>>

Connected == {t \in Thread : pc[t] \notin {"idle", "connecting"}}

(* getconn *)
Connect(t) ==
  /\ pc[t] = "connecting"
  /\ Cardinality(Connected) < MaxConn
  /\ pc' = [pc EXCEPT ![t] = IF note[t] = NoNote THEN "project" ELSE "note"]
  /\ UNCHANGED <<Tables, Tx, Caller, Progress, stale>>

(* The thread is out of the call. *)
Leave(t) ==
  /\ pc' = [pc EXCEPT ![t] = "idle"]
  /\ call' = [call EXCEPT ![t] = <<>>]
  /\ note' = [note EXCEPT ![t] = NoNote]
  /\ at' = [at EXCEPT ![t] = 0]
  /\ put' = [put EXCEPT ![t] = 0]
  /\ seen' = [seen EXCEPT ![t] = NoRow]

(* The pool is exhausted: getconn raises, outside the try. *)
PoolExhausted(t) ==
  /\ pc[t] = "connecting"
  /\ Cardinality(Connected) >= MaxConn
  /\ lost' = lost \cup InBatch(t)
  /\ Leave(t)
  /\ UNCHANGED <<Tables, Tx, logged, acked, stale, noted, owed>>

------------------------------------------------------------------------------
(* The statements of _ingest_one. *)

(* Nobody else has an uncommitted version of the row. *)
Free(t, k) == holder[k] \in {t, NoThread}

(* INSERT INTO projects ... ON CONFLICT DO NOTHING, which waits for another *)
(* transaction that inserted the row.                                       *)
InsertProject(t) ==
  /\ pc[t] = "project" /\ More(t)
  /\ LET k == ProjectOf[Current(t)]
     IN  /\ k \in project \/ Free(t, k)
         /\ holder' = IF k \in project THEN holder ELSE [holder EXCEPT ![k] = t]
  /\ pc' = [pc EXCEPT ![t] = "select"]
  /\ UNCHANGED <<Tables, dirty, Caller, Progress, stale>>

(* SELECT ... FROM traces: the own version of the row or the committed one. *)
SelectTrace(t) ==
  /\ pc[t] = "select"
  /\ LET tr == TraceOf[Current(t)]
     IN  seen' = [seen EXCEPT ![t] = IF holder[tr] = t THEN dirty[tr] ELSE row[tr]]
  /\ pc' = [pc EXCEPT ![t] = "write"]
  /\ UNCHANGED <<Tables, Tx, Caller, at, put, stale>>

(* Mutant: the end time of an event that has none is stored as it is. *)
NewRowWithoutEnd(e) ==
  [project |-> ProjectOf[e], query |-> QueryOf[e], start |-> StartOf[e],
   end |-> NoRow, status |-> IF e \in Failed THEN "error" ELSE "ok"]

NewRow(e) ==
  [project |-> ProjectOf[e], query |-> QueryOf[e], start |-> StartOf[e],
   end |-> EndOf[e], status |-> IF e \in Failed THEN "error" ELSE "ok"]

MergedRow(r, e) ==
  [r EXCEPT !.start  = IF StartOf[e] < @ THEN StartOf[e] ELSE @,
            !.end    = IF EndOf[e] > @ THEN EndOf[e] ELSE @,
            !.query  = IF @ = NoQuery THEN QueryOf[e] ELSE @,
            !.status = IF e \in Failed THEN "error" ELSE @]

(* n chunks of the event are in; after the last comes the next event. *)
GoOn(t, n) ==
  IF n < Len(ChunksOf[Current(t)])
  THEN /\ pc' = [pc EXCEPT ![t] = "chunks"]
       /\ put' = [put EXCEPT ![t] = n]
       /\ UNCHANGED at
  ELSE /\ pc' = [pc EXCEPT ![t] = "project"]
       /\ put' = [put EXCEPT ![t] = 0]
       /\ at' = [at EXCEPT ![t] = @ + 1]

(* The thread writes the version r of the trace's row, and the event's.    *)
WriteVersion(t, tr, r) ==
  /\ dirty' = [dirty EXCEPT ![tr] = r]
  /\ holder' = [holder EXCEPT ![tr] = t]
  /\ seen' = [seen EXCEPT ![t] = NoRow]
  /\ GoOn(t, 0)

(* INSERT INTO traces, if the SELECT found nothing and there still is      *)
(* nothing once the row is free.                                           *)
InsertTrace(t) ==
  /\ pc[t] = "write" /\ seen[t] = NoRow
  /\ LET tr == TraceOf[Current(t)]
     IN  /\ Free(t, tr)
         /\ row[tr] = NoRow
         /\ WriteVersion(t, tr, NewRow(Current(t)))
  /\ UNCHANGED <<Tables, Caller, stale>>

(* UPDATE traces, with values computed from the row that was selected: if  *)
(* another transaction committed a version since, its values are replaced. *)
UpdateTrace(t) ==
  /\ pc[t] = "write" /\ seen[t] # NoRow
  /\ LET tr == TraceOf[Current(t)]
     IN  /\ Free(t, tr)
         /\ WriteVersion(t, tr, MergedRow(seen[t], Current(t)))
         /\ stale' = IF holder[tr] # t /\ row[tr] # seen[t]
                     THEN stale \cup {tr} ELSE stale
  /\ UNCHANGED <<Tables, Caller>>

NextChunk(t) == ChunksOf[Current(t)][put[t] + 1]

(* Mutant: a chunk that another transaction is inserting is taken for one  *)
(* that is there.                                                          *)
InsertChunkUnwaited(t) ==
  /\ pc[t] = "chunks"
  /\ LET k == NextChunk(t)
     IN  holder' = IF k \in chunk \/ ~Free(t, k) THEN holder
                   ELSE [holder EXCEPT ![k] = t]
  /\ GoOn(t, put[t] + 1)
  /\ UNCHANGED <<Tables, dirty, Caller, seen, stale>>

(* _extract_chunks: INSERT INTO chunks ... ON CONFLICT DO NOTHING, which    *)
(* waits like the insertion of a project.                                   *)
InsertChunk(t) ==
  /\ pc[t] = "chunks"
  /\ LET k == NextChunk(t)
     IN  /\ k \in chunk \/ Free(t, k)
         /\ holder' = IF k \in chunk THEN holder ELSE [holder EXCEPT ![k] = t]
  /\ GoOn(t, put[t] + 1)
  /\ UNCHANGED <<Tables, dirty, Caller, seen, stale>>

(* INSERT ... ON CONFLICT DO UPDATE of a ground truth or a score. *)
WriteNote(t) ==
  /\ pc[t] = "note"
  /\ Free(t, note[t].slot)
  /\ holder' = [holder EXCEPT ![note[t].slot] = t]
  /\ pc' = [pc EXCEPT ![t] = "project"]
  /\ UNCHANGED <<Tables, dirty, Caller, Progress, stale>>

------------------------------------------------------------------------------
(* The end of a transaction. *)

(* Mutant: the rows of chunks are not released. *)
ReleaseWithoutChunks(t) ==
  /\ holder' = [k \in Key |-> IF holder[k] = t /\ k \notin Chunk THEN NoThread
                               ELSE holder[k]]
  /\ dirty' = [tr \in Trace |-> IF holder[tr] = t THEN NoRow ELSE dirty[tr]]

(* The rows the thread wrote are released. *)
Release(t) ==
  /\ holder' = [k \in Key |-> IF holder[k] = t THEN NoThread ELSE holder[k]]
  /\ dirty' = [tr \in Trace |-> IF holder[tr] = t THEN NoRow ELSE dirty[tr]]

(* What the server does on COMMIT. *)
Apply(t) ==
  /\ project' = project \cup {k \in Project : holder[k] = t}
  /\ chunk' = chunk \cup {k \in Chunk : holder[k] = t}
  /\ row' = [tr \in Trace |-> IF holder[tr] = t THEN dirty[tr] ELSE row[tr]]
  /\ slot' = [s \in Slot |-> IF holder[s] = t THEN note[t].value ELSE slot[s]]
  /\ ledger' = IF note[t] = NoNote THEN Append(ledger, InBatch(t)) ELSE ledger
  /\ Release(t)

(* The call returns: what it was given is owed to its caller. *)
Acknowledge(t) ==
  /\ acked' = acked \cup InBatch(t)
  /\ owed' = [s \in Slot |-> IF holder[s] = t THEN note[t].value ELSE owed[s]]

(* The batch is written: commit, and the call returns. *)
Commit(t) ==
  /\ pc[t] = "project" /\ ~More(t)
  /\ Apply(t)
  /\ Acknowledge(t)
  /\ Leave(t)
  /\ UNCHANGED <<logged, lost, stale, noted>>

(* Mutant: the call is repeated when the answer to its commit is lost. *)
AckLostRetried(t) ==
  /\ pc[t] = "project" /\ ~More(t)
  /\ Apply(t)
  /\ pc' = [pc EXCEPT ![t] = "connecting"]
  /\ at' = [at EXCEPT ![t] = 0]
  /\ UNCHANGED <<Caller, put, seen, stale>>

(* The server commits, but its answer is lost: the call raises. *)
AckLost(t) ==
  /\ pc[t] = "project" /\ ~More(t)
  /\ Apply(t)
  /\ owed' = [s \in Slot |-> IF holder[s] = t THEN NoNote ELSE owed[s]]
  /\ Leave(t)
  /\ UNCHANGED <<logged, acked, lost, stale, noted>>

(* The transaction is rolled back and the call raises. *)
Rollback(t) ==
  /\ Release(t)
  /\ lost' = lost \cup InBatch(t)
  /\ Leave(t)
  /\ UNCHANGED <<Tables, logged, acked, stale, noted, owed>>

(* Mutant: the conflict is ignored, as with ON CONFLICT DO NOTHING. *)
ConflictIgnored(t) ==
  /\ pc[t] = "write" /\ seen[t] = NoRow
  /\ LET tr == TraceOf[Current(t)] IN Free(t, tr) /\ row[tr] # NoRow
  /\ at' = [at EXCEPT ![t] = @ + 1]
  /\ pc' = [pc EXCEPT ![t] = "project"]
  /\ UNCHANGED <<Tables, Tx, Caller, put, seen, stale>>

(* Another transaction inserted the trace since the SELECT: the INSERT     *)
(* raises UniqueViolation.                                                 *)
Conflict(t) ==
  /\ pc[t] = "write" /\ seen[t] = NoRow
  /\ LET tr == TraceOf[Current(t)] IN Free(t, tr) /\ row[tr] # NoRow
  /\ Rollback(t)

(* A statement raises: the event is malformed, or the server or the   *)
(* connection fails.                                                       *)
Breaks(t) ==
  /\ pc[t] \in {"write", "chunks"}
  /\ Current(t) \in Raising
  /\ Rollback(t)

(* The row a thread waits for, if it waits: {} or a singleton. *)
WaitsFor(t) ==
  CASE pc[t] = "project" /\ More(t) ->
         {k \in Project : k = ProjectOf[Current(t)] /\ k \notin project /\ ~Free(t, k)}
    [] pc[t] = "write" -> {k \in Trace : k = TraceOf[Current(t)] /\ ~Free(t, k)}
    [] pc[t] = "chunks" ->
         {k \in Chunk : k = NextChunk(t) /\ k \notin chunk /\ ~Free(t, k)}
    [] pc[t] = "note" -> {k \in Slot : k = note[t].slot /\ ~Free(t, k)}
    [] OTHER -> {}

(* The threads of S all wait for one another. *)
Cycle(S) == \A t \in S : \E k \in WaitsFor(t) : holder[k] \in S

(* The server aborts one transaction of a deadlock. *)
DeadlockVictim(t) ==
  /\ \E S \in SUBSET Thread : t \in S /\ Cycle(S)
  /\ Rollback(t)

(* The client process dies and restarts: its transactions are rolled back. *)
Crash ==
  /\ holder' = [k \in Key |-> NoThread]
  /\ dirty' = [tr \in Trace |-> NoRow]
  /\ lost' = lost \cup UNION {InBatch(t) : t \in Thread}
  /\ pc' = [t \in Thread |-> "idle"]
  /\ call' = [t \in Thread |-> <<>>]
  /\ note' = [t \in Thread |-> NoNote]
  /\ at' = [t \in Thread |-> 0]
  /\ put' = [t \in Thread |-> 0]
  /\ seen' = [t \in Thread |-> NoRow]
  /\ UNCHANGED <<Tables, logged, acked, stale, noted, owed>>

------------------------------------------------------------------------------

ThreadStep(t) ==
  \/ Connect(t) \/ PoolExhausted(t)
  \/ InsertProject(t) \/ SelectTrace(t) \/ InsertTrace(t) \/ UpdateTrace(t)
  \/ InsertChunk(t) \/ WriteNote(t)
  \/ Commit(t) \/ AckLost(t)
  \/ Conflict(t) \/ Breaks(t) \/ DeadlockVictim(t)

Next ==
  \/ \E t \in Thread :
       \/ \E b \in Batches : Call(t, b)
       \/ \E n \in Note : CallNote(t, n)
       \/ ThreadStep(t)
  \/ Crash

Spec == Init /\ [][Next]_vars

(* A thread inside a call is scheduled, and the server answers. *)
Fairness == \A t \in Thread : WF_vars(ThreadStep(t))

FairSpec == Spec /\ Fairness

------------------------------------------------------------------------------

(* A trace has a row that covers its committed events: their times lie     *)
(* within its bounds and an error among them makes it an error.            *)
Covered(tr) ==
  \A e \in Committed : TraceOf[e] = tr =>
    /\ row[tr] # NoRow
    /\ row[tr].start <= StartOf[e]
    /\ row[tr].end >= EndOf[e]
    /\ e \in Failed => row[tr].status = "error"

(* What a call returned for is committed: the last note of a slot, and an  *)
(* event together with its project and its chunks, although their rows may *)
(* have been in the hands of another transaction that could still roll     *)
(* back (stores.py:299-309, 366-369, 419-436).                             *)
AckedDurable ==
  /\ acked \subseteq Committed
  /\ \A e \in acked : /\ ProjectOf[e] \in project
                      /\ \A i \in DOMAIN ChunksOf[e] : ChunksOf[e][i] \in chunk
  /\ \A s \in Slot : owed[s] \in {NoNote, slot[s]}

(* The row of a trace covers its events unless an UPDATE replaced a        *)
(* version it had not read: conflicts, deadlocks, lost answers, raising    *)
(* batches and crashes leave no other trace in the tables                  *)
(* (stores.py:352-414).                                                    *)
CoveredUnlessStale == \A tr \in Trace \ stale : Covered(tr)

(* Every call ends, whatever it waits for: a conflict, a deadlock or an    *)
(* exhausted pool makes a call raise, and a call that raised holds nothing *)
(* that another waits for (stores.py:299-309).                             *)
EveryCallEnds == \A t \in Thread : (pc[t] # "idle") ~> (pc[t] = "idle")

(* The store is an at-most-once channel of whole batches.  Its ledger are  *)
(* the transactions that committed.                                        *)
Delivery == INSTANCE EventDelivery WITH
              pending <- logged \ (Committed \cup lost),
              ledger  <- ledger,
              lost    <- lost

(* A call commits all of its batch or none of it, at most once, and what a *)
(* call that raised had not committed is never committed later: unlike     *)
(* SQLite's, no other call can commit it (EventDelivery).                  *)
CallsAreAtomic == Delivery!DSpec

(* db.py:175 "extend bounds", and stores.py:189, PostgresStore "mirrors    *)
(* SQLite": every trace row covers its committed events.                   *)
RowsCoverEvents == \A tr \in Trace : Covered(tr)
==============================================================================
