-------------------------- MODULE PostgresStoreProofs --------------------------
(***************************************************************************)
(* The PostgreSQL store for any number of threads, connections, traces and *)
(* batches: what a call returned for is committed, a call commits all of   *)
(* its batch or none of it, the row of a trace covers its events unless an *)
(* UPDATE replaced a version it had not read, and a thread that is out of  *)
(* a call holds no row.                                                    *)
(***************************************************************************)
EXTENDS PostgresStore, FiniteSetTheorems, TLAPS

Outside(t) == pc[t] \in {"idle", "connecting"}

(* Rows are held by threads inside a transaction, and a version of a       *)
(* trace's row is uncommitted exactly while its row is held; only a note   *)
(* holds a slot, its own.                                                  *)
Locks ==
  /\ \A t \in Thread : Outside(t) => \A k \in Key : holder[k] # t
  /\ \A tr \in Trace : dirty[tr] # NoRow <=> holder[tr] # NoThread
  /\ \A s \in Slot : \A t \in Thread :
       holder[s] = t => note[t] # NoNote /\ note[t].slot = s

(* How far each call is: its next event, the chunk of it, the row read. *)
CallOK(t) ==
  /\ pc[t] = "idle" => call[t] = <<>> /\ note[t] = NoNote
  /\ Outside(t) => at[t] = 0
  /\ at[t] <= Len(call[t])
  /\ pc[t] \in {"select", "write", "chunks"} => More(t)
  /\ pc[t] = "chunks" => put[t] < Len(ChunksOf[Current(t)])
  /\ pc[t] # "chunks" => put[t] = 0
  /\ pc[t] # "write" => seen[t] = NoRow
  /\ note[t] # NoNote => call[t] = <<>> /\ pc[t] \in {"connecting", "note", "project"}
  /\ pc[t] = "note" => note[t] # NoNote

(* No event is in two calls, or in a call and in the tables or lost. *)
Accounts ==
  /\ Committed \cup lost \subseteq logged
  /\ Committed \cap lost = {}
  /\ acked \subseteq Committed
  /\ \A t \in Thread : InBatch(t) \subseteq logged \ (Committed \cup lost)
  /\ \A t, u \in Thread : t # u => InBatch(t) \cap InBatch(u) = {}

(* The events whose project, whose trace's row is written. *)
Begun(t) == IF pc[t] \in {"select", "write", "chunks"} THEN at[t] + 1 ELSE at[t]
Done(t)  == IF pc[t] = "chunks" THEN at[t] + 1 ELSE at[t]

ProjectIn(t, e) == ProjectOf[e] \in project \/ holder[ProjectOf[e]] = t
ChunkIn(t, k)   == k \in chunk \/ holder[k] = t

(* The rows of the events that a call has written are committed, or the    *)
(* call holds them; the row it has read is its own version if it has one.  *)
WorkOK(t) ==
  /\ \A i \in 1..Begun(t) : ProjectIn(t, call[t][i])
  /\ \A i \in 1..Done(t) : holder[TraceOf[call[t][i]]] = t
  /\ \A i \in 1..at[t] : \A j \in DOMAIN ChunksOf[call[t][i]] :
       ChunkIn(t, ChunksOf[call[t][i]][j])
  /\ pc[t] = "chunks" => \A j \in 1..put[t] : ChunkIn(t, ChunksOf[Current(t)][j])
  /\ pc[t] = "write" /\ holder[TraceOf[Current(t)]] = t
       => seen[t] = dirty[TraceOf[Current(t)]]

Covers(r, e) ==
  r.start <= StartOf[e] /\ r.end >= EndOf[e] /\ (e \in Failed => r.status = "error")

(* The row q says all that the row r did (stores.py:358-364). *)
Extends(q, r) ==
  /\ q.start <= r.start /\ q.end >= r.end /\ q.project = r.project
  /\ r.status = "error" => q.status = "error"
  /\ r.query # NoQuery => q.query = r.query

(* A version covers what is committed, and what its own call has written   *)
(* to it, and extends the committed row, unless the trace is stale.        *)
Versions ==
  /\ \A e \in Committed : row[TraceOf[e]] # NoRow
  /\ \A tr \in Trace \ stale : \A e \in Committed : TraceOf[e] = tr =>
       /\ Covers(row[tr], e)
       /\ holder[tr] # NoThread => Covers(dirty[tr], e)
  /\ \A tr \in Trace \ stale : \A t \in Thread : holder[tr] = t =>
       \A i \in 1..Done(t) : TraceOf[call[t][i]] = tr => Covers(dirty[tr], call[t][i])
  /\ \A tr \in Trace \ stale :
       holder[tr] # NoThread /\ row[tr] # NoRow => Extends(dirty[tr], row[tr])

(* The pool never gives out more connections than it has. *)
PoolOK == IsFiniteSet(Connected) /\ Cardinality(Connected) <= MaxConn

IInv ==
  /\ TypeOK
  /\ Locks
  /\ \A t \in Thread : CallOK(t)
  /\ Accounts
  /\ \A t \in Thread : WorkOK(t)
  /\ Versions
  /\ AckedDurable
  /\ PoolOK

(* The threads other than t, and the rows they hold, are left alone. *)
OthersKept(t) ==
  \A u \in Thread \ {t} :
    /\ pc'[u] = pc[u] /\ call'[u] = call[u] /\ note'[u] = note[u]
    /\ at'[u] = at[u] /\ put'[u] = put[u] /\ seen'[u] = seen[u]
    /\ \A k \in Key : holder'[k] = u <=> holder[k] = u
    /\ \A tr \in Trace : holder[tr] = u => dirty'[tr] = dirty[tr]

------------------------------------------------------------------------------
(* What the steps share. *)

(* What TypeOK says of the two variables it speaks of together. *)
LEMMA Typed ==
  ASSUME TypeOK
  PROVE  /\ at \in [Thread -> Nat] /\ put \in [Thread -> Nat]
         /\ slot \in [Slot -> Value \cup {NoNote}] /\ owed \in [Slot -> Value \cup {NoNote}]
         /\ \A t \in Thread : call[t] \in Seq(Event) /\ at[t] \in Nat /\ put[t] \in Nat
  BY DEF TypeOK

(* The keys of traces, projects, chunks and slots are told apart (the      *)
(* tables are different ones, stores.py:259-290).                          *)
LEMMA KeysApart ==
  /\ Trace \subseteq Key /\ Project \subseteq Key /\ Chunk \subseteq Key /\ Slot \subseteq Key
  /\ \A tr \in Trace : tr \notin Project /\ tr \notin Chunk /\ tr \notin Slot
  /\ \A p \in Project : p \notin Chunk /\ p \notin Slot
  /\ \A k \in Chunk : k \notin Slot
  /\ NoThread \notin Thread
  BY SentinelsApart DEF Key

(* The events a call has begun are events, with their trace, project and   *)
(* chunks (stores.py:352-436).                                             *)
LEMMA EventsTyped ==
  ASSUME TypeOK, NEW t \in Thread, CallOK(t)
  PROVE  /\ Begun(t) \in Nat /\ Done(t) \in Nat
         /\ at[t] <= Done(t) /\ Done(t) <= Begun(t) /\ Begun(t) <= Len(call[t])
         /\ \A i \in 1..Len(call[t]) :
              /\ call[t][i] \in Event /\ TraceOf[call[t][i]] \in Trace
              /\ ProjectOf[call[t][i]] \in Project
              /\ ChunksOf[call[t][i]] \in Seq(Chunk)
         /\ More(t) => at[t] + 1 \in 1..Len(call[t]) /\ Current(t) = call[t][at[t] + 1]
<1>1. call[t] \in Seq(Event) /\ at[t] \in Nat /\ Len(call[t]) \in Nat
  BY Typed
<1>2. \A i \in 1..Len(call[t]) : call[t][i] \in Event
  BY <1>1
<1>3. \A i \in 1..Len(call[t]) :
        /\ call[t][i] \in Event /\ TraceOf[call[t][i]] \in Trace
        /\ ProjectOf[call[t][i]] \in Project
        /\ ChunksOf[call[t][i]] \in Seq(Chunk)
  BY <1>2, EventData
<1>4. /\ Begun(t) \in Nat /\ Done(t) \in Nat
      /\ at[t] <= Done(t) /\ Done(t) <= Begun(t) /\ Begun(t) <= Len(call[t])
  BY <1>1 DEF CallOK, Begun, Done, More
<1>5. More(t) => at[t] + 1 \in 1..Len(call[t]) /\ Current(t) = call[t][at[t] + 1]
  BY <1>1 DEF More, Current
<1> QED
  BY <1>3, <1>4, <1>5

(* What a step of one thread leaves of the calls of the others: their rows *)
(* are held or committed as before (stores.py:299-309).                    *)
LEMMA Others ==
  ASSUME IInv, NEW t \in Thread, OthersKept(t),
         project \subseteq project', chunk \subseteq chunk'
  PROVE  \A u \in Thread \ {t} : CallOK(u)' /\ WorkOK(u)'
<1> SUFFICES ASSUME NEW u \in Thread \ {t} PROVE CallOK(u)' /\ WorkOK(u)'
  OBVIOUS
<1>1. CallOK(u) /\ WorkOK(u) /\ TypeOK
  BY DEF IInv
<1>2. /\ pc'[u] = pc[u] /\ call'[u] = call[u] /\ note'[u] = note[u]
      /\ at'[u] = at[u] /\ put'[u] = put[u] /\ seen'[u] = seen[u]
  BY DEF OthersKept
<1>3. /\ \A k \in Key : holder'[k] = u <=> holder[k] = u
      /\ \A tr \in Trace : holder[tr] = u => dirty'[tr] = dirty[tr]
  BY DEF OthersKept
<1>c. Current(u)' = Current(u)
  BY <1>2 DEF Current
<1>4. CallOK(u)'
  BY <1>1, <1>2 DEF CallOK, Outside, More, Current
<1>5. /\ \A i \in 1..Begun(u) : i \in 1..Len(call[u])
      /\ \A i \in 1..Done(u) : i \in 1..Len(call[u])
      /\ \A i \in 1..at[u] : i \in 1..Len(call[u])
  BY <1>1, EventsTyped, Typed
<1>6. Begun(u)' = Begun(u) /\ Done(u)' = Done(u)
  BY <1>2 DEF Begun, Done
<1>7. \A i \in 1..Begun(u) : ProjectIn(u, call[u][i])'
  BY <1>1, <1>2, <1>3, <1>5, EventsTyped, KeysApart DEF WorkOK, ProjectIn
<1>8. \A i \in 1..Done(u) : holder'[TraceOf[call[u][i]]] = u
  BY <1>1, <1>3, <1>5, EventsTyped, KeysApart DEF WorkOK
<1>9. \A k \in Chunk : ChunkIn(u, k) => ChunkIn(u, k)'
  BY <1>3, KeysApart DEF ChunkIn
<1>10. \A i \in 1..at[u] : \A j \in DOMAIN ChunksOf[call[u][i]] :
         ChunkIn(u, ChunksOf[call[u][i]][j])'
  <2> SUFFICES ASSUME NEW i \in 1..at[u], NEW j \in DOMAIN ChunksOf[call[u][i]]
               PROVE  ChunkIn(u, ChunksOf[call[u][i]][j])'
    BY <1>2
  <2>1. ChunksOf[call[u][i]] \in Seq(Chunk)
    BY <1>1, <1>5, EventsTyped
  <2>2. ChunksOf[call[u][i]][j] \in Chunk
    BY <2>1
  <2>3. ChunkIn(u, ChunksOf[call[u][i]][j])
    BY <1>1 DEF WorkOK
  <2> QED
    BY <1>2, <1>9, <2>2, <2>3 DEF ChunkIn
<1>11. pc[u] = "chunks" => \A j \in 1..put[u] : ChunkIn(u, ChunksOf[Current(u)][j])'
  <2> SUFFICES ASSUME pc[u] = "chunks", NEW j \in 1..put[u]
               PROVE  ChunkIn(u, ChunksOf[Current(u)][j])'
    OBVIOUS
  <2>0. CallOK(u) /\ TypeOK
    BY <1>1
  <2>1. ChunksOf[Current(u)] \in Seq(Chunk) /\ put[u] <= Len(ChunksOf[Current(u)])
    <3>1. More(u) /\ put[u] < Len(ChunksOf[Current(u)])
      BY <2>0 DEF CallOK
    <3>2. /\ at[u] + 1 \in 1..Len(call[u]) /\ Current(u) = call[u][at[u] + 1]
          /\ \A i \in 1..Len(call[u]) : ChunksOf[call[u][i]] \in Seq(Chunk)
      BY <2>0, <3>1, EventsTyped
    <3>3. ChunksOf[Current(u)] \in Seq(Chunk) /\ put[u] \in Nat
      BY <2>0, <3>2, Typed
    <3> QED
      BY <3>1, <3>3
  <2>2. ChunksOf[Current(u)][j] \in Chunk
    BY <2>1, <1>1, Typed
  <2>3. ChunkIn(u, ChunksOf[Current(u)][j])
    BY <1>1 DEF WorkOK
  <2> QED
    BY <1>c, <1>9, <2>2, <2>3 DEF ChunkIn
<1>12. pc[u] = "write" /\ holder'[TraceOf[Current(u)]] = u
         => seen[u] = dirty'[TraceOf[Current(u)]]
  BY <1>1, <1>3, EventsTyped, KeysApart DEF WorkOK, CallOK
<1> QED
  BY <1>2, <1>c, <1>4, <1>6, <1>7, <1>8, <1>10, <1>11, <1>12 DEF WorkOK

(* Versions stay covering when no version is written and none committed:   *)
(* the thread that steps keeps what it holds and has written, or lets it   *)
(* go (stores.py:405-414).                                                 *)
LEMMA VersionsKept ==
  ASSUME IInv, TypeOK', NEW t \in Thread, OthersKept(t),
         row' = row, ledger' = ledger, stale' = stale,
         \A tr \in Trace : holder'[tr] = t =>
           /\ holder[tr] = t /\ dirty'[tr] = dirty[tr]
           /\ call'[t] = call[t] /\ Done(t)' = Done(t)
  PROVE  Versions'
<1>1. Versions /\ TypeOK
  BY DEF IInv
<1>2. Committed' = Committed
  BY DEF Committed
<1>3. ASSUME NEW tr \in Trace, NEW u \in Thread, holder'[tr] = u
      PROVE  /\ holder[tr] = u /\ dirty'[tr] = dirty[tr]
             /\ call'[u] = call[u] /\ Done(u)' = Done(u)
  <2>1. CASE u = t
    BY <1>3, <2>1
  <2>2. CASE u # t
    BY <1>3, <2>2, KeysApart DEF OthersKept, Done
  <2> QED
    BY <2>1, <2>2
<1>4. ASSUME NEW tr \in Trace \ stale, NEW e \in Committed, TraceOf[e] = tr
      PROVE  /\ Covers(row[tr], e)
             /\ holder'[tr] # NoThread => Covers(dirty'[tr], e)
  <2>1. holder'[tr] # NoThread => holder'[tr] \in Thread
    BY KeysApart DEF TypeOK
  <2> QED
    BY <1>1, <1>3, <1>4, <2>1, KeysApart DEF Versions
<1>5. ASSUME NEW tr \in Trace \ stale, NEW u \in Thread, holder'[tr] = u, NEW i \in 1..Done(u)',
             TraceOf[call'[u][i]] = tr
      PROVE  Covers(dirty'[tr], call'[u][i])
  BY <1>1, <1>3, <1>5 DEF Versions
<1>6. \A e \in Committed : row[TraceOf[e]] # NoRow
  BY <1>1 DEF Versions
<1>7. ASSUME NEW tr \in Trace \ stale, holder'[tr] # NoThread, row[tr] # NoRow
      PROVE  Extends(dirty'[tr], row[tr])
  <2>1. holder'[tr] \in Thread
    BY <1>7, KeysApart DEF TypeOK
  <2> QED
    BY <1>1, <1>3, <1>7, <2>1, KeysApart DEF Versions
<1> QED
  BY <1>2, <1>4, <1>5, <1>6, <1>7 DEF Versions, Covers, Extends

(* The pool gives out no more connections when no thread connects. *)
LEMMA PoolKept ==
  ASSUME IInv, Connected' \subseteq Connected
  PROVE  PoolOK'
<1>1. /\ IsFiniteSet(Connected') /\ Cardinality(Connected') <= Cardinality(Connected)
      /\ Cardinality(Connected) \in Nat /\ Cardinality(Connected') \in Nat
  BY FS_Subset, FS_CardinalityType DEF IInv, PoolOK
<1> QED
  BY <1>1, BatchesAssumption DEF IInv, PoolOK

(* What was acknowledged stays durable when the tables only grow. *)
LEMMA AckedKept ==
  ASSUME IInv, UNCHANGED <<slot, ledger, acked, owed>>,
         project \subseteq project', chunk \subseteq chunk'
  PROVE  AckedDurable'
  BY DEF IInv, AckedDurable, Committed

(* The accounts of the events stand when no call begins or ends. *)
LEMMA AccountsKept ==
  ASSUME IInv, UNCHANGED <<call, ledger, logged, acked, lost>>
  PROVE  Accounts'
  BY DEF IInv, Accounts, Committed, InBatch

(* No trace exists before the first call (stores.py:259-290). *)
LEMMA InitOK == Init => IInv
<1> SUFFICES ASSUME Init PROVE IInv
  OBVIOUS
<1> USE DEF Init
<1>1. TypeOK
  BY KeysApart DEF TypeOK, Row, Note
<1>2. Locks
  BY KeysApart DEF Locks
<1>3. \A t \in Thread : CallOK(t)
  BY DEF CallOK, Outside, More
<1>4. Committed = {} /\ \A t \in Thread : InBatch(t) = {}
  BY DEF Committed, InBatch
<1>5. Accounts
  BY <1>4 DEF Accounts
<1>6. \A t \in Thread : WorkOK(t)
  BY DEF WorkOK, Begun, Done
<1>7. Versions
  BY <1>4, KeysApart DEF Versions
<1>8. AckedDurable
  BY <1>4 DEF AckedDurable
<1>9. PoolOK
  <2>1. Connected = {}
    BY DEF Connected
  <2> QED
    BY <2>1, FS_EmptySet, BatchesAssumption DEF PoolOK
<1> QED
  BY <1>1, <1>2, <1>3, <1>5, <1>6, <1>7, <1>8, <1>9 DEF IInv

------------------------------------------------------------------------------
(* The beginning of a call. *)

(* A thread calls log_events with a batch of new events (stores.py:343-346). *)
LEMMA CallBegins == ASSUME IInv, NEW t \in Thread, NEW b \in Batches, Call(t, b) PROVE IInv'
<1> USE DEF Call, Tables, Tx, Progress
<1>t. TypeOK /\ CallOK(t) /\ b \in Seq(Event)
  BY BatchesAssumption DEF IInv
<1>1. TypeOK'
  <2>1. {b[i] : i \in DOMAIN b} \subseteq Event
    BY <1>t
  <2> QED
    BY <1>t, <2>1 DEF TypeOK
<1>2. OthersKept(t)
  BY <1>t DEF OthersKept, TypeOK
<1>3. \A k \in Key : holder[k] # t
  BY DEF IInv, Locks, Outside
<1>4. CallOK(t)'
  BY <1>t, Typed DEF CallOK, Outside, TypeOK, More
<1>5. WorkOK(t)'
  BY <1>t DEF WorkOK, Begun, Done, CallOK, Outside, TypeOK
<1>6. Locks'
  BY <1>t, <1>3 DEF IInv, Locks, Outside, TypeOK
<1>7. Accounts'
  <2>1. /\ InBatch(t)' = {b[i] : i \in DOMAIN b}
        /\ \A u \in Thread \ {t} : InBatch(u)' = InBatch(u)
    BY <1>t DEF InBatch, TypeOK
  <2>2. Committed' = Committed /\ InBatch(t)' \cap logged = {} /\ InBatch(t)' \subseteq logged'
    BY <2>1 DEF Committed
  <2> QED
    BY <2>1, <2>2 DEF IInv, Accounts
<1>8. Versions'
  BY <1>1, <1>2, <1>3, KeysApart, VersionsKept
<1>9. AckedDurable' /\ PoolOK'
  <2>1. Connected' \subseteq Connected
    BY <1>t DEF Connected, TypeOK
  <2> QED
    BY <2>1, PoolKept, AckedKept
<1> QED
  BY <1>1, <1>2, <1>4, <1>5, <1>6, <1>7, <1>8, <1>9, Others DEF IInv

(* A thread calls log_evaluation or log_ground_truth (stores.py:461-464). *)
LEMMA NoteBegins == ASSUME IInv, NEW t \in Thread, NEW n \in Note, CallNote(t, n) PROVE IInv'
<1> USE DEF CallNote, Tables, Tx, Progress
<1>t. TypeOK /\ CallOK(t) /\ n # NoNote
  BY NoNoteAssumption DEF IInv
<1>1. TypeOK'
  BY <1>t DEF TypeOK
<1>2. OthersKept(t)
  BY <1>t DEF OthersKept, TypeOK
<1>3. \A k \in Key : holder[k] # t
  BY DEF IInv, Locks, Outside
<1>4. CallOK(t)'
  BY <1>t DEF CallOK, Outside, TypeOK, More
<1>5. WorkOK(t)'
  BY <1>t DEF WorkOK, Begun, Done, CallOK, Outside, TypeOK
<1>6. Locks'
  BY <1>t, <1>3, KeysApart DEF IInv, Locks, Outside, TypeOK
<1>7. Accounts'
  BY AccountsKept
<1>8. Versions'
  BY <1>1, <1>2, <1>3, KeysApart, VersionsKept
<1>9. AckedDurable' /\ PoolOK'
  <2>1. Connected' \subseteq Connected
    BY <1>t DEF Connected, TypeOK
  <2> QED
    BY <2>1, PoolKept, AckedKept
<1> QED
  BY <1>1, <1>2, <1>4, <1>5, <1>6, <1>7, <1>8, <1>9, Others DEF IInv

(* getconn finds a connection (stores.py:299-303). *)
LEMMA Connects == ASSUME IInv, NEW t \in Thread, Connect(t) PROVE IInv'
<1> USE DEF Connect, Tables, Tx, Caller, Progress
<1>t. TypeOK /\ CallOK(t)
  BY DEF IInv
<1>1. TypeOK'
  BY <1>t DEF TypeOK
<1>2. OthersKept(t)
  BY <1>t DEF OthersKept, TypeOK
<1>3. \A k \in Key : holder[k] # t
  BY DEF IInv, Locks, Outside
<1>4. CallOK(t)'
  BY <1>t DEF CallOK, Outside, TypeOK, More
<1>5. WorkOK(t)'
  BY <1>t DEF WorkOK, Begun, Done, CallOK, Outside, TypeOK
<1>6. Locks'
  BY <1>t, <1>3, KeysApart DEF IInv, Locks, Outside, TypeOK
<1>7. Accounts'
  BY AccountsKept
<1>8. Versions'
  BY <1>1, <1>2, <1>3, KeysApart, VersionsKept
<1>9. AckedDurable'
  BY AckedKept
<1>10. PoolOK'
  <2>1. Connected' = Connected \cup {t} /\ t \notin Connected
    BY <1>t DEF Connected, TypeOK
  <2>2. /\ IsFiniteSet(Connected') /\ Cardinality(Connected') = Cardinality(Connected) + 1
        /\ Cardinality(Connected) \in Nat
    BY <2>1, FS_AddElement, FS_CardinalityType DEF IInv, PoolOK
  <2> QED
    BY <2>2, BatchesAssumption DEF PoolOK
<1> QED
  BY <1>1, <1>2, <1>4, <1>5, <1>6, <1>7, <1>8, <1>9, <1>10, Others DEF IInv

(* The SELECT finds the call's own version, or the committed one           *)
(* (stores.py:372-376).                                                    *)
LEMMA Selects == ASSUME IInv, NEW t \in Thread, SelectTrace(t) PROVE IInv'
<1> USE DEF SelectTrace, Tables, Tx, Caller
<1>t. TypeOK /\ CallOK(t) /\ WorkOK(t) /\ Current(t) \in Event /\ TraceOf[Current(t)] \in Trace
  BY EventsTyped DEF IInv, CallOK
<1>1. TypeOK'
  BY <1>t DEF TypeOK
<1>2. OthersKept(t)
  BY <1>t DEF OthersKept, TypeOK
<1>3. Done(t)' = Done(t) /\ Begun(t)' = Begun(t) /\ Current(t)' = Current(t)
  BY <1>t DEF Done, Begun, Current, TypeOK
<1>4. CallOK(t)'
  BY <1>t DEF CallOK, Outside, TypeOK, More, Current
<1>5. WorkOK(t)'
  BY <1>t, <1>3 DEF WorkOK, ProjectIn, ChunkIn, TypeOK
<1>6. Locks'
  BY <1>t, KeysApart DEF IInv, Locks, Outside, TypeOK
<1>7. Accounts'
  BY AccountsKept
<1>8. Versions'
  BY <1>1, <1>2, <1>3, KeysApart, VersionsKept
<1>9. AckedDurable' /\ PoolOK'
  <2>1. Connected' \subseteq Connected
    BY <1>t DEF Connected, TypeOK
  <2> QED
    BY <2>1, PoolKept, AckedKept
<1> QED
  BY <1>1, <1>2, <1>4, <1>5, <1>6, <1>7, <1>8, <1>9, Others DEF IInv

------------------------------------------------------------------------------
(* Statements that may insert a row: a project, a chunk, a note.           *)

(* A row is taken, if it has to be, and no other changes hands. *)
Took(t, k, yes) ==
  /\ holder' \in [Key -> Thread \cup {NoThread}]
  /\ \A u \in Thread \ {t} : \A l \in Key : holder'[l] = u <=> holder[l] = u
  /\ \A l \in Key : holder[l] = t => holder'[l] = t
  /\ \A l \in Key \ {k} : holder'[l] = holder[l]
  /\ yes => holder'[k] = t

(* A row is only taken from nobody (stores.py:366-369, 429-434). *)
LEMMA Acquired ==
  ASSUME TypeOK, NEW t \in Thread, NEW k \in Key, NEW yes \in BOOLEAN,
         yes => Free(t, k),
         holder' = IF yes THEN [holder EXCEPT ![k] = t] ELSE holder
  PROVE  Took(t, k, yes)
  BY KeysApart DEF TypeOK, Free, Took

(* What a call has written stays written while it keeps what it holds. *)
LEMMA WorkKept ==
  ASSUME IInv, NEW t \in Thread, \A l \in Key : holder[l] = t => holder'[l] = t,
         call' = call, project \subseteq project', chunk \subseteq chunk'
  PROVE  /\ \A i \in 1..Begun(t) : ProjectIn(t, call[t][i])'
         /\ \A i \in 1..Done(t) : holder'[TraceOf[call[t][i]]] = t
         /\ \A i \in 1..at[t] : \A j \in DOMAIN ChunksOf[call[t][i]] :
              ChunkIn(t, ChunksOf[call[t][i]][j])'
         /\ pc[t] = "chunks" => \A j \in 1..put[t] :
              \A l \in Chunk : l = ChunksOf[Current(t)][j] => ChunkIn(t, l)'
<1>1. CallOK(t) /\ WorkOK(t) /\ TypeOK
  BY DEF IInv
<1>2. /\ \A i \in 1..Begun(t) : i \in 1..Len(call[t])
      /\ \A i \in 1..Done(t) : i \in 1..Len(call[t])
      /\ \A i \in 1..at[t] : i \in 1..Len(call[t])
  BY <1>1, EventsTyped, Typed
<1>3. /\ \A l \in Project : (l \in project \/ holder[l] = t) => (l \in project' \/ holder'[l] = t)
      /\ \A l \in Chunk : ChunkIn(t, l) => ChunkIn(t, l)'
  BY KeysApart DEF ChunkIn
<1>4. \A i \in 1..Begun(t) : ProjectIn(t, call[t][i])'
  BY <1>1, <1>2, <1>3, EventsTyped DEF WorkOK, ProjectIn
<1>5. \A i \in 1..Done(t) : holder'[TraceOf[call[t][i]]] = t
  BY <1>1, <1>2, EventsTyped, KeysApart DEF WorkOK
<1>6. ASSUME NEW i \in 1..at[t], NEW j \in DOMAIN ChunksOf[call[t][i]]
      PROVE  ChunkIn(t, ChunksOf[call[t][i]][j])'
  <2>1. ChunksOf[call[t][i]] \in Seq(Chunk)
    BY <1>1, <1>2, EventsTyped
  <2>2. ChunksOf[call[t][i]][j] \in Chunk
    BY <2>1
  <2>3. ChunkIn(t, ChunksOf[call[t][i]][j])
    BY <1>1 DEF WorkOK
  <2> QED
    BY <1>3, <2>2, <2>3 DEF ChunkIn
<1>7. pc[t] = "chunks" => \A j \in 1..put[t] :
              \A l \in Chunk : l = ChunksOf[Current(t)][j] => ChunkIn(t, l)'
  BY <1>1, <1>3 DEF WorkOK
<1> QED
  BY <1>4, <1>5, <1>6, <1>7

(* The locks are in order when a row of a project or a chunk is taken. *)
LEMMA LocksKept ==
  ASSUME IInv, NEW t \in Thread, OthersKept(t), ~Outside(t)', note' = note, dirty' = dirty,
         \A l \in Trace \cup Slot : holder'[l] = holder[l]
  PROVE  Locks'
<1>1. \A u \in Thread : Outside(u)' => \A l \in Key : holder'[l] # u
  <2> SUFFICES ASSUME NEW u \in Thread, Outside(u)', NEW l \in Key PROVE holder'[l] # u
    OBVIOUS
  <2>1. u # t
    OBVIOUS
  <2>2. Outside(u)
    BY <2>1 DEF OthersKept, Outside
  <2> QED
    BY <2>1, <2>2 DEF IInv, Locks, OthersKept
<1>2. \A tr \in Trace : dirty'[tr] # NoRow <=> holder'[tr] # NoThread
  BY DEF IInv, Locks
<1>3. \A s \in Slot : \A u \in Thread :
        holder'[s] = u => note'[u] # NoNote /\ note'[u].slot = s
  BY DEF IInv, Locks
<1> QED
  BY <1>1, <1>2, <1>3 DEF Locks

(* INSERT INTO projects ... ON CONFLICT DO NOTHING (stores.py:366-370). *)
LEMMA ProjectInserted == ASSUME IInv, NEW t \in Thread, InsertProject(t) PROVE IInv'
<1> USE DEF InsertProject, Tables, Caller, Progress
<1> DEFINE k == ProjectOf[Current(t)]
<1>t. /\ TypeOK /\ CallOK(t) /\ WorkOK(t) /\ pc[t] = "project"
      /\ Current(t) = call[t][at[t] + 1] /\ k \in Project /\ k \in Key
  BY EventsTyped, KeysApart DEF IInv
<1>h. /\ holder' \in [Key -> Thread \cup {NoThread}]
      /\ \A u \in Thread \ {t} : \A l \in Key : holder'[l] = u <=> holder[l] = u
      /\ \A l \in Key : holder[l] = t => holder'[l] = t
      /\ \A l \in Key \ {k} : holder'[l] = holder[l]
      /\ k \notin project => holder'[k] = t
  <2>1. (k \notin project) \in BOOLEAN /\ (k \notin project => Free(t, k))
    OBVIOUS
  <2>2. holder' = IF k \notin project THEN [holder EXCEPT ![k] = t] ELSE holder
    OBVIOUS
  <2> HIDE DEF k
  <2>3. Took(t, k, k \notin project)
    BY <1>t, <2>1, <2>2, Acquired
  <2> QED
    BY <2>3 DEF Took
<1>1. TypeOK'
  BY <1>t, <1>h DEF TypeOK
<1>2. OthersKept(t)
  BY <1>t, <1>h DEF OthersKept, TypeOK
<1>3. /\ Done(t) = at[t] /\ Done(t)' = at[t] /\ Begun(t) = at[t] /\ Begun(t)' = at[t] + 1
      /\ pc'[t] = "select" /\ at[t] \in Nat
  BY <1>t, Typed DEF Done, Begun, TypeOK
<1>4. CallOK(t)'
  BY <1>t, <1>3, SentinelsApart DEF CallOK, Outside, More, Current
<1>5. WorkOK(t)'
  <2>1. \A i \in 1..(at[t] + 1) : ProjectIn(t, call[t][i])'
    <3> SUFFICES ASSUME NEW i \in 1..(at[t] + 1) PROVE ProjectIn(t, call[t][i])'
      OBVIOUS
    <3>1. CASE i = at[t] + 1
      BY <1>t, <1>h, <3>1 DEF ProjectIn
    <3>2. CASE i \in 1..at[t]
      BY <1>3, <1>h, <3>2, WorkKept
    <3> QED
      BY <3>1, <3>2, <1>3
  <2> QED
    BY <1>3, <1>h, <2>1, WorkKept DEF WorkOK
<1>6. Locks'
  BY <1>t, <1>h, <1>2, <1>3, KeysApart, LocksKept DEF Outside
<1>7. Accounts'
  BY AccountsKept
<1>8. Versions'
  BY <1>1, <1>2, <1>3, <1>h, <1>t, KeysApart, VersionsKept
<1>9. AckedDurable' /\ PoolOK'
  <2>1. Connected' \subseteq Connected
    BY <1>t DEF Connected, TypeOK
  <2> QED
    BY <2>1, PoolKept, AckedKept
<1> QED
  BY <1>1, <1>2, <1>4, <1>5, <1>6, <1>7, <1>8, <1>9, Others DEF IInv

(* The row of an evaluation or a ground truth is written (stores.py:464-471). *)
LEMMA NoteWritten == ASSUME IInv, NEW t \in Thread, WriteNote(t) PROVE IInv'
<1> USE DEF WriteNote, Tables, Caller, Progress
<1> DEFINE k == note[t].slot
<1>t. /\ TypeOK /\ CallOK(t) /\ WorkOK(t) /\ k \in Slot /\ k \in Key /\ note[t] # NoNote
      /\ call[t] = <<>> /\ at[t] = 0
  BY KeysApart, Typed DEF IInv, CallOK, TypeOK, Note
<1>h. /\ holder' \in [Key -> Thread \cup {NoThread}]
      /\ \A u \in Thread \ {t} : \A l \in Key : holder'[l] = u <=> holder[l] = u
      /\ \A l \in Key : holder[l] = t => holder'[l] = t
      /\ \A l \in Key \ {k} : holder'[l] = holder[l]
      /\ holder'[k] = t
  <2>1. holder' = IF TRUE THEN [holder EXCEPT ![k] = t] ELSE holder
    OBVIOUS
  <2>2. Free(t, k) /\ TRUE \in BOOLEAN
    OBVIOUS
  <2> HIDE DEF k
  <2>3. Took(t, k, TRUE)
    BY <1>t, <2>1, <2>2, Acquired
  <2> QED
    BY <2>3 DEF Took
<1>1. TypeOK'
  BY <1>t, <1>h DEF TypeOK
<1>2. OthersKept(t)
  BY <1>t, <1>h DEF OthersKept, TypeOK
<1>3. Done(t) = 0 /\ Done(t)' = 0 /\ Begun(t)' = 0 /\ pc'[t] = "project"
  BY <1>t DEF Done, Begun, TypeOK
<1>4. CallOK(t)'
  BY <1>t, <1>3 DEF CallOK, Outside, More, Current
<1>5. WorkOK(t)'
  BY <1>t, <1>3 DEF WorkOK
<1>6. Locks'
  <2>1. \A u \in Thread : Outside(u)' => \A l \in Key : holder'[l] # u
    BY <1>t, <1>h, <1>3, <1>2, KeysApart DEF IInv, Locks, Outside, TypeOK, OthersKept
  <2>2. \A tr \in Trace : dirty'[tr] # NoRow <=> holder'[tr] # NoThread
    BY <1>t, <1>h, KeysApart DEF IInv, Locks
  <2>3. \A s \in Slot : \A u \in Thread :
          holder'[s] = u => note'[u] # NoNote /\ note'[u].slot = s
    BY <1>t, <1>h, KeysApart DEF IInv, Locks
  <2> QED
    BY <2>1, <2>2, <2>3 DEF Locks
<1>7. Accounts'
  BY AccountsKept
<1>8. Versions'
  BY <1>1, <1>2, <1>3, <1>h, <1>t, KeysApart, VersionsKept
<1>9. AckedDurable' /\ PoolOK'
  <2>1. Connected' \subseteq Connected
    BY <1>t DEF Connected, TypeOK
  <2> QED
    BY <2>1, PoolKept, AckedKept
<1> QED
  BY <1>1, <1>2, <1>4, <1>5, <1>6, <1>7, <1>8, <1>9, Others DEF IInv

(* INSERT INTO chunks ... ON CONFLICT DO NOTHING (stores.py:416-459). *)
LEMMA ChunkInserted == ASSUME IInv, NEW t \in Thread, InsertChunk(t) PROVE IInv'
<1> USE DEF InsertChunk, Tables, Caller
<1> DEFINE k == NextChunk(t)
           e == Current(t)
<1>t. /\ TypeOK /\ CallOK(t) /\ WorkOK(t) /\ pc[t] = "chunks"
      /\ e = call[t][at[t] + 1] /\ at[t] + 1 \in 1..Len(call[t]) /\ e \in Event
      /\ ChunksOf[e] \in Seq(Chunk)
      /\ put[t] \in Nat /\ at[t] \in Nat /\ put[t] < Len(ChunksOf[e])
      /\ call[t] \in Seq(Event) /\ seen[t] = NoRow /\ note[t] = NoNote
  BY EventsTyped, KeysApart, Typed DEF IInv, CallOK
<1>k. k = ChunksOf[e][put[t] + 1] /\ k \in Chunk /\ k \in Key
  BY <1>t, KeysApart DEF NextChunk
<1>h. /\ holder' \in [Key -> Thread \cup {NoThread}]
      /\ \A u \in Thread \ {t} : \A l \in Key : holder'[l] = u <=> holder[l] = u
      /\ \A l \in Key : holder[l] = t => holder'[l] = t
      /\ \A l \in Key \ {k} : holder'[l] = holder[l]
      /\ k \notin chunk => holder'[k] = t
  <2>1. (k \notin chunk) \in BOOLEAN /\ (k \notin chunk => Free(t, k))
    OBVIOUS
  <2>2. holder' = IF k \notin chunk THEN [holder EXCEPT ![k] = t] ELSE holder
    OBVIOUS
  <2> HIDE DEF InsertChunk, Tables, Caller, k
  <2>3. Took(t, k, k \notin chunk)
    BY <1>t, <1>k, <2>1, <2>2, Acquired
  <2> QED
    BY <2>3 DEF Took
<1>g. \/ /\ put[t] + 1 < Len(ChunksOf[e]) /\ pc' = [pc EXCEPT ![t] = "chunks"]
         /\ put' = [put EXCEPT ![t] = put[t] + 1] /\ at' = at
      \/ /\ put[t] + 1 = Len(ChunksOf[e]) /\ pc' = [pc EXCEPT ![t] = "project"]
         /\ put' = [put EXCEPT ![t] = 0] /\ at' = [at EXCEPT ![t] = at[t] + 1]
  BY <1>t DEF GoOn
<1> HIDE DEF e, k
<1>1. TypeOK'
  <2>1. at' \in [Thread -> Nat] /\ put' \in [Thread -> Nat]
    <3>1. /\ at \in [Thread -> Nat] /\ put \in [Thread -> Nat]
          /\ put[t] + 1 \in Nat /\ at[t] + 1 \in Nat /\ 0 \in Nat
      BY <1>t, Typed
    <3> QED
      BY <1>g, <3>1
  <2>2. pc' = [pc EXCEPT ![t] = "chunks"] \/ pc' = [pc EXCEPT ![t] = "project"]
    BY <1>g
  <2> QED
    BY <1>t, <1>h, <2>1, <2>2 DEF TypeOK
<1>2. OthersKept(t)
  BY <1>t, <1>h, <1>g DEF OthersKept, TypeOK
<1>3. /\ Done(t) = at[t] + 1 /\ Done(t)' = at[t] + 1
      /\ Begun(t) = at[t] + 1 /\ Begun(t)' = at[t] + 1
      /\ pc'[t] \in {"chunks", "project"}
  BY <1>t, <1>g DEF Done, Begun, TypeOK
<1>4. CallOK(t)'
  <2>1. CASE put[t] + 1 < Len(ChunksOf[e])
    <3>1. pc' = pc /\ at' = at /\ put'[t] = put[t] + 1 /\ Current(t)' = e
      BY <1>t, <1>g, <2>1, Typed DEF Current, TypeOK, e
    <3> QED
      BY <1>t, <2>1, <3>1 DEF CallOK, Outside, More
  <2>2. CASE put[t] + 1 = Len(ChunksOf[e])
    <3>1. pc'[t] = "project" /\ at'[t] = at[t] + 1 /\ put'[t] = 0
      BY <1>t, <1>g, <2>2, Typed DEF TypeOK
    <3> QED
      BY <1>t, <3>1 DEF CallOK, Outside, More
  <2> QED
    BY <1>g, <2>1, <2>2
<1>5. WorkOK(t)'
  <2>1. /\ \A i \in 1..(at[t] + 1) : ProjectIn(t, call[t][i])'
        /\ \A i \in 1..(at[t] + 1) : holder'[TraceOf[call[t][i]]] = t
        /\ \A i \in 1..at[t] : \A j \in DOMAIN ChunksOf[call[t][i]] :
             ChunkIn(t, ChunksOf[call[t][i]][j])'
    BY <1>3, <1>h, WorkKept
  <2>5. \A j \in 1..(put[t] + 1) : \A l \in Chunk : l = ChunksOf[e][j] => ChunkIn(t, l)'
    <3> SUFFICES ASSUME NEW j \in 1..(put[t] + 1), NEW l \in Chunk, l = ChunksOf[e][j]
                 PROVE  ChunkIn(t, l)'
      OBVIOUS
    <3>1. CASE j = put[t] + 1
      BY <1>h, <1>k, <3>1 DEF ChunkIn
    <3>2. CASE j \in 1..put[t]
      BY <1>t, <1>h, <3>2, WorkKept DEF e
    <3> QED
      BY <1>t, <3>1, <3>2
  <2>6. CASE put[t] + 1 < Len(ChunksOf[e])
    <3>1. pc'[t] = "chunks" /\ at' = at /\ put'[t] = put[t] + 1 /\ Current(t)' = e
      BY <1>t, <1>g, <2>6, Typed DEF Current, TypeOK, e
    <3>2. \A j \in 1..(put[t] + 1) : ChunkIn(t, ChunksOf[Current(t)][j])'
      <4> SUFFICES ASSUME NEW j \in 1..(put[t] + 1) PROVE ChunkIn(t, ChunksOf[Current(t)][j])'
        OBVIOUS
      <4>1. j \in 1..Len(ChunksOf[e])
        BY <1>t, <2>6
      <4>2. PICK l \in Chunk : l = ChunksOf[e][j]
        BY <1>t, <4>1
      <4> QED
        BY <2>5, <3>1, <4>2 DEF ChunkIn
    <3> QED
      BY <1>3, <2>1, <3>1, <3>2 DEF WorkOK
  <2>7. CASE put[t] + 1 = Len(ChunksOf[e])
    <3>1. pc'[t] = "project" /\ at'[t] = at[t] + 1
      BY <1>t, <1>g, <2>7, Typed DEF TypeOK
    <3>2. \A i \in 1..(at[t] + 1) : \A j \in DOMAIN ChunksOf[call[t][i]] :
            ChunkIn(t, ChunksOf[call[t][i]][j])'
      <4> SUFFICES ASSUME NEW i \in 1..(at[t] + 1), NEW j \in DOMAIN ChunksOf[call[t][i]]
                   PROVE  ChunkIn(t, ChunksOf[call[t][i]][j])'
        OBVIOUS
      <4>1. CASE i \in 1..at[t]
        BY <2>1, <4>1
      <4>2. CASE i = at[t] + 1
        <5>1. j \in 1..Len(ChunksOf[e]) /\ j \in 1..(put[t] + 1)
          BY <1>t, <2>7, <4>2
        <5>2. PICK l \in Chunk : l = ChunksOf[e][j]
          BY <1>t, <5>1
        <5>3. l = ChunksOf[call'[t][i]][j]
          BY <1>t, <4>2, <5>2
        <5> QED
          BY <2>5, <5>1, <5>2, <5>3 DEF ChunkIn
      <4> QED
        BY <1>t, <4>1, <4>2
    <3> QED
      BY <1>3, <2>1, <3>1, <3>2 DEF WorkOK
  <2> QED
    BY <1>g, <2>6, <2>7
<1>6. Locks'
  BY <1>t, <1>k, <1>h, <1>3, <1>2, KeysApart, LocksKept DEF Outside
<1>7. Accounts'
  BY AccountsKept
<1>8. Versions'
  BY <1>1, <1>2, <1>3, <1>h, <1>k, <1>t, KeysApart, VersionsKept
<1>9. AckedDurable' /\ PoolOK'
  <2>1. Connected' \subseteq Connected
    BY <1>t, <1>g DEF Connected, TypeOK
  <2> QED
    BY <2>1, PoolKept, AckedKept
<1> QED
  BY <1>1, <1>2, <1>4, <1>5, <1>6, <1>7, <1>8, <1>9, Others DEF IInv

------------------------------------------------------------------------------
(* The row of the trace (stores.py:352-414). *)

(* A row that is inserted covers its event, and one that is computed from  *)
(* another covers it and whatever the other covered: bounds only widen and *)
(* an error stays one (stores.py:358-364).                                 *)
LEMMA RowsCover ==
  ASSUME NEW e \in Event
  PROVE  /\ NewRow(e) \in Row /\ Covers(NewRow(e), e)
         /\ \A r \in Row :
              /\ MergedRow(r, e) \in Row /\ Covers(MergedRow(r, e), e)
              /\ \A f \in Event : Covers(r, f) => Covers(MergedRow(r, e), f)
              /\ Extends(MergedRow(r, e), r)
              /\ \A q \in Row : Extends(r, q) => Extends(MergedRow(r, e), q)
<1>1. /\ StartOf[e] \in Int /\ EndOf[e] \in Int /\ ProjectOf[e] \in Project
      /\ QueryOf[e] \in Query \cup {NoQuery}
      /\ \A f \in Event : StartOf[f] \in Int /\ EndOf[f] \in Int
  BY EventData
<1>2. NewRow(e) \in Row /\ Covers(NewRow(e), e)
  BY <1>1 DEF NewRow, Row, Covers
<1>3. ASSUME NEW r \in Row
      PROVE  /\ MergedRow(r, e) \in Row /\ Covers(MergedRow(r, e), e)
             /\ \A f \in Event : Covers(r, f) => Covers(MergedRow(r, e), f)
             /\ Extends(MergedRow(r, e), r)
             /\ \A q \in Row : Extends(r, q) => Extends(MergedRow(r, e), q)
  <2> DEFINE m == MergedRow(r, e)
  <2>1. /\ r.project \in Project /\ r.query \in Query \cup {NoQuery}
        /\ r.start \in Int /\ r.end \in Int /\ r.status \in {"ok", "error"}
    BY DEF Row
  <2>2. /\ m.project = r.project
        /\ m.start = IF StartOf[e] < r.start THEN StartOf[e] ELSE r.start
        /\ m.end = IF EndOf[e] > r.end THEN EndOf[e] ELSE r.end
        /\ m.query = IF r.query = NoQuery THEN QueryOf[e] ELSE r.query
        /\ m.status = IF e \in Failed THEN "error" ELSE r.status
    BY DEF MergedRow, Row
  <2>3. m \in Row
    <3>1. /\ (IF StartOf[e] < r.start THEN StartOf[e] ELSE r.start) \in Int
          /\ (IF EndOf[e] > r.end THEN EndOf[e] ELSE r.end) \in Int
          /\ (IF r.query = NoQuery THEN QueryOf[e] ELSE r.query) \in Query \cup {NoQuery}
          /\ (IF e \in Failed THEN "error" ELSE r.status) \in {"ok", "error"}
      BY <1>1, <2>1
    <3> QED
      BY <3>1 DEF MergedRow, Row
  <2> HIDE DEF m
  <2>4. Covers(m, e) /\ \A f \in Event : Covers(r, f) => Covers(m, f)
    BY <1>1, <2>1, <2>2 DEF Covers
  <2>5. Extends(m, r)
    BY <1>1, <2>1, <2>2 DEF Extends
  <2>6. ASSUME NEW q \in Row, Extends(r, q) PROVE Extends(m, q)
    <3>1. q.start \in Int /\ q.end \in Int
      BY DEF Row
    <3> QED
      BY <1>1, <2>1, <2>2, <2>6, <3>1 DEF Extends
  <2> QED
    BY <2>3, <2>4, <2>5, <2>6 DEF m
<1> QED
  BY <1>2, <1>3

(* A version is written: unless the trace is or gets stale, it covers what *)
(* is committed and what its call wrote to the trace before.               *)
LEMMA VersionWritten ==
  ASSUME IInv, NEW t \in Thread, pc[t] = "write", NEW tr \in Trace, tr = TraceOf[Current(t)],
         Free(t, tr), NEW r \in Row, WriteVersion(t, tr, r), UNCHANGED <<Tables, Caller>>,
         stale \subseteq stale', stale' \subseteq Trace,
         tr \notin stale' =>
           /\ Covers(r, Current(t))
           /\ \A e \in Committed : TraceOf[e] = tr => Covers(r, e)
           /\ holder[tr] = t =>
                \A i \in 1..at[t] : TraceOf[call[t][i]] = tr => Covers(r, call[t][i])
           /\ row[tr] # NoRow => Extends(r, row[tr])
  PROVE  IInv'
<1> USE DEF WriteVersion, Tables, Caller
<1> DEFINE e == Current(t)
<1>t. /\ TypeOK /\ CallOK(t) /\ WorkOK(t)
      /\ e = call[t][at[t] + 1] /\ at[t] + 1 \in 1..Len(call[t]) /\ e \in Event
      /\ ChunksOf[e] \in Seq(Chunk) /\ tr \in Key
      /\ put[t] = 0 /\ at[t] \in Nat /\ call[t] \in Seq(Event) /\ note[t] = NoNote
  BY EventsTyped, KeysApart, Typed DEF IInv, CallOK
<1>h. /\ holder' \in [Key -> Thread \cup {NoThread}]
      /\ \A u \in Thread \ {t} : \A l \in Key : holder'[l] = u <=> holder[l] = u
      /\ \A l \in Key : holder[l] = t => holder'[l] = t
      /\ \A l \in Key \ {tr} : holder'[l] = holder[l]
      /\ holder'[tr] = t
  <2>1. holder' = IF TRUE THEN [holder EXCEPT ![tr] = t] ELSE holder
    OBVIOUS
  <2>2. Free(t, tr) /\ TRUE \in BOOLEAN
    OBVIOUS
  <2>3. Took(t, tr, TRUE)
    BY <1>t, <2>1, <2>2, Acquired
  <2> QED
    BY <2>3 DEF Took
<1>g. /\ put' = [put EXCEPT ![t] = 0]
      /\ \/ 0 < Len(ChunksOf[e]) /\ pc' = [pc EXCEPT ![t] = "chunks"] /\ at' = at
         \/ /\ 0 = Len(ChunksOf[e]) /\ pc' = [pc EXCEPT ![t] = "project"]
            /\ at' = [at EXCEPT ![t] = at[t] + 1]
  BY <1>t DEF GoOn
<1>d. /\ dirty' = [dirty EXCEPT ![tr] = r] /\ dirty'[tr] = r /\ r # NoRow
      /\ \A q \in Trace \ {tr} : dirty'[q] = dirty[q]
      /\ \A u \in Thread \ {t} : holder[tr] # u
  BY <1>t, KeysApart, NoRowAssumption DEF TypeOK, Free
<1> HIDE DEF e
<1>1. TypeOK'
  <2>1. at' \in [Thread -> Nat] /\ put' \in [Thread -> Nat]
    <3>1. /\ at \in [Thread -> Nat] /\ put \in [Thread -> Nat]
          /\ at[t] + 1 \in Nat /\ 0 \in Nat
      BY <1>t, Typed
    <3> QED
      BY <1>g, <3>1
  <2>2. pc' = [pc EXCEPT ![t] = "chunks"] \/ pc' = [pc EXCEPT ![t] = "project"]
    BY <1>g
  <2> QED
    BY <1>t, <1>h, <2>1, <2>2 DEF TypeOK
<1>2. OthersKept(t)
  BY <1>t, <1>h, <1>g, <1>d DEF OthersKept, TypeOK
<1>3. /\ Done(t) = at[t] /\ Begun(t) = at[t] + 1
      /\ Done(t)' = at[t] + 1 /\ Begun(t)' = at[t] + 1
      /\ pc'[t] \in {"chunks", "project"} /\ put'[t] = 0 /\ seen'[t] = NoRow
      /\ at'[t] = IF pc'[t] = "chunks" THEN at[t] ELSE at[t] + 1
      /\ pc'[t] = "chunks" <=> 0 < Len(ChunksOf[e])
  BY <1>t, <1>g, Typed DEF Done, Begun, TypeOK
<1>4. CallOK(t)'
  <2>1. pc'[t] = "chunks" => Current(t)' = e
    BY <1>t, <1>3 DEF Current
  <2> QED
    BY <1>t, <1>3, <2>1 DEF CallOK, Outside, More
<1>5. WorkOK(t)'
  <2>1. /\ \A i \in 1..(at[t] + 1) : ProjectIn(t, call[t][i])'
        /\ \A i \in 1..at[t] : holder'[TraceOf[call[t][i]]] = t
        /\ \A i \in 1..at[t] : \A j \in DOMAIN ChunksOf[call[t][i]] :
             ChunkIn(t, ChunksOf[call[t][i]][j])'
    BY <1>3, <1>h, WorkKept
  <2>2. \A i \in 1..(at[t] + 1) : holder'[TraceOf[call[t][i]]] = t
    BY <1>t, <1>h, <2>1 DEF e
  <2>3. \A i \in 1..at'[t] : \A j \in DOMAIN ChunksOf[call[t][i]] :
             ChunkIn(t, ChunksOf[call[t][i]][j])'
    <3>1. CASE pc'[t] = "chunks"
      BY <1>3, <2>1, <3>1
    <3>2. CASE pc'[t] # "chunks"
      <4> SUFFICES ASSUME NEW i \in 1..at'[t], NEW j \in DOMAIN ChunksOf[call[t][i]]
                   PROVE  ChunkIn(t, ChunksOf[call[t][i]][j])'
        OBVIOUS
      <4>1. DOMAIN ChunksOf[call[t][at[t] + 1]] = {}
        BY <1>t, <1>3, <3>2
      <4>2. i \in 1..at[t]
        BY <1>t, <1>3, <3>2, <4>1
      <4> QED
        BY <2>1, <4>2
    <3> QED
      BY <3>1, <3>2
  <2> QED
    BY <1>3, <2>1, <2>2, <2>3 DEF WorkOK
<1>6. Locks'
  <2>1. \A u \in Thread : Outside(u)' => \A l \in Key : holder'[l] # u
    <3> SUFFICES ASSUME NEW u \in Thread, Outside(u)', NEW l \in Key PROVE holder'[l] # u
      OBVIOUS
    <3>1. u # t
      BY <1>3 DEF Outside
    <3>2. Outside(u)
      BY <1>2, <3>1 DEF OthersKept, Outside
    <3> QED
      BY <1>h, <3>1, <3>2 DEF IInv, Locks
  <2>2. \A q \in Trace : dirty'[q] # NoRow <=> holder'[q] # NoThread
    BY <1>h, <1>d, KeysApart DEF IInv, Locks
  <2>3. \A s \in Slot : \A u \in Thread :
          holder'[s] = u => note'[u] # NoNote /\ note'[u].slot = s
    BY <1>h, KeysApart DEF IInv, Locks
  <2> QED
    BY <2>1, <2>2, <2>3 DEF Locks
<1>7. Accounts'
  BY AccountsKept
<1>8. Versions'
  <2>v. Versions
    BY DEF IInv
  <2>1. Committed' = Committed
    BY DEF Committed
  <2>2. \A f \in Committed : row'[TraceOf[f]] # NoRow
    BY <2>v DEF Versions
  <2>3. ASSUME NEW q \in Trace \ stale', NEW f \in Committed, TraceOf[f] = q
        PROVE  Covers(row'[q], f) /\ (holder'[q] # NoThread => Covers(dirty'[q], f))
    <3>1. CASE q = tr
      BY <1>d, <2>v, <2>3, <3>1 DEF Versions
    <3>2. CASE q # tr
      BY <1>d, <1>h, <2>v, <2>3, <3>2, KeysApart DEF Versions
    <3> QED
      BY <3>1, <3>2
  <2>4. ASSUME NEW q \in Trace \ stale', NEW u \in Thread, holder'[q] = u,
               NEW i \in 1..Done(u)', TraceOf[call'[u][i]] = q
        PROVE  Covers(dirty'[q], call'[u][i])
    <3>1. CASE u # t
      <4>1. Done(u)' = Done(u) /\ holder[q] = u /\ dirty'[q] = dirty[q]
        BY <1>2, <2>4, <3>1, KeysApart DEF OthersKept, Done
      <4> QED
        BY <2>v, <2>4, <4>1 DEF Versions
    <3>2. CASE u = t /\ i = at[t] + 1
      <4>1. call'[u][i] = e /\ q = tr
        BY <1>t, <2>4, <3>2 DEF e
      <4> QED
        BY <1>d, <4>1 DEF e
    <3>3. CASE u = t /\ i \in 1..at[t] /\ q # tr
      <4>1. holder[q] = t /\ dirty'[q] = dirty[q] /\ i \in 1..Done(t)
        BY <1>h, <1>d, <1>3, <2>4, <3>3, KeysApart
      <4> QED
        BY <2>v, <2>4, <3>3, <4>1 DEF Versions
    <3>4. CASE u = t /\ i \in 1..at[t] /\ q = tr
      <4>1. holder[tr] = t
        BY <1>t, <1>3, <2>4, <3>4 DEF WorkOK
      <4> QED
        BY <1>d, <2>4, <3>4, <4>1
    <3> QED
      BY <1>t, <1>3, <2>4, <3>1, <3>2, <3>3, <3>4
  <2>5. ASSUME NEW q \in Trace \ stale', holder'[q] # NoThread, row[q] # NoRow
        PROVE  Extends(dirty'[q], row[q])
    BY <1>d, <1>h, <2>v, <2>5, KeysApart DEF Versions
  <2> QED
    BY <2>1, <2>2, <2>3, <2>4, <2>5 DEF Versions, Covers, Extends
<1>9. AckedDurable' /\ PoolOK'
  <2>1. Connected' \subseteq Connected
    BY <1>t, <1>g DEF Connected, TypeOK
  <2> QED
    BY <2>1, PoolKept, AckedKept
<1> QED
  BY <1>1, <1>2, <1>4, <1>5, <1>6, <1>7, <1>8, <1>9, Others DEF IInv

(* The INSERT: nothing of the trace is committed, and the call holds no    *)
(* version of its own, for the SELECT would have found it.                 *)
LEMMA TraceInserted == ASSUME IInv, NEW t \in Thread, InsertTrace(t) PROVE IInv'
<1> DEFINE tr == TraceOf[Current(t)]
<1>1. /\ pc[t] = "write" /\ seen[t] = NoRow /\ Free(t, tr) /\ row[tr] = NoRow
      /\ WriteVersion(t, tr, NewRow(Current(t))) /\ UNCHANGED <<Tables, Caller>>
      /\ stale' = stale
  BY DEF InsertTrace
<1>2. Current(t) \in Event /\ tr \in Trace /\ CallOK(t) /\ WorkOK(t) /\ stale \subseteq Trace
  BY <1>1, EventsTyped DEF IInv, CallOK, TypeOK
<1>3. holder[tr] # t
  <2>1. dirty[tr] # NoRow <=> holder[tr] # NoThread
    BY <1>2 DEF IInv, Locks
  <2> QED
    BY <1>1, <1>2, <2>1, KeysApart DEF WorkOK
<1>4. \A e \in Committed : TraceOf[e] # tr
  BY <1>1 DEF IInv, Versions
<1>5. NewRow(Current(t)) \in Row /\ Covers(NewRow(Current(t)), Current(t))
  BY <1>2, RowsCover
<1> HIDE DEF tr
<1> QED
  BY <1>1, <1>2, <1>3, <1>4, <1>5, VersionWritten DEF tr

(* The UPDATE: the row read is the call's own version, or the committed    *)
(* one, or the trace gets stale.                                           *)
LEMMA TraceUpdated == ASSUME IInv, NEW t \in Thread, UpdateTrace(t) PROVE IInv'
<1> DEFINE tr == TraceOf[Current(t)]
           r  == MergedRow(seen[t], Current(t))
<1>1. /\ pc[t] = "write" /\ seen[t] # NoRow /\ Free(t, tr)
      /\ WriteVersion(t, tr, r) /\ UNCHANGED <<Tables, Caller>>
      /\ stale' = IF holder[tr] # t /\ row[tr] # seen[t] THEN stale \cup {tr} ELSE stale
  BY DEF UpdateTrace
<1>2. /\ Current(t) \in Event /\ tr \in Trace /\ tr \in Key /\ CallOK(t) /\ WorkOK(t)
      /\ stale \subseteq Trace /\ seen[t] \in Row
      /\ Current(t) = call[t][at[t] + 1] /\ call[t] \in Seq(Event) /\ at[t] \in Nat
      /\ at[t] < Len(call[t])
  BY <1>1, EventsTyped, Typed, KeysApart DEF IInv, CallOK, TypeOK, More
<1>3. /\ r \in Row /\ Covers(r, Current(t))
      /\ \A f \in Event : Covers(seen[t], f) => Covers(r, f)
      /\ Extends(r, seen[t]) /\ \A q \in Row : Extends(seen[t], q) => Extends(r, q)
  BY <1>2, RowsCover
<1>4. ASSUME tr \notin stale' PROVE
        /\ \A e \in Committed : TraceOf[e] = tr => Covers(r, e)
        /\ holder[tr] = t =>
             \A i \in 1..at[t] : TraceOf[call[t][i]] = tr => Covers(r, call[t][i])
        /\ row[tr] # NoRow => Extends(r, row[tr])
  <2>c. Committed \subseteq Event
    BY DEF IInv, Accounts, TypeOK
  <2>1. CASE holder[tr] = t
    <3>1. seen[t] = dirty[tr] /\ tr \notin stale /\ holder[tr] # NoThread
      BY <1>1, <1>2, <1>4, <2>1, KeysApart DEF WorkOK
    <3>2. \A e \in Committed : TraceOf[e] = tr => Covers(seen[t], e)
      BY <1>2, <3>1 DEF IInv, Versions
    <3>3. Done(t) = at[t]
      BY <1>1 DEF Done
    <3>4. \A i \in 1..at[t] : TraceOf[call[t][i]] = tr => Covers(seen[t], call[t][i])
      BY <1>2, <2>1, <3>1, <3>3 DEF IInv, Versions
    <3>5. \A i \in 1..at[t] : call[t][i] \in Event
      BY <1>2
    <3>6. row[tr] # NoRow => row[tr] \in Row /\ Extends(seen[t], row[tr])
      BY <1>2, <3>1 DEF IInv, Versions, TypeOK
    <3> HIDE DEF r
    <3> QED
      BY <1>3, <2>c, <3>2, <3>4, <3>5, <3>6
  <2>2. CASE holder[tr] # t
    <3>1. seen[t] = row[tr] /\ tr \notin stale
      BY <1>1, <1>4, <2>2
    <3>2. \A e \in Committed : TraceOf[e] = tr => Covers(seen[t], e)
      BY <1>2, <3>1 DEF IInv, Versions
    <3> HIDE DEF r
    <3> QED
      BY <1>3, <2>c, <2>2, <3>1, <3>2
  <2> QED
    BY <2>1, <2>2
<1>5. stale \subseteq stale' /\ stale' \subseteq Trace
  BY <1>1, <1>2
<1> HIDE DEF tr, r
<1> QED
  BY <1>1, <1>2, <1>3, <1>4, <1>5, VersionWritten DEF tr

------------------------------------------------------------------------------
(* The end of a call (stores.py:299-309). *)

(* The thread lets go of what it holds, and nobody else of anything. *)
LEMMA Released ==
  ASSUME TypeOK, Locks, NEW t \in Thread, Release(t)
  PROVE  /\ holder' \in [Key -> Thread \cup {NoThread}]
         /\ dirty' \in [Trace -> Row \cup {NoRow}]
         /\ \A k \in Key : holder'[k] = IF holder[k] = t THEN NoThread ELSE holder[k]
         /\ \A tr \in Trace : dirty'[tr] = IF holder[tr] = t THEN NoRow ELSE dirty[tr]
         /\ \A tr \in Trace : dirty'[tr] # NoRow <=> holder'[tr] # NoThread
         /\ \A k \in Key : holder'[k] # t
         /\ \A u \in Thread \ {t} : \A k \in Key : holder'[k] = u <=> holder[k] = u
<1>1. /\ holder' \in [Key -> Thread \cup {NoThread}]
      /\ dirty' \in [Trace -> Row \cup {NoRow}]
      /\ \A k \in Key : holder'[k] = IF holder[k] = t THEN NoThread ELSE holder[k]
      /\ \A tr \in Trace : dirty'[tr] = IF holder[tr] = t THEN NoRow ELSE dirty[tr]
  BY DEF Release, TypeOK
<1>2. \A tr \in Trace : dirty'[tr] # NoRow <=> holder'[tr] # NoThread
  BY <1>1, KeysApart DEF Locks
<1>3. /\ \A k \in Key : holder'[k] # t
      /\ \A u \in Thread \ {t} : \A k \in Key : holder'[k] = u <=> holder[k] = u
  BY <1>1, KeysApart
<1> QED
  BY <1>1, <1>2, <1>3

(* The part of the invariant that speaks of calls and locks, when a thread *)
(* leaves its call and lets go of its rows.                                *)
LEMMA Left ==
  ASSUME IInv, NEW t \in Thread, Release(t), Leave(t),
         project \subseteq project', chunk \subseteq chunk'
  PROVE  /\ OthersKept(t) /\ Locks' /\ PoolOK'
         /\ \A u \in Thread : CallOK(u)' /\ WorkOK(u)'
         /\ InBatch(t)' = {} /\ \A u \in Thread \ {t} : InBatch(u)' = InBatch(u)
         /\ pc' \in [Thread -> {"idle", "connecting", "project", "select", "write", "chunks",
                                "note"}]
         /\ call' \in [Thread -> Seq(Event)]
         /\ note' \in [Thread -> Note \cup {NoNote}]
         /\ at' \in [Thread -> Nat] /\ put' \in [Thread -> Nat]
         /\ seen' \in [Thread -> Row \cup {NoRow}]
<1> USE DEF Leave
<1>t. /\ TypeOK /\ Locks /\ at \in [Thread -> Nat] /\ put \in [Thread -> Nat]
  BY Typed DEF IInv
<1>1. /\ pc' \in [Thread -> {"idle", "connecting", "project", "select", "write", "chunks",
                             "note"}]
      /\ call' \in [Thread -> Seq(Event)]
      /\ note' \in [Thread -> Note \cup {NoNote}]
      /\ at' \in [Thread -> Nat] /\ put' \in [Thread -> Nat]
      /\ seen' \in [Thread -> Row \cup {NoRow}]
  <2>1. <<>> \in Seq(Event) /\ 0 \in Nat
    OBVIOUS
  <2> QED
    BY <1>t, <2>1 DEF TypeOK
<1>2. /\ pc'[t] = "idle" /\ call'[t] = <<>> /\ note'[t] = NoNote
      /\ at'[t] = 0 /\ put'[t] = 0 /\ seen'[t] = NoRow
  BY <1>t DEF TypeOK
<1>3. OthersKept(t)
  BY <1>t, Released, KeysApart DEF OthersKept, TypeOK
<1>4. CallOK(t)' /\ WorkOK(t)'
  BY <1>2 DEF CallOK, WorkOK, Outside, Begun, Done, More
<1>5. Locks'
  <2>1. \A u \in Thread : Outside(u)' => \A k \in Key : holder'[k] # u
    BY <1>t, <1>3, Released DEF Locks, OthersKept, Outside
  <2>2. \A s \in Slot : \A u \in Thread :
          holder'[s] = u => note'[u] # NoNote /\ note'[u].slot = s
    <3> SUFFICES ASSUME NEW s \in Slot, NEW u \in Thread, holder'[s] = u
                 PROVE  note'[u] # NoNote /\ note'[u].slot = s
      OBVIOUS
    <3>1. u # t /\ holder[s] = u
      BY <1>t, Released, KeysApart
    <3>2. note'[u] = note[u]
      BY <1>3, <3>1 DEF OthersKept
    <3> QED
      BY <1>t, <3>1, <3>2 DEF Locks
  <2> QED
    BY <1>t, <2>1, <2>2, Released DEF Locks
<1>6. PoolOK'
  <2>1. Connected' \subseteq Connected
    BY <1>t DEF Connected, TypeOK
  <2> QED
    BY <2>1, PoolKept
<1>7. InBatch(t)' = {} /\ \A u \in Thread \ {t} : InBatch(u)' = InBatch(u)
  BY <1>2, <1>3 DEF InBatch, OthersKept
<1> QED
  BY <1>1, <1>3, <1>4, <1>5, <1>6, <1>7, Others

(* The note whose slot a thread holds says a value (stores.py:461-473). *)
LEMMA NoteValue ==
  ASSUME TypeOK, Locks, NEW t \in Thread, NEW s \in Slot, holder[s] = t
  PROVE  note[t].value \in Value
<1>1. note[t] # NoNote /\ note[t] \in Note \cup {NoNote}
  BY DEF Locks, TypeOK
<1>2. note[t] \in Note
  BY <1>1
<1> QED
  BY <1>2 DEF Note

(* A call raises: its events, if any, are lost. *)
LEMMA RolledBack == ASSUME IInv, NEW t \in Thread, Rollback(t) PROVE IInv'
<1>1. /\ Release(t) /\ Leave(t) /\ lost' = lost \cup InBatch(t)
      /\ UNCHANGED <<Tables, logged, acked, stale, noted, owed>>
  BY DEF Rollback
<1>2. UNCHANGED <<project, chunk, row, slot, ledger, logged, acked, stale, noted, owed>>
  BY <1>1 DEF Tables
<1>t. TypeOK /\ Locks /\ Accounts
  BY DEF IInv
<1>3. TypeOK'
  <2>1. lost' \subseteq Event
    BY <1>1, <1>t DEF Accounts, TypeOK
  <2> QED
    BY <1>1, <1>2, <1>t, <2>1, Left, Released DEF TypeOK
<1>4. Accounts'
  <2>1. Committed' = Committed
    BY <1>2 DEF Committed
  <2>2. InBatch(t)' = {} /\ \A u \in Thread \ {t} : InBatch(u)' = InBatch(u)
    BY <1>1, <1>2, Left
  <2>3. lost' = lost \cup InBatch(t) /\ acked' = acked /\ logged' = logged
    BY <1>1
  <2> QED
    BY <1>t, <2>1, <2>2, <2>3 DEF Accounts
<1>5. Versions'
  BY <1>1, <1>2, <1>3, <1>t, Left, Released, KeysApart, VersionsKept
<1>6. AckedDurable'
  BY <1>2, AckedKept
<1> QED
  BY <1>1, <1>2, <1>3, <1>4, <1>5, <1>6, Left DEF IInv

(* getconn raises: the thread has no connection and holds nothing. *)
LEMMA Exhausted == ASSUME IInv, NEW t \in Thread, PoolExhausted(t) PROVE IInv'
<1>1. Release(t)
  <2>1. /\ holder \in [Key -> Thread \cup {NoThread}] /\ dirty \in [Trace -> Row \cup {NoRow}]
        /\ holder' = holder /\ dirty' = dirty
    BY DEF PoolExhausted, Tx, IInv, TypeOK
  <2>2. \A k \in Key : holder[k] # t
    BY DEF IInv, Locks, Outside, PoolExhausted
  <2> QED
    BY <2>1, <2>2, KeysApart DEF Release
<1>2. Rollback(t)
  BY <1>1 DEF Rollback, PoolExhausted
<1> QED
  BY <1>2, RolledBack

(* What is committed when a call commits: its batch, unless it is a note's. *)
LEMMA CommittedGrows ==
  ASSUME TypeOK, NEW t \in Thread, CallOK(t), Apply(t)
  PROVE  Committed' = Committed \cup InBatch(t)
<1>1. ledger \in Seq(SUBSET Event) /\ Len(ledger) \in Nat
  BY DEF TypeOK
<1>2. CASE note[t] = NoNote
  <2>1. ledger' = Append(ledger, InBatch(t))
    BY <1>2 DEF Apply
  <2>2. /\ DOMAIN ledger' = 1..(Len(ledger) + 1) /\ DOMAIN ledger = 1..Len(ledger)
        /\ \A i \in 1..Len(ledger) : ledger'[i] = ledger[i]
        /\ ledger'[Len(ledger) + 1] = InBatch(t)
    BY <1>1, <2>1
  <2>3. ASSUME NEW e PROVE e \in Committed' <=> e \in Committed \cup InBatch(t)
    BY <1>1, <2>2 DEF Committed
  <2> QED
    BY <2>3
<1>3. CASE note[t] # NoNote
  <2>1. ledger' = ledger /\ InBatch(t) = {}
    BY <1>3 DEF Apply, CallOK, InBatch
  <2> QED
    BY <2>1 DEF Committed
<1> QED
  BY <1>2, <1>3

(* A call commits: its versions become the rows, and what it was given is  *)
(* owed to its caller or, if the answer is lost, to nobody.                *)
LEMMA Ends ==
  ASSUME IInv, NEW t \in Thread, pc[t] = "project", ~More(t), Apply(t), Leave(t),
         UNCHANGED <<logged, lost, stale, noted>>,
         acked \subseteq acked', acked' \subseteq acked \cup InBatch(t),
         owed' \in [Slot -> Value \cup {NoNote}],
         \A s \in Slot : owed'[s] \in IF holder[s] = t THEN {NoNote, note[t].value}
                                      ELSE {owed[s]}
  PROVE  IInv'
<1>t. /\ TypeOK /\ Locks /\ Accounts /\ CallOK(t) /\ WorkOK(t) /\ Versions
      /\ call[t] \in Seq(Event) /\ at[t] \in Nat /\ Len(call[t]) \in Nat
      /\ slot \in [Slot -> Value \cup {NoNote}]
  BY Typed DEF IInv
<1>1. /\ project' = project \cup {k \in Project : holder[k] = t}
      /\ chunk' = chunk \cup {k \in Chunk : holder[k] = t}
      /\ row' = [tr \in Trace |-> IF holder[tr] = t THEN dirty[tr] ELSE row[tr]]
      /\ slot' = [s \in Slot |-> IF holder[s] = t THEN note[t].value ELSE slot[s]]
      /\ ledger' = IF note[t] = NoNote THEN Append(ledger, InBatch(t)) ELSE ledger
      /\ Release(t)
  BY DEF Apply
<1>2. Committed' = Committed \cup InBatch(t)
  BY <1>t, CommittedGrows
<1>3. at[t] = Len(call[t]) /\ Done(t) = at[t] /\ Begun(t) = at[t]
  BY <1>t DEF CallOK, More, Done, Begun
<1>4. ASSUME NEW e \in InBatch(t)
      PROVE  /\ e \in Event /\ TraceOf[e] \in Trace /\ holder[TraceOf[e]] = t
             /\ ProjectOf[e] \in project'
             /\ \A j \in DOMAIN ChunksOf[e] : ChunksOf[e][j] \in chunk'
             /\ TraceOf[e] \notin stale => Covers(dirty[TraceOf[e]], e)
  <2>1. PICK i \in 1..at[t] : e = call[t][i]
    BY <1>t, <1>3 DEF InBatch
  <2>2. e \in Event /\ TraceOf[e] \in Trace /\ ProjectOf[e] \in Project /\ ChunksOf[e] \in Seq(Chunk)
    BY <1>t, <1>3, <2>1, EventsTyped
  <2>3. holder[TraceOf[e]] = t /\ ProjectIn(t, e)
    BY <1>t, <1>3, <2>1 DEF WorkOK
  <2>4. \A j \in DOMAIN ChunksOf[e] : ChunkIn(t, ChunksOf[e][j]) /\ ChunksOf[e][j] \in Chunk
    <3>1. \A j \in DOMAIN ChunksOf[e] : ChunksOf[e][j] \in Chunk
      BY <2>2
    <3> QED
      BY <1>t, <2>1, <3>1 DEF WorkOK
  <2>5. TraceOf[e] \notin stale => Covers(dirty[TraceOf[e]], e)
    BY <1>t, <1>3, <2>1, <2>2, <2>3 DEF Versions
  <2> QED
    BY <1>1, <2>2, <2>3, <2>4, <2>5 DEF ProjectIn, ChunkIn
<1>5. TypeOK'
  <2>1. row' \in [Trace -> Row \cup {NoRow}]
    BY <1>1, <1>t DEF TypeOK
  <2>2. slot' \in [Slot -> Value \cup {NoNote}]
    <3>1. \A s \in Slot : holder[s] = t => note[t].value \in Value
      BY <1>t, NoteValue
    <3> QED
      BY <1>1, <1>t, <3>1
  <2>3. InBatch(t) \in SUBSET Event /\ acked' \subseteq Event
    BY <1>t DEF Accounts, TypeOK
  <2>4. ledger' \in Seq(SUBSET Event)
    <3>1. ledger \in Seq(SUBSET Event)
      BY <1>t DEF TypeOK
    <3>2. Append(ledger, InBatch(t)) \in Seq(SUBSET Event)
      BY <3>1, <2>3
    <3> QED
      BY <1>1, <3>1, <3>2
  <2> QED
    BY <1>1, <1>t, <2>1, <2>2, <2>3, <2>4, Left, Released DEF TypeOK
<1>6. Accounts'
  <2>1. InBatch(t)' = {} /\ \A u \in Thread \ {t} : InBatch(u)' = InBatch(u)
    BY <1>1, Left
  <2>2. Committed' \cup lost \subseteq logged /\ Committed' \cap lost = {} /\ acked' \subseteq Committed'
    BY <1>2, <1>t DEF Accounts
  <2>3. ASSUME NEW u \in Thread
        PROVE  InBatch(u)' \subseteq logged \ (Committed' \cup lost)
    BY <1>2, <1>t, <2>1 DEF Accounts
  <2>4. ASSUME NEW u \in Thread, NEW w \in Thread, u # w PROVE InBatch(u)' \cap InBatch(w)' = {}
    BY <1>t, <2>1, <2>4 DEF Accounts
  <2> QED
    BY <2>2, <2>3, <2>4 DEF Accounts
<1>7. Versions'
  <2>1. \A e \in Committed' : row'[TraceOf[e]] # NoRow
    <3>1. \A e \in Committed : TraceOf[e] \in Trace
      BY <1>t, EventData DEF Accounts, TypeOK
    <3>2. \A tr \in Trace : holder[tr] = t => dirty[tr] # NoRow
      BY <1>t, KeysApart DEF Locks
    <3> QED
      BY <1>1, <1>2, <1>4, <1>t, <3>1, <3>2 DEF Versions
  <2>2. ASSUME NEW tr \in Trace \ stale, NEW e \in Committed', TraceOf[e] = tr
        PROVE  Covers(row'[tr], e) /\ (holder'[tr] # NoThread => Covers(dirty'[tr], e))
    <3>1. /\ row'[tr] = IF holder[tr] = t THEN dirty[tr] ELSE row[tr]
          /\ holder'[tr] = IF holder[tr] = t THEN NoThread ELSE holder[tr]
          /\ dirty'[tr] = IF holder[tr] = t THEN NoRow ELSE dirty[tr]
      BY <1>1, <1>t, Released, KeysApart
    <3>2. CASE e \in InBatch(t)
      BY <1>4, <2>2, <3>1, <3>2
    <3>3. CASE e \in Committed
      BY <1>t, <2>2, <3>1, <3>3, KeysApart DEF Versions
    <3> QED
      BY <1>2, <3>2, <3>3
  <2>3. ASSUME NEW tr \in Trace \ stale, NEW u \in Thread, holder'[tr] = u, NEW i \in 1..Done(u)',
               TraceOf[call'[u][i]] = tr
        PROVE  Covers(dirty'[tr], call'[u][i])
    <3>1. u # t /\ holder[tr] = u
      BY <1>1, <1>t, <2>3, Released, KeysApart
    <3>2. dirty'[tr] = dirty[tr] /\ call'[u] = call[u] /\ Done(u)' = Done(u)
      BY <1>1, <3>1, Left DEF OthersKept, Done
    <3> QED
      BY <1>t, <2>3, <3>1, <3>2 DEF Versions
  <2>4. ASSUME NEW tr \in Trace \ stale, holder'[tr] # NoThread, row'[tr] # NoRow
        PROVE  Extends(dirty'[tr], row'[tr])
    <3>1. /\ row'[tr] = IF holder[tr] = t THEN dirty[tr] ELSE row[tr]
          /\ holder'[tr] = IF holder[tr] = t THEN NoThread ELSE holder[tr]
          /\ dirty'[tr] = IF holder[tr] = t THEN NoRow ELSE dirty[tr]
      BY <1>1, <1>t, Released, KeysApart
    <3> QED
      BY <1>t, <2>4, <3>1 DEF Versions
  <2> QED
    BY <2>1, <2>2, <2>3, <2>4 DEF Versions, Covers, Extends
<1>8. AckedDurable'
  <2>1. /\ acked \subseteq Committed
        /\ \A e \in acked : /\ ProjectOf[e] \in project
                            /\ \A i \in DOMAIN ChunksOf[e] : ChunksOf[e][i] \in chunk
        /\ \A s \in Slot : owed[s] \in {NoNote, slot[s]}
    BY DEF IInv, AckedDurable
  <2>2. acked' \subseteq Committed'
    BY <1>2, <2>1
  <2>3. \A e \in acked' : /\ ProjectOf[e] \in project'
                          /\ \A i \in DOMAIN ChunksOf[e] : ChunksOf[e][i] \in chunk'
    BY <1>1, <1>4, <2>1
  <2>4. \A s \in Slot : owed'[s] \in {NoNote, slot'[s]}
    BY <1>1, <2>1
  <2> QED
    BY <2>2, <2>3, <2>4 DEF AckedDurable
<1>9. project \subseteq project' /\ chunk \subseteq chunk'
  BY <1>1
<1> QED
  BY <1>1, <1>5, <1>6, <1>7, <1>8, <1>9, Left DEF IInv

(* The transaction commits and the call returns (stores.py:302-309). *)
LEMMA Commits == ASSUME IInv, NEW t \in Thread, Commit(t) PROVE IInv'
<1>t. TypeOK /\ Locks /\ owed \in [Slot -> Value \cup {NoNote}]
  BY Typed DEF IInv
<1>1. /\ pc[t] = "project" /\ ~More(t) /\ Apply(t) /\ Leave(t)
      /\ UNCHANGED <<logged, lost, stale, noted>>
      /\ acked' = acked \cup InBatch(t)
      /\ owed' = [s \in Slot |-> IF holder[s] = t THEN note[t].value ELSE owed[s]]
  BY DEF Commit, Acknowledge
<1>2. \A s \in Slot : holder[s] = t => note[t].value \in Value
  BY <1>t, NoteValue
<1> QED
  BY <1>t, <1>1, <1>2, Ends

(* The commit is applied but the call raises (stores.py:302-309). *)
LEMMA AnswerLost == ASSUME IInv, NEW t \in Thread, AckLost(t) PROVE IInv'
<1>t. owed \in [Slot -> Value \cup {NoNote}]
  BY Typed DEF IInv
<1>1. /\ pc[t] = "project" /\ ~More(t) /\ Apply(t) /\ Leave(t)
      /\ UNCHANGED <<logged, lost, stale, noted>> /\ acked' = acked
      /\ owed' = [s \in Slot |-> IF holder[s] = t THEN NoNote ELSE owed[s]]
  BY DEF AckLost
<1> QED
  BY <1>t, <1>1, Ends

(* The client process dies: every transaction is rolled back. *)
LEMMA Crashes == ASSUME IInv, Crash PROVE IInv'
<1> USE DEF Crash, Tables
<1>t. TypeOK /\ Accounts /\ Versions
  BY DEF IInv
<1>1. TypeOK'
  <2>1. UNION {InBatch(t) : t \in Thread} \subseteq Event
    BY <1>t DEF Accounts, TypeOK
  <2>2. {at', put'} \subseteq [Thread -> Nat] /\ call' \in [Thread -> Seq(Event)]
    OBVIOUS
  <2> QED
    BY <1>t, <2>1, <2>2 DEF TypeOK
<1>2. Locks'
  BY KeysApart DEF Locks
<1>3. \A t \in Thread : CallOK(t)' /\ WorkOK(t)'
  BY DEF CallOK, WorkOK, Outside, More, Begun, Done
<1>4. Committed' = Committed /\ \A t \in Thread : InBatch(t)' = {}
  BY DEF Committed, InBatch
<1>5. Accounts'
  BY <1>t, <1>4 DEF Accounts
<1>6. Versions'
  BY <1>t, <1>4, KeysApart DEF Versions, Covers, Extends
<1>7. AckedDurable'
  BY AckedKept
<1>8. PoolOK'
  <2>1. Connected' = {}
    BY DEF Connected
  <2> QED
    BY <2>1, PoolKept
<1> QED
  BY <1>1, <1>2, <1>3, <1>5, <1>6, <1>7, <1>8 DEF IInv

------------------------------------------------------------------------------
(* The theorems. *)

(* A statement that fails rolls the transaction back (stores.py:299-309). *)
LEMMA RollsBack ==
  ASSUME NEW t \in Thread, Conflict(t) \/ Breaks(t) \/ DeadlockVictim(t)
  PROVE  Rollback(t)
  BY DEF Conflict, Breaks, DeadlockVictim

(* Every step keeps the invariant (stores.py:299-436). *)
LEMMA StepOK == IInv /\ [Next]_vars => IInv'
<1> SUFFICES ASSUME IInv, [Next]_vars PROVE IInv'
  OBVIOUS
<1>1. CASE UNCHANGED vars
  <2> USE <1>1 DEF vars
  <2>1. TypeOK' /\ Locks'
    BY DEF IInv, TypeOK, Locks, Outside
  <2>2. \A t \in Thread : CallOK(t)' /\ WorkOK(t)'
    BY DEF IInv, CallOK, WorkOK, Outside, More, Current, Begun, Done, ProjectIn, ChunkIn
  <2>3. Accounts'
    BY AccountsKept
  <2>4. Versions'
    BY DEF IInv, Versions, Committed, Covers, Extends, Done
  <2>5. AckedDurable' /\ PoolOK'
    BY DEF IInv, AckedDurable, Committed, PoolOK, Connected
  <2> QED
    BY <2>1, <2>2, <2>3, <2>4, <2>5 DEF IInv
<1>2. ASSUME NEW t \in Thread, ThreadStep(t) PROVE IInv'
  BY <1>2, Connects, Exhausted, ProjectInserted, Selects, TraceInserted, TraceUpdated,
     ChunkInserted, NoteWritten, Commits, AnswerLost, RollsBack, RolledBack DEF ThreadStep
<1> QED
  BY <1>1, <1>2, CallBegins, NoteBegins, Crashes DEF Next

(* The invariant holds whatever the callers, the server and the network do *)
(* (stores.py:299-436).                                                    *)
THEOREM PgInductive == Spec => []IInv
<1> QED
  BY InitOK, StepOK, PTL DEF Spec

(* The values the store keeps are the ones it can keep. *)
THEOREM PgTypes == Spec => []TypeOK
<1> QED
  BY PgInductive, PTL DEF IInv

(* What a call returned for is committed: its events with their projects   *)
(* and chunks, and the last note of a slot (stores.py:299-309, 366-369,    *)
(* 419-436).                                                               *)
THEOREM PgAckedSurvives == Spec => []AckedDurable
<1> QED
  BY PgInductive, PTL DEF IInv

(* Every trace whose rows were only updated from versions that were still  *)
(* there covers its committed events (stores.py:352-414).                  *)
THEOREM PgRowsCover == Spec => []CoveredUnlessStale
<1>1. IInv => CoveredUnlessStale
  BY DEF IInv, Versions, Covers, CoveredUnlessStale, Covered
<1> QED
  BY PgInductive, <1>1, PTL

(* Even a stale trace has a row for its committed events: what an UPDATE   *)
(* can lose are bounds and a status, never the row (stores.py:352-414).    *)
THEOREM PgEventsHaveRow == Spec => [](\A e \in Committed : row[TraceOf[e]] # NoRow)
<1>1. IInv => \A e \in Committed : row[TraceOf[e]] # NoRow
  BY DEF IInv, Versions
<1> QED
  BY PgInductive, <1>1, PTL

(* A thread that is out of a call, or has no connection yet, holds no row  *)
(* that another call could wait for: every way out of a transaction        *)
(* commits or rolls back (stores.py:299-309).                              *)
THEOREM PgOutsideHoldsNothing ==
  Spec => [](\A t \in Thread : Outside(t) => \A k \in Key : holder[k] # t)
<1>1. IInv => \A t \in Thread : Outside(t) => \A k \in Key : holder[k] # t
  BY DEF IInv, Locks
<1> QED
  BY PgInductive, <1>1, PTL

(* No more connections are in use than the pool has (stores.py:241-257). *)
THEOREM PgPoolBound == Spec => []PoolOK
<1> QED
  BY PgInductive, PTL DEF IInv

(* The committed row of a trace never disappears, and until the trace gets *)
(* stale it only widens: its bounds, its error and its query stay in what  *)
(* replaces it, whatever is rolled back (stores.py:352-414).               *)
THEOREM PgRowsOnlyWiden ==
  Spec => [][\A tr \in Trace : row[tr] # NoRow =>
               /\ row'[tr] # NoRow
               /\ tr \in stale \/ Extends(row'[tr], row[tr])]_vars
<1> DEFINE Widen == \A tr \in Trace : row[tr] # NoRow =>
                      /\ row'[tr] # NoRow
                      /\ tr \in stale \/ Extends(row'[tr], row[tr])
<1>1. ASSUME IInv, [Next]_vars PROVE [Widen]_vars
  <2>t. \A tr \in Trace : row[tr] # NoRow => Extends(row[tr], row[tr])
    <3>1. \A r \in Row : Extends(r, r)
      BY DEF Row, Extends
    <3> QED
      BY <1>1, <3>1 DEF IInv, TypeOK
  <2>1. CASE row' = row
    BY <2>t, <2>1
  <2>2. ASSUME NEW t \in Thread, Commit(t) \/ AckLost(t) PROVE Widen
    <3>1. \A tr \in Trace : row'[tr] = IF holder[tr] = t THEN dirty[tr] ELSE row[tr]
      BY <2>2 DEF Commit, AckLost, Apply
    <3> QED
      BY <1>1, <2>t, <2>2, <3>1, KeysApart DEF IInv, Locks, Versions
  <2>3. ASSUME NEW t \in Thread, ThreadStep(t), ~Commit(t), ~AckLost(t) PROVE row' = row
    BY <2>3 DEF ThreadStep, Connect, PoolExhausted, InsertProject, SelectTrace, InsertTrace,
                UpdateTrace, InsertChunk, WriteNote, Conflict, Breaks, DeadlockVictim,
                Rollback, Tables
  <2>4. (\E t \in Thread : (\E b \in Batches : Call(t, b)) \/ (\E n \in Note : CallNote(t, n)))
          \/ Crash \/ UNCHANGED vars => row' = row
    BY DEF Call, CallNote, Crash, Tables, vars
  <2> QED
    BY <1>1, <2>1, <2>2, <2>3, <2>4 DEF Next
<1> QED
  BY PgInductive, <1>1, PTL DEF Spec

------------------------------------------------------------------------------
(* The store implements the channel of whole batches. *)

(* Every step is one of the channel's or leaves it alone: a call logs its  *)
(* batch, a commit delivers it, every way to raise loses it                *)
(* (stores.py:299-309).                                                    *)
LEMMA DeliverySteps == IInv /\ [Next]_vars => [Delivery!DNext]_(Delivery!dvars)
<1> SUFFICES ASSUME IInv, [Next]_vars PROVE [Delivery!DNext]_(Delivery!dvars)
  OBVIOUS
<1>t. TypeOK /\ Accounts
  BY DEF IInv
<1>d. /\ Delivery!Delivered = Committed
      /\ Committed \subseteq logged /\ lost \subseteq logged /\ logged \subseteq Event
  BY <1>t DEF Delivery!Delivered, Committed, Accounts, TypeOK
<1>1. ASSUME UNCHANGED <<ledger, logged, lost>> PROVE UNCHANGED Delivery!dvars
  BY <1>1 DEF Delivery!dvars, Committed
<1>2. ASSUME NEW t \in Thread, NEW b \in Batches, Call(t, b) PROVE Delivery!DNext
  <2> DEFINE B == {b[i] : i \in DOMAIN b}
  <2>1. /\ B \cap logged = {} /\ logged' = logged \cup B /\ B \in SUBSET Event
        /\ ledger' = ledger /\ lost' = lost /\ Committed' = Committed
    BY <1>2, BatchesAssumption DEF Call, Tables, Committed
  <2> HIDE DEF B
  <2>2. Delivery!Log(B)
    BY <1>d, <2>1 DEF Delivery!Log
  <2> QED
    BY <2>1, <2>2 DEF Delivery!DNext
<1>3. ASSUME NEW t \in Thread, Rollback(t) PROVE Delivery!DNext
  <2>1. /\ ledger' = ledger /\ logged' = logged /\ lost' = lost \cup InBatch(t)
        /\ Committed' = Committed
    BY <1>3 DEF Rollback, Tables, Committed
  <2>2. InBatch(t) \subseteq logged \ (Committed \cup lost) /\ InBatch(t) \in SUBSET Event
    BY <1>t, <1>d DEF Accounts
  <2>3. Delivery!Lose(InBatch(t))
    BY <2>1, <2>2 DEF Delivery!Lose
  <2> QED
    BY <2>2, <2>3 DEF Delivery!DNext
<1>4. ASSUME NEW t \in Thread, PoolExhausted(t) PROVE Delivery!DNext
  <2>1. /\ ledger' = ledger /\ logged' = logged /\ lost' = lost \cup InBatch(t)
        /\ Committed' = Committed
    BY <1>4 DEF PoolExhausted, Tables, Committed
  <2>2. InBatch(t) \subseteq logged \ (Committed \cup lost) /\ InBatch(t) \in SUBSET Event
    BY <1>t, <1>d DEF Accounts
  <2>3. Delivery!Lose(InBatch(t))
    BY <2>1, <2>2 DEF Delivery!Lose
  <2> QED
    BY <2>2, <2>3 DEF Delivery!DNext
<1>5. ASSUME NEW t \in Thread, Apply(t), UNCHANGED <<logged, lost>>
      PROVE  [Delivery!DNext]_(Delivery!dvars)
  <2>1. CASE note[t] = NoNote
    <3>1. ledger' = Append(ledger, InBatch(t)) /\ Committed' = Committed \cup InBatch(t)
      BY <1>5, <1>t, <2>1, CommittedGrows DEF Apply, IInv
    <3>2. InBatch(t) \subseteq logged \ (Committed \cup lost) /\ InBatch(t) \in SUBSET Event
      BY <1>t, <1>d DEF Accounts
    <3>3. Delivery!Deliver(InBatch(t))
      BY <1>5, <3>1, <3>2 DEF Delivery!Deliver
    <3> QED
      BY <3>2, <3>3 DEF Delivery!DNext
  <2>2. CASE note[t] # NoNote
    BY <1>1, <1>5, <2>2 DEF Apply
  <2> QED
    BY <2>1, <2>2
<1>6. CASE Crash
  <2> DEFINE B == UNION {InBatch(t) : t \in Thread}
  <2>1. /\ ledger' = ledger /\ logged' = logged /\ lost' = lost \cup B /\ Committed' = Committed
    BY <1>6 DEF Crash, Tables, Committed
  <2>2. B \subseteq logged \ (Committed \cup lost) /\ B \in SUBSET Event
    BY <1>t, <1>d DEF Accounts
  <2> HIDE DEF B
  <2>3. Delivery!Lose(B)
    BY <2>1, <2>2 DEF Delivery!Lose
  <2> QED
    BY <2>2, <2>3 DEF Delivery!DNext
<1>7. ASSUME NEW t \in Thread, ThreadStep(t) PROVE [Delivery!DNext]_(Delivery!dvars)
  <2>1. CASE Conflict(t) \/ Breaks(t) \/ DeadlockVictim(t)
    BY <1>3, <2>1, RollsBack
  <2>2. CASE Commit(t) \/ AckLost(t)
    BY <1>5, <2>2 DEF Commit, AckLost
  <2>3. CASE PoolExhausted(t)
    BY <1>4, <2>3
  <2>4. CASE \/ Connect(t) \/ InsertProject(t) \/ SelectTrace(t) \/ InsertTrace(t)
             \/ UpdateTrace(t) \/ InsertChunk(t) \/ WriteNote(t)
    <3>1. UNCHANGED <<ledger, logged, lost>>
      BY <2>4 DEF Connect, InsertProject, SelectTrace, InsertTrace, UpdateTrace, InsertChunk,
                  WriteNote, Tables, Caller
    <3> QED
      BY <1>1, <3>1
  <2> QED
    BY <1>7, <2>1, <2>2, <2>3, <2>4 DEF ThreadStep
<1>8. ASSUME NEW t \in Thread, NEW n \in Note, CallNote(t, n) PROVE UNCHANGED Delivery!dvars
  BY <1>1, <1>8 DEF CallNote, Tables
<1>9. CASE UNCHANGED vars
  BY <1>1, <1>9 DEF vars
<1> QED
  BY <1>2, <1>6, <1>7, <1>8, <1>9 DEF Next

(* A call commits all of its batch or none of it, at most once, and what a *)
(* call that raised had not committed is never committed later             *)
(* (stores.py:299-309, EventDelivery).                                     *)
THEOREM PgCallsAreAtomic == Spec => CallsAreAtomic
<1>1. Init => Delivery!DInit
  BY DEF Init, Delivery!DInit, Committed
<1> QED
  BY PgInductive, DeliverySteps, <1>1, PTL DEF Spec, CallsAreAtomic, Delivery!DSpec
==============================================================================
