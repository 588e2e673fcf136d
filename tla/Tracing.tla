------------------------------- MODULE Tracing -------------------------------
(***************************************************************************)
(* The manual SDK in one process (tracing.py) on top of the client that    *)
(* writes to a local store (client.py, LocalClient).                       *)
(*                                                                         *)
(* A task is a thread of the program or a task of its event loop.  Each    *)
(* has its own value of the context variable _current_span; a block opened *)
(* with trace(), as "with" or as a decorator, sets it and resets it, and   *)
(* every event takes its trace and its parent from it.  On the event loop  *)
(* an event is handed to an executor thread and nobody waits for it, in a  *)
(* plain thread the store is called inline.  One write to the store is one *)
(* step here (SqliteStore and PostgresStore open it up).                   *)
(*                                                                         *)
(* An event is named by its place in ev, the order of creation; new_id()   *)
(* makes ids unique, so this number also stands for the event's span_id    *)
(* and for the trace_id a new event starts with.  "by" is who made the     *)
(* event: a task through this module, or an adapter for a run or a turn.   *)
(***************************************************************************)
EXTENDS Naturals, Sequences

CONSTANTS Task,
          OnLoop,      \* tasks of the event loop; the others are threads
          Main,        \* the thread or task the program starts in
          MaxEvents,   \* bound: events the program creates
          MaxManual    \* bound: those after which no block or logger is used

ASSUME TaskAssumption == OnLoop \subseteq Task /\ Main \in Task
ASSUME BoundAssumption == MaxManual \in Nat /\ MaxEvents \in Nat /\ MaxManual <= MaxEvents

VARIABLES running,    \* tasks that were started
          current,    \* _current_span in each task: an event, or 0 for None
          inherited,  \* its value when the task started
          blocks,     \* the trace() blocks open in each task, innermost last
          cell,       \* what each _TraceHandle holds: its span and its token
          raising,    \* tasks in which an exception propagates
          waits,      \* the event a task waits for the store to take, or 0
          quiet,      \* tasks that wait inside "try: ... except: pass"
          ev,         \* every RagEvent made
          truth,      \* traces for which ground truth was stored
          pending,    \* events handed to log_event and not yet written
          ledger,     \* what the store took, in order
          lost        \* events whose write raised

tvars == <<running, current, inherited, blocks, cell, raising, waits, quiet, ev,
           truth, pending, ledger, lost>>

Id   == 1..MaxEvents
None == 0

Cell == [span : Id \cup {None}, token : Id \cup {None}]

TracingTypeOK ==
  /\ running \in SUBSET Task
  /\ current \in [Task -> Id \cup {None}]
  /\ inherited \in [Task -> Id \cup {None}]
  /\ blocks \in [Task -> Seq(Id)]
  /\ cell \in [Id -> Cell]
  /\ raising \in SUBSET Task
  /\ waits \in [Task -> Id \cup {None}]
  /\ quiet \in SUBSET Task
  /\ Len(ev) <= MaxEvents
  /\ \A i \in DOMAIN ev : /\ ev[i].parent \in {None} \cup 1..(i - 1)
                          /\ ev[i].status \in {"open", "ok", "error"}
  /\ pending \subseteq DOMAIN ev
  /\ ledger \in Seq(SUBSET DOMAIN ev)
  /\ lost \subseteq DOMAIN ev

TracingInit ==
  /\ running = {Main}
  /\ current = [t \in Task |-> None]
  /\ inherited = [t \in Task |-> None]
  /\ blocks = [t \in Task |-> <<>>]
  /\ cell = [i \in Id |-> [span |-> None, token |-> None]]
  /\ raising = {}
  /\ waits = [t \in Task |-> None]
  /\ quiet = {}
  /\ ev = <<>>
  /\ truth = {}
  /\ pending = {}
  /\ ledger = <<>>
  /\ lost = {}

Context == <<running, current, inherited, blocks, cell>>
Writes  == <<pending, ledger, lost>>
Call    == <<waits, quiet>>

Busy(t)      == waits[t] # None
Calm(t)      == t \in running /\ ~Busy(t) /\ t \notin raising
NextId       == Len(ev) + 1
Innermost(t) == blocks[t][Len(blocks[t])]
Stored       == UNION {ledger[i] : i \in DOMAIN ledger}

------------------------------------------------------------------------------
(* Events. *)

(* An event made by task t: it joins the trace of the current span. *)
NewEvent(t, stage, status) ==
  [trace  |-> IF current[t] = None THEN NextId ELSE ev[current[t]].trace,
   parent |-> current[t],
   by     |-> t,
   stage  |-> stage,
   status |-> status]

(* log_event on a task that awaits the write, or makes it itself. *)
SubmitInline(t, i, q) ==
  /\ pending' = pending \cup {i}
  /\ waits' = [waits EXCEPT ![t] = i]
  /\ quiet' = IF q THEN quiet \cup {t} ELSE quiet
  /\ UNCHANGED <<ledger, lost>>

(* LocalClient.log_event; q: the caller swallows what it raises. *)
Submit(t, i, q) ==
  IF t \in OnLoop
  THEN pending' = pending \cup {i} /\ UNCHANGED <<ledger, lost, Call>>
  ELSE SubmitInline(t, i, q)

------------------------------------------------------------------------------
(* What a task does. *)

(* Mutant: the wrapper of a decorated function reuses one handle. *)
SharedHandle(i) == 1

(* trace() makes a handle for each block, and so does each call of a       *)
(* decorated function.                                                     *)
NewHandle(i) == i

(* __enter__ *)
Enter(t) ==
  /\ Calm(t) /\ Len(ev) < MaxManual
  /\ ev' = Append(ev, NewEvent(t, "span", "open"))
  /\ cell' = [cell EXCEPT ![NewHandle(NextId)] = [span |-> NextId, token |-> current[t]]]
  /\ blocks' = [blocks EXCEPT ![t] = Append(@, NewHandle(NextId))]
  /\ current' = [current EXCEPT ![t] = NextId]
  /\ UNCHANGED <<running, inherited, raising, Call, truth, Writes>>

(* Mutant: a block that an exception leaves logs no event. *)
ExitSilentOnError(t) ==
  /\ t \in running /\ ~Busy(t) /\ blocks[t] # <<>>
  /\ LET h == cell[Innermost(t)] IN
     /\ current' = [current EXCEPT ![t] = h.token]
     /\ ev' = [ev EXCEPT ![h.span].status = IF t \in raising THEN "error" ELSE "ok"]
     /\ IF t \in raising THEN UNCHANGED <<Writes, Call>> ELSE Submit(t, h.span, FALSE)
  /\ blocks' = [blocks EXCEPT ![t] = SubSeq(@, 1, Len(@) - 1)]
  /\ UNCHANGED <<running, inherited, cell, raising, truth>>

(* __exit__: the context variable is reset first, then the span finishes   *)
(* and is logged; an exception goes on.                                    *)
Exit(t) ==
  /\ t \in running /\ ~Busy(t) /\ blocks[t] # <<>>
  /\ LET h == cell[Innermost(t)] IN
     /\ current' = [current EXCEPT ![t] = h.token]
     /\ ev' = [ev EXCEPT ![h.span].status = IF t \in raising THEN "error" ELSE "ok"]
     /\ Submit(t, h.span, FALSE)
  /\ blocks' = [blocks EXCEPT ![t] = SubSeq(@, 1, Len(@) - 1)]
  /\ UNCHANGED <<running, inherited, cell, raising, truth>>

(* A stage logger (log_retrieval, log_generation, ...), called by the      *)
(* program or, with q, by a wrapped splitter, loader, reranker or          *)
(* embedding model, or for a vector database.                              *)
LogStage(t, q) ==
  /\ Calm(t) /\ Len(ev) < MaxManual
  /\ ev' = Append(ev, NewEvent(t, "logged", "ok"))
  /\ Submit(t, NextId, q)
  /\ UNCHANGED <<Context, raising, truth>>

(* adapters/vectordb.py: what logging the hits raises is swallowed. *)
LogHits(t) == LogStage(t, TRUE)

(* A query of a wrapped vector database: the database may raise, and so    *)
(* may the mapping of its answer to hits, which nothing catches; else the  *)
(* hits are logged.                                                        *)
VectorQuery(t) ==
  \/ LogHits(t)
  \/ /\ Calm(t)
     /\ raising' = raising \cup {t}
     /\ UNCHANGED <<Context, Call, ev, truth, Writes>>

(* log_ground_truth writes inline on every kind of task; without a trace,  *)
(* or if the store fails, it raises.                                       *)
LogGroundTruth(t) ==
  /\ Calm(t)
  /\ \/ /\ current[t] # None
        /\ truth' = truth \cup {ev[current[t]].trace}
        /\ UNCHANGED raising
     \/ raising' = raising \cup {t} /\ UNCHANGED truth
  /\ UNCHANGED <<Context, Call, ev, Writes>>

(* The program raises, or catches what was raised. *)
Raise(t) ==
  /\ Calm(t)
  /\ raising' = raising \cup {t}
  /\ UNCHANGED <<Context, Call, ev, truth, Writes>>

Catch(t) ==
  /\ t \in raising /\ ~Busy(t)
  /\ raising' = raising \ {t}
  /\ UNCHANGED <<Context, Call, ev, truth, Writes>>

(* A task of the event loop starts with a copy of its creator's context; a *)
(* thread starts with an empty context, or with a copy if to_thread runs it.*)
Spawn(t, u) ==
  /\ Calm(t) /\ u \notin running
  /\ u \in OnLoop => t \in OnLoop
  /\ running' = running \cup {u}
  /\ \E c \in {current[t]} \cup (IF u \in OnLoop THEN {} ELSE {None}) :
       /\ current' = [current EXCEPT ![u] = c]
       /\ inherited' = [inherited EXCEPT ![u] = c]
  /\ UNCHANGED <<blocks, cell, raising, Call, ev, truth, Writes>>

------------------------------------------------------------------------------
(* The store, on the thread that called it or on an executor thread. *)

Waiting(i) == {t \in Task : waits[t] = i}

Released(i) ==
  /\ waits' = [t \in Task |-> IF waits[t] = i THEN None ELSE waits[t]]
  /\ quiet' = quiet \ Waiting(i)

Write(i) ==
  /\ i \in pending
  /\ ledger' = Append(ledger, {i})
  /\ pending' = pending \ {i}
  /\ Released(i)
  /\ UNCHANGED <<Context, raising, ev, truth, lost>>

(* Mutant: a write that failed is tried again. *)
WriteFailsRetried(i) ==
  /\ i \in pending
  /\ lost' = lost \cup {i}
  /\ Released(i)
  /\ raising' = raising \cup (Waiting(i) \ quiet)
  /\ UNCHANGED <<Context, ev, truth, pending, ledger>>

(* The write raises: in the caller's face if it waits for the write and    *)
(* does not swallow it, otherwise nobody learns of it.                     *)
WriteFails(i) ==
  /\ i \in pending
  /\ lost' = lost \cup {i}
  /\ pending' = pending \ {i}
  /\ Released(i)
  /\ raising' = raising \cup (Waiting(i) \ quiet)
  /\ UNCHANGED <<Context, ev, truth, ledger>>

------------------------------------------------------------------------------

TaskStep(t) ==
  \/ Enter(t) \/ Exit(t) \/ LogStage(t, FALSE) \/ LogStage(t, TRUE)
  \/ VectorQuery(t) \/ LogGroundTruth(t) \/ Raise(t) \/ Catch(t)
  \/ \E u \in Task : Spawn(t, u)

StoreStep(i) == Write(i) \/ WriteFails(i)

------------------------------------------------------------------------------

(* The current span of a task is its innermost open block, and outside of  *)
(* all its blocks what the task inherited, whatever exceptions left blocks *)
(* and whatever writes failed on the way; no two open blocks share a       *)
(* handle, so each closes the span it opened (tracing.py:50-62, 71-77).    *)
CurrentIsInnermost ==
  /\ \A t \in running :
       current[t] = IF blocks[t] = <<>> THEN inherited[t] ELSE cell[Innermost(t)].span
  /\ \A t \in running : \A k \in DOMAIN blocks[t] :
       LET h == cell[blocks[t][k]] IN
         /\ ev[h.span].by = t /\ ev[h.span].status = "open"
         /\ h.token = IF k = 1 THEN inherited[t] ELSE cell[blocks[t][k - 1]].span

(* The events of a trace form one tree: an event with a parent is in its   *)
(* parent's trace, and one without started the trace, so a query that      *)
(* spreads over several tasks is one trace.  No stored event is without    *)
(* its parent: that is stored, or handed to the store when its block ends, *)
(* even by an exception, or on its way, or its write failed                *)
(* (tracing.py:25-36, 55-62, 116-132).                                     *)
TracesAreTrees ==
  /\ \A i \in DOMAIN ev : ev[i].by \in Task =>
       ev[i].trace = IF ev[i].parent = None THEN i ELSE ev[ev[i].parent].trace
  /\ \A i \in Stored : LET p == ev[i].parent IN
       p = None \/ p \in Stored \cup pending \cup lost \/ ev[p].status = "open"
==============================================================================
