----------------------------- MODULE HttpClient ------------------------------
(***************************************************************************)
(* The batching HTTP client of the SDK (client.py, class HttpClient) and   *)
(* the wire between it and the tracking server.                            *)
(*                                                                         *)
(* An event is the ticket of the put() that enqueued it: queue.Queue is    *)
(* FIFO, so the queue is always the interval taken+1 .. put.  Application  *)
(* threads log and flush, one daemon thread (Worker) sends one batch each  *)
(* interval, and the main thread runs the atexit flush.  A drain takes one *)
(* event at a time, so two threads may drain the same queue interleaved.   *)
(***************************************************************************)
EXTENDS Naturals, FiniteSets, Sequences

CONSTANTS Worker,         \* the daemon thread "ragobserve-flush"
          Main,           \* the main thread, which runs the atexit handlers
          App,            \* the other threads that may call flush()
          BatchSize,      \* batch_size of the constructor
          MaxPuts,        \* bound: how many events are ever logged
          Unserialisable  \* tickets of events json cannot encode

ASSUME ThreadsDistinct == Worker # Main /\ Worker \notin App /\ Main \notin App
ASSUME BatchSizeAssumption == BatchSize \in Nat \ {0}
ASSUME MaxPutsAssumption == MaxPuts \in Nat
ASSUME UnserialisableAssumption == Unserialisable \subseteq 1..MaxPuts

VARIABLES proc,       \* "running", "exiting" (atexit), "exited" or "killed"
          put,        \* events put so far
          taken,      \* events taken out of the queue so far
          pc,         \* what each sending thread is doing
          batch,      \* the batch each sending thread holds
          wire,       \* batches posted and not yet answered by the server
          ledger,     \* batches the server ingested, in its order
          lost,       \* events of a batch whose post failed or was refused
          abandoned   \* events that vanished with the process

vars == <<proc, put, taken, pc, batch, wire, ledger, lost, abandoned>>

Ticket  == 1..MaxPuts
Flusher == App \cup {Main}
Sender  == Flusher \cup {Worker}
Queue   == (taken + 1)..put
Up      == proc \in {"running", "exiting"}

TypeOK ==
  /\ proc \in {"running", "exiting", "exited", "killed"}
  /\ put \in 0..MaxPuts
  /\ taken \in 0..put
  /\ pc \in [Sender -> {"idle", "draining", "sending", "posted"}]
  /\ batch \in [Sender -> SUBSET Ticket]
  /\ wire \in SUBSET SUBSET Ticket
  /\ ledger \in Seq(SUBSET Ticket)
  /\ lost \in SUBSET Ticket
  /\ abandoned \in SUBSET Ticket

Init ==
  /\ proc = "running"
  /\ put = 0
  /\ taken = 0
  /\ pc = [s \in Sender |-> "idle"]
  /\ batch = [s \in Sender |-> {}]
  /\ wire = {}
  /\ ledger = <<>>
  /\ lost = {}
  /\ abandoned = {}

------------------------------------------------------------------------------
(* The application. *)

(* log_event: put on an unbounded queue, never blocks and never fails. *)
LogEvent ==
  /\ proc = "running"
  /\ put < MaxPuts
  /\ put' = put + 1
  /\ UNCHANGED <<proc, taken, pc, batch, wire, ledger, lost, abandoned>>

(* An application thread calls flush(). *)
CallFlush(f) ==
  /\ proc = "running"
  /\ pc[f] = "idle"
  /\ pc' = [pc EXCEPT ![f] = "draining"]
  /\ UNCHANGED <<proc, put, taken, batch, wire, ledger, lost, abandoned>>

------------------------------------------------------------------------------
(* The worker and the flushing threads. *)

(* _stop.wait times out: the worker starts to drain one batch. *)
Wake ==
  /\ Up
  /\ pc[Worker] = "idle"
  /\ pc' = [pc EXCEPT ![Worker] = "draining"]
  /\ UNCHANGED <<proc, put, taken, batch, wire, ledger, lost, abandoned>>

(* Mutant: the event is read but not removed from the queue. *)
TakePeeks(s) ==
  /\ Up
  /\ pc[s] = "draining"
  /\ Cardinality(batch[s]) < BatchSize
  /\ taken < put
  /\ batch' = [batch EXCEPT ![s] = @ \cup {taken + 1}]
  /\ UNCHANGED <<proc, put, taken, pc, wire, ledger, lost, abandoned>>

(* Mutant: the emptiness of the queue is not looked at. *)
TakeUnguarded(s) ==
  /\ Up
  /\ pc[s] = "draining"
  /\ Cardinality(batch[s]) < BatchSize
  /\ taken' = taken + 1
  /\ batch' = [batch EXCEPT ![s] = @ \cup {taken + 1}]
  /\ UNCHANGED <<proc, put, pc, wire, ledger, lost, abandoned>>

(* One get_nowait of _drain. *)
Take(s) ==
  /\ Up
  /\ pc[s] = "draining"
  /\ Cardinality(batch[s]) < BatchSize
  /\ taken < put
  /\ taken' = taken + 1
  /\ batch' = [batch EXCEPT ![s] = @ \cup {taken + 1}]
  /\ UNCHANGED <<proc, put, pc, wire, ledger, lost, abandoned>>

(* Mutant: an empty batch ends the worker's loop. *)
EndDrainStopsWorker(s) ==
  /\ Up
  /\ pc[s] = "draining"
  /\ Cardinality(batch[s]) = BatchSize \/ taken = put
  /\ pc' = [pc EXCEPT ![s] = IF batch[s] # {} THEN "sending"
                              ELSE IF s = Worker THEN "stopped" ELSE "idle"]
  /\ UNCHANGED <<proc, put, taken, batch, wire, ledger, lost, abandoned>>

(* _drain returns.  An empty batch sends the worker back to its timer and  *)
(* ends a flush; any other batch is sent.                                  *)
EndDrain(s) ==
  /\ Up
  /\ pc[s] = "draining"
  /\ Cardinality(batch[s]) = BatchSize \/ taken = put
  /\ pc' = [pc EXCEPT ![s] = IF batch[s] = {} THEN "idle" ELSE "sending"]
  /\ UNCHANGED <<proc, put, taken, batch, wire, ledger, lost, abandoned>>

(* Where a thread goes once _send returned: the worker waits for its next  *)
(* interval, flush() drains again.                                         *)
AfterSend(s) == IF s = Worker THEN "idle" ELSE "draining"

Done(s) ==
  /\ pc' = [pc EXCEPT ![s] = AfterSend(s)]
  /\ batch' = [batch EXCEPT ![s] = {}]

(* The request leaves; the body was encoded first, so every event of it    *)
(* is serialisable.                                                        *)
Post(s) ==
  /\ Up
  /\ pc[s] = "sending"
  /\ batch[s] \cap Unserialisable = {}
  /\ pc' = [pc EXCEPT ![s] = "posted"]
  /\ wire' = wire \cup {batch[s]}
  /\ UNCHANGED <<proc, put, taken, batch, ledger, lost, abandoned>>

(* Encoding or connecting raises: _send swallows it, with the whole batch. *)
PostFails(s) ==
  /\ Up
  /\ pc[s] = "sending"
  /\ Done(s)
  /\ lost' = lost \cup batch[s]
  /\ UNCHANGED <<proc, put, taken, wire, ledger, abandoned>>

(* The response is back; its status is never looked at. *)
Reply(s) ==
  /\ Up
  /\ pc[s] = "posted"
  /\ batch[s] \notin wire
  /\ Done(s)
  /\ UNCHANGED <<proc, put, taken, wire, ledger, lost, abandoned>>

(* Mutant: a post that timed out is retried. *)
TimeoutRetries(s) ==
  /\ Up
  /\ pc[s] = "posted"
  /\ batch[s] \in wire
  /\ pc' = [pc EXCEPT ![s] = "sending"]
  /\ UNCHANGED <<proc, put, taken, batch, wire, ledger, lost, abandoned>>

(* The 10 s timeout fires first: the exception is swallowed and the server *)
(* may still take the request later.                                       *)
Timeout(s) ==
  /\ Up
  /\ pc[s] = "posted"
  /\ batch[s] \in wire
  /\ Done(s)
  /\ UNCHANGED <<proc, put, taken, wire, ledger, lost, abandoned>>

------------------------------------------------------------------------------
(* The wire and the server (external to client.py). *)

Ingest(B) ==
  /\ wire' = wire \ {B}
  /\ ledger' = Append(ledger, B)
  /\ UNCHANGED <<proc, put, taken, pc, batch, lost, abandoned>>

(* A request lost on the way, or answered 401, 422, 429 or 500. *)
Refuse(B) ==
  /\ wire' = wire \ {B}
  /\ lost' = lost \cup B
  /\ UNCHANGED <<proc, put, taken, pc, batch, ledger, abandoned>>

------------------------------------------------------------------------------
(* The end of the process. *)

(* Mutant: flush is not registered with atexit. *)
BeginExitWithoutFlush ==
  /\ proc = "running"
  /\ \A f \in Flusher : pc[f] = "idle"
  /\ proc' = "exiting"
  /\ UNCHANGED <<put, taken, pc, batch, wire, ledger, lost, abandoned>>

(* The application's non-daemon threads have ended, flushes included; the  *)
(* interpreter runs the atexit flush on the main thread while the daemon   *)
(* worker goes on.                                                         *)
BeginExit ==
  /\ proc = "running"
  /\ \A f \in Flusher : pc[f] = "idle"
  /\ proc' = "exiting"
  /\ pc' = [pc EXCEPT ![Main] = "draining"]
  /\ UNCHANGED <<put, taken, batch, wire, ledger, lost, abandoned>>

(* Events a thread holds that were not put on the wire. *)
InHand(s) == IF pc[s] = "posted" THEN {} ELSE batch[s]

(* What dies with the process: the queue and what the threads hold. *)
Vanish ==
  /\ abandoned' = abandoned \cup Queue \cup UNION {InHand(s) : s \in Sender}
  /\ taken' = put
  /\ pc' = [s \in Sender |-> "idle"]
  /\ batch' = [s \in Sender |-> {}]
  /\ UNCHANGED <<put, wire, ledger, lost>>

(* The atexit flush returned: the interpreter kills the daemon worker. *)
Exit ==
  /\ proc = "exiting"
  /\ pc[Main] = "idle"
  /\ proc' = "exited"
  /\ Vanish

(* A crash at any point. *)
Kill ==
  /\ Up
  /\ proc' = "killed"
  /\ Vanish

------------------------------------------------------------------------------

SenderStep(s) ==
  Take(s) \/ EndDrain(s) \/ Post(s) \/ PostFails(s) \/ Reply(s) \/ Timeout(s)

Resolve(B) == Ingest(B) \/ Refuse(B)

Next ==
  \/ LogEvent
  \/ \E f \in Flusher : CallFlush(f)
  \/ Wake
  \/ \E s \in Sender : SenderStep(s)
  \/ \E B \in wire : Resolve(B)
  \/ BeginExit \/ Exit \/ Kill

Spec == Init /\ [][Next]_vars

(* Threads are scheduled, wait() times out, a post returns within its      *)
(* timeout and a request on the wire does not stay there.  Nothing makes   *)
(* the application log, flush or exit.                                     *)
Fairness ==
  /\ WF_vars(Wake)
  /\ \A s \in Sender : WF_vars(SenderStep(s))
  /\ WF_vars(Exit)
  /\ WF_vars(\E B \in wire : Resolve(B))

FairSpec == Spec /\ Fairness

------------------------------------------------------------------------------
(* Where an event can be. *)

Ingested == UNION {ledger[i] : i \in DOMAIN ledger}
Held     == UNION {InHand(s) : s \in Sender}
OnWire   == UNION wire
Gone     == lost \cup abandoned

Logged == 1..put

(* Every event that was logged, and no other, is somewhere. *)
Accounted == Logged = Queue \cup Held \cup OnWire \cup Ingested \cup Gone

(* The places exclude one another. *)
PlacesApart ==
  /\ Queue \cap (Held \cup OnWire \cup Ingested \cup Gone) = {}
  /\ Held \cap (OnWire \cup Ingested \cup Gone) = {}
  /\ OnWire \cap (Ingested \cup Gone) = {}
  /\ Ingested \cap Gone = {}
  /\ \A s, t \in Sender : s # t => InHand(s) \cap InHand(t) = {}
  /\ \A B, C \in wire : B # C => B \cap C = {}

(* Every logged event is in exactly one place: queued, held by one thread, *)
(* on the wire, ingested or gone.  Two threads that drain the queue at the *)
(* same time never take the same event (client.py:72-79), no exit, failure *)
(* or timeout makes an event vanish uncounted, none is in two batches.     *)
EveryEventInOnePlace == Accounted /\ PlacesApart

(* The server never sees an event twice: _send has no retry, and a timed   *)
(* out post is not repeated (client.py:81-88).                             *)
IngestedOnce ==
  \A i, j \in DOMAIN ledger : i # j => ledger[i] \cap ledger[j] = {}

(* A clean exit leaves nothing in the queue, so what it abandons is at     *)
(* most the one batch the daemon worker had drained (client.py:59-61).     *)
CleanExitLosesAtMostABatch ==
  proc = "exited" => Cardinality(abandoned) <= BatchSize

(* Every logged event leaves the process for good: it is ingested, lost or *)
(* abandoned.  Neither a failing post nor a concurrent flush can leave one *)
(* queued for ever.                                                        *)
EverySettled ==
  \A e \in Ticket : (e \in Logged) ~> (e \in Ingested \cup Gone)

(* client.py:3 and GUIDE.md promise "flush-on-exit": after a clean exit    *)
(* every event was at least handed to the transport.                       *)
FlushOnExit == proc = "exited" => abandoned = {}

(* The client implements at-most-once delivery. *)
Delivery == INSTANCE EventDelivery WITH
              Event   <- Ticket,
              pending <- Queue \cup Held \cup OnWire,
              ledger  <- ledger,
              lost    <- Gone

(* Seen from the server the client is an at-most-once channel: each step   *)
(* logs one event, delivers or loses one batch of pending events, or is    *)
(* invisible (EventDelivery).                                              *)
ClientDelivers == Delivery!DSpec
==============================================================================
