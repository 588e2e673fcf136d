-------------------------- MODULE HttpClientProofs ---------------------------
(***************************************************************************)
(* Proofs about HttpClient for any set of threads, any batch size and any  *)
(* number of events.                                                       *)
(***************************************************************************)
EXTENDS HttpClient, FiniteSetTheorems, TLAPS

(* A batch in hand is in hand while it is drained or sent, a thread that   *)
(* is idle holds nothing, and no thread sends an empty batch.              *)
BatchInv ==
  \A s \in Sender :
    /\ pc[s] = "idle" => batch[s] = {}
    /\ pc[s] \in {"sending", "posted"} => batch[s] # {}
    /\ Cardinality(batch[s]) <= BatchSize

(* During the atexit flush no other thread flushes, so when it returns the *)
(* queue is empty.                                                         *)
ExitInv ==
  /\ proc = "exiting" => \A f \in App : pc[f] = "idle"
  /\ proc = "exiting" /\ pc[Main] = "idle" => taken = put
  /\ Up => abandoned = {}

(* The inductive invariant. *)
IInv ==
  /\ TypeOK
  /\ BatchInv
  /\ ExitInv
  /\ EveryEventInOnePlace
  /\ IngestedOnce
  /\ CleanExitLosesAtMostABatch

------------------------------------------------------------------------------

(* The type invariant is inductive on its own: the tickets a thread takes  *)
(* are tickets that were put (client.py:72-79).                            *)
LEMMA TypeStep == TypeOK /\ [Next]_vars => TypeOK'
<1> USE ThreadsDistinct, BatchSizeAssumption, MaxPutsAssumption
<1> SUFFICES ASSUME TypeOK, [Next]_vars PROVE TypeOK'
  OBVIOUS
<1> USE DEF TypeOK
<1>1. CASE LogEvent
  BY <1>1 DEF LogEvent
<1>2. ASSUME NEW f \in Flusher, CallFlush(f) PROVE TypeOK'
  BY <1>2 DEF CallFlush, Sender, Flusher
<1>3. CASE Wake
  BY <1>3 DEF Wake, Sender
<1>4. ASSUME NEW s \in Sender, SenderStep(s) PROVE TypeOK'
  <2>1. CASE Take(s)
    <3>1. taken' \in 0..put' /\ taken + 1 \in Ticket
      BY <2>1 DEF Take, Ticket
    <3> QED
      BY <2>1, <3>1 DEF Take
  <2>2. CASE EndDrain(s)
    BY <2>2 DEF EndDrain
  <2>3. CASE Post(s)
    BY <2>3 DEF Post
  <2>4. CASE PostFails(s)
    BY <2>4 DEF PostFails, Done, AfterSend
  <2>5. CASE Reply(s)
    BY <2>5 DEF Reply, Done, AfterSend
  <2>6. CASE Timeout(s)
    BY <2>6 DEF Timeout, Done, AfterSend
  <2> QED
    BY <1>4, <2>1, <2>2, <2>3, <2>4, <2>5, <2>6 DEF SenderStep
<1>5. ASSUME NEW B \in wire, Resolve(B) PROVE TypeOK'
  <2>1. CASE Ingest(B)
    BY <2>1 DEF Ingest
  <2>2. CASE Refuse(B)
    BY <2>2 DEF Refuse
  <2> QED
    BY <1>5, <2>1, <2>2 DEF Resolve
<1>6. CASE BeginExit
  BY <1>6 DEF BeginExit, Sender, Flusher
<1>7. ASSUME Exit \/ Kill PROVE TypeOK'
  <2>1. /\ Vanish
        /\ proc' \in {"exited", "killed"}
    BY <1>7 DEF Exit, Kill
  <2>2. Queue \subseteq Ticket /\ \A s \in Sender : InHand(s) \subseteq Ticket
    BY DEF Queue, InHand, Ticket
  <2>3. abandoned' \in SUBSET Ticket
    BY <2>1, <2>2 DEF Vanish
  <2> QED
    BY <2>1, <2>3 DEF Vanish
<1>8. CASE UNCHANGED vars
  BY <1>8 DEF vars
<1> QED
  BY <1>1, <1>2, <1>3, <1>4, <1>5, <1>6, <1>7, <1>8 DEF Next

(* Every variable keeps its type, whatever the threads, the batch size and  *)
(* the number of events.                                                   *)
THEOREM TypeCorrect == Spec => []TypeOK
<1>1. Init => TypeOK
  <2> USE MaxPutsAssumption
  <2> SUFFICES ASSUME Init PROVE TypeOK
    OBVIOUS
  <2>1. ledger \in Seq(SUBSET Ticket)
    BY DEF Init
  <2>2. put \in 0..MaxPuts /\ taken \in 0..put
    BY DEF Init
  <2> QED
    BY <2>1, <2>2 DEF Init, TypeOK
<1> QED
  BY <1>1, TypeStep, PTL DEF Spec

------------------------------------------------------------------------------

(* Appending a batch to the ledger adds exactly its events to what was     *)
(* ingested.                                                               *)
LEMMA IngestedAppend ==
  ASSUME ledger \in Seq(SUBSET Ticket), NEW B \in SUBSET Ticket,
         ledger' = Append(ledger, B)
  PROVE  Ingested' = Ingested \cup B
<1>1. DOMAIN ledger' = 1..(Len(ledger) + 1) /\ DOMAIN ledger = 1..Len(ledger)
  OBVIOUS
<1>2. \A i \in DOMAIN ledger : ledger'[i] = ledger[i]
  OBVIOUS
<1>3. ledger'[Len(ledger) + 1] = B
  OBVIOUS
<1>4. Len(ledger) \in Nat
  OBVIOUS
<1>5. ASSUME NEW e PROVE e \in Ingested' <=> e \in Ingested \/ e \in B
  <2>1. ASSUME e \in Ingested' PROVE e \in Ingested \/ e \in B
    <3>1. PICK i \in DOMAIN ledger' : e \in ledger'[i]
      BY <2>1 DEF Ingested
    <3>2. i \in DOMAIN ledger \/ i = Len(ledger) + 1
      BY <1>1, <1>4, <3>1
    <3> QED
      BY <1>2, <1>3, <3>1, <3>2 DEF Ingested
  <2>2. ASSUME e \in Ingested PROVE e \in Ingested'
    <3>1. PICK i \in DOMAIN ledger : e \in ledger[i]
      BY <2>2 DEF Ingested
    <3>2. i \in DOMAIN ledger' /\ e \in ledger'[i]
      BY <1>1, <1>2, <1>4, <3>1
    <3> QED
      BY <3>2 DEF Ingested
  <2>3. ASSUME e \in B PROVE e \in Ingested'
    <3>1. Len(ledger) + 1 \in DOMAIN ledger'
      BY <1>1, <1>4
    <3> QED
      BY <1>3, <2>3, <3>1 DEF Ingested
  <2> QED
    BY <2>1, <2>2, <2>3
<1> QED
  BY <1>5

(* What a step that only changes one thread's hand does to Held. *)
LEMMA HeldByOne ==
  ASSUME NEW s \in Sender,
         \A t \in Sender \ {s} : InHand(t)' = InHand(t)
  PROVE  /\ Held' = InHand(s)' \cup UNION {InHand(t) : t \in Sender \ {s}}
         /\ Held = InHand(s) \cup UNION {InHand(t) : t \in Sender \ {s}}
BY DEF Held

(* A step that leaves every hand and every other place alone keeps every   *)
(* event where it is.                                                      *)
LEMMA PlacesUnchanged ==
  ASSUME EveryEventInOnePlace,
         \A s \in Sender : InHand(s)' = InHand(s),
         UNCHANGED <<put, taken, wire, ledger, lost, abandoned>>
  PROVE  EveryEventInOnePlace'
<1>1. Held' = Held
  BY DEF Held
<1> QED
  BY <1>1 DEF EveryEventInOnePlace, Accounted, PlacesApart, Queue, OnWire,
              Ingested, Gone, Logged

(* Taking one event moves it from the queue to one hand. *)
LEMMA TakePlaces ==
  ASSUME TypeOK, EveryEventInOnePlace, NEW s \in Sender, Take(s)
  PROVE  EveryEventInOnePlace'
<1>1. /\ InHand(s)' = InHand(s) \cup {taken + 1}
      /\ \A t \in Sender \ {s} : InHand(t)' = InHand(t)
  BY DEF Take, InHand, TypeOK
<1>2. Held' = Held \cup {taken + 1}
  BY <1>1, HeldByOne
<1>3. taken + 1 \in Queue /\ Queue' = Queue \ {taken + 1}
  BY DEF Take, TypeOK, Queue
<1>4. OnWire' = OnWire /\ Ingested' = Ingested /\ Gone' = Gone /\ Logged' = Logged /\ wire' = wire
  BY DEF Take, OnWire, Ingested, Gone, Logged
<1>5. taken + 1 \notin Held
  BY <1>3 DEF EveryEventInOnePlace, PlacesApart
<1>6. \A t, u \in Sender : t # u => InHand(t)' \cap InHand(u)' = {}
  BY <1>1, <1>5 DEF EveryEventInOnePlace, PlacesApart, Held
<1>7. Accounted'
  BY <1>2, <1>3, <1>4 DEF EveryEventInOnePlace, Accounted
<1>8. PlacesApart'
  BY <1>2, <1>3, <1>4, <1>6 DEF EveryEventInOnePlace, PlacesApart
<1> QED
  BY <1>7, <1>8 DEF EveryEventInOnePlace

(* A thread that lets go of what it holds hands all of it over: Held loses *)
(* exactly the events of that hand.                                        *)
LEMMA LetGo ==
  ASSUME EveryEventInOnePlace, NEW s \in Sender, InHand(s)' = {},
         \A t \in Sender \ {s} : InHand(t)' = InHand(t)
  PROVE  /\ Held' = Held \ InHand(s)
         /\ \A t, u \in Sender : t # u => InHand(t)' \cap InHand(u)' = {}
<1>1. \A t \in Sender \ {s} : InHand(s) \cap InHand(t) = {}
  BY DEF EveryEventInOnePlace, PlacesApart
<1>2. \A t, u \in Sender : t # u => InHand(t)' \cap InHand(u)' = {}
  BY DEF EveryEventInOnePlace, PlacesApart
<1>3. Held' = Held \ InHand(s)
  BY <1>1, HeldByOne
<1> QED
  BY <1>2, <1>3

(* A post moves the batch from the hand to the wire. *)
LEMMA PostPlaces ==
  ASSUME TypeOK, EveryEventInOnePlace, NEW s \in Sender, Post(s)
  PROVE  EveryEventInOnePlace'
<1>1. /\ InHand(s) = batch[s]
      /\ InHand(s)' = {}
      /\ \A t \in Sender \ {s} : InHand(t)' = InHand(t)
  BY DEF Post, InHand, TypeOK
<1>2. /\ Held' = Held \ InHand(s)
      /\ \A t, u \in Sender : t # u => InHand(t)' \cap InHand(u)' = {}
  BY <1>1, LetGo
<1>3. wire' = wire \cup {InHand(s)} /\ OnWire' = OnWire \cup InHand(s)
  BY <1>1 DEF Post, OnWire
<1>4. Queue' = Queue /\ Ingested' = Ingested /\ Gone' = Gone /\ Logged' = Logged
  BY DEF Post, Queue, Ingested, Gone, Logged
<1>5. InHand(s) \subseteq Held
  BY DEF Held
<1>6. \A B, C \in wire' : B # C => B \cap C = {}
  <2>1. \A B \in wire : B \cap InHand(s) = {}
    BY <1>5 DEF EveryEventInOnePlace, PlacesApart, OnWire
  <2> QED
    BY <2>1, <1>3 DEF EveryEventInOnePlace, PlacesApart
<1>7. Accounted'
  BY <1>2, <1>3, <1>4, <1>5 DEF EveryEventInOnePlace, Accounted
<1>8. PlacesApart'
  BY <1>2, <1>3, <1>4, <1>5, <1>6 DEF EveryEventInOnePlace, PlacesApart
<1> QED
  BY <1>7, <1>8 DEF EveryEventInOnePlace

(* A failed post loses the batch, all of it and nothing else. *)
LEMMA PostFailsPlaces ==
  ASSUME TypeOK, EveryEventInOnePlace, NEW s \in Sender, PostFails(s)
  PROVE  EveryEventInOnePlace'
<1>1. /\ InHand(s) = batch[s]
      /\ InHand(s)' = {}
      /\ \A t \in Sender \ {s} : InHand(t)' = InHand(t)
  BY DEF PostFails, Done, InHand, TypeOK
<1>2. /\ Held' = Held \ InHand(s)
      /\ \A t, u \in Sender : t # u => InHand(t)' \cap InHand(u)' = {}
  BY <1>1, LetGo
<1>3. Gone' = Gone \cup InHand(s)
  BY <1>1 DEF PostFails, Gone
<1>4. Queue' = Queue /\ Ingested' = Ingested /\ OnWire' = OnWire /\ Logged' = Logged /\ wire' = wire
  BY DEF PostFails, Queue, Ingested, OnWire, Logged
<1>5. InHand(s) \subseteq Held
  BY DEF Held
<1>6. Accounted'
  BY <1>2, <1>3, <1>4, <1>5 DEF EveryEventInOnePlace, Accounted
<1>7. PlacesApart'
  BY <1>2, <1>3, <1>4, <1>5 DEF EveryEventInOnePlace, PlacesApart
<1> QED
  BY <1>6, <1>7 DEF EveryEventInOnePlace

(* The server takes or refuses one request: its events leave the wire, and *)
(* no other request has any of them.                                       *)
LEMMA ResolvePlaces ==
  ASSUME TypeOK, EveryEventInOnePlace, NEW B \in wire, Resolve(B)
  PROVE  EveryEventInOnePlace'
<1>1. \A s \in Sender : InHand(s)' = InHand(s)
  BY DEF Resolve, Ingest, Refuse, InHand
<1>2. Held' = Held
  BY <1>1 DEF Held
<1>3. wire' = wire \ {B} /\ OnWire' = OnWire \ B /\ B \subseteq OnWire
  BY DEF Resolve, Ingest, Refuse, OnWire, EveryEventInOnePlace, PlacesApart
<1>4. Queue' = Queue /\ Logged' = Logged
  BY DEF Resolve, Ingest, Refuse, Queue, Logged
<1>5. \/ Ingested' = Ingested \cup B /\ Gone' = Gone
      \/ Ingested' = Ingested /\ Gone' = Gone \cup B
  <2>1. CASE Ingest(B)
    BY <2>1, IngestedAppend DEF Ingest, Gone, TypeOK
  <2>2. CASE Refuse(B)
    BY <2>2 DEF Refuse, Ingested, Gone
  <2> QED
    BY <2>1, <2>2 DEF Resolve
<1>6. Accounted'
  BY <1>2, <1>3, <1>4, <1>5 DEF EveryEventInOnePlace, Accounted
<1>7. PlacesApart'
  BY <1>1, <1>2, <1>3, <1>4, <1>5 DEF EveryEventInOnePlace, PlacesApart
<1> QED
  BY <1>6, <1>7 DEF EveryEventInOnePlace

(* The end of the process accounts for what was queued and held. *)
LEMMA VanishPlaces ==
  ASSUME TypeOK, EveryEventInOnePlace, Vanish
  PROVE  EveryEventInOnePlace'
<1>1. \A s \in Sender : InHand(s)' = {}
  BY DEF Vanish, InHand
<1>2. Held' = {}
  BY <1>1 DEF Held
<1>3. Queue' = {}
  BY DEF Vanish, Queue, TypeOK
<1>4. Gone' = Gone \cup Queue \cup Held
  BY DEF Vanish, Gone, Held
<1>5. OnWire' = OnWire /\ Ingested' = Ingested /\ Logged' = Logged /\ wire' = wire
  BY DEF Vanish, OnWire, Ingested, Logged
<1>6. Accounted'
  BY <1>2, <1>3, <1>4, <1>5 DEF EveryEventInOnePlace, Accounted
<1>7. PlacesApart'
  BY <1>1, <1>2, <1>3, <1>4, <1>5 DEF EveryEventInOnePlace, PlacesApart
<1> QED
  BY <1>6, <1>7 DEF EveryEventInOnePlace

(* A new event is a ticket nobody has. *)
LEMMA LogPlaces ==
  ASSUME TypeOK, EveryEventInOnePlace, LogEvent
  PROVE  EveryEventInOnePlace'
<1>1. \A s \in Sender : InHand(s)' = InHand(s)
  BY DEF LogEvent, InHand
<1>2. Held' = Held
  BY <1>1 DEF Held
<1>3. OnWire' = OnWire /\ Ingested' = Ingested /\ Gone' = Gone /\ wire' = wire
  BY DEF LogEvent, OnWire, Ingested, Gone
<1>4. /\ Logged' = Logged \cup {put + 1}
      /\ Queue' = Queue \cup {put + 1}
      /\ put + 1 \notin Logged
  BY DEF LogEvent, Logged, Queue, TypeOK
<1>5. Accounted'
  BY <1>2, <1>3, <1>4 DEF EveryEventInOnePlace, Accounted
<1>6. PlacesApart'
  BY <1>1, <1>2, <1>3, <1>4 DEF EveryEventInOnePlace, PlacesApart, Accounted
<1> QED
  BY <1>5, <1>6 DEF EveryEventInOnePlace

------------------------------------------------------------------------------

(* Every step keeps every event in exactly one place. *)
LEMMA PlacesStep ==
  ASSUME TypeOK, BatchInv, EveryEventInOnePlace, [Next]_vars
  PROVE  EveryEventInOnePlace'
<1>1. CASE LogEvent
  BY <1>1, LogPlaces
<1>2. ASSUME NEW f \in Flusher, CallFlush(f) PROVE EveryEventInOnePlace'
  <2>1. \A s \in Sender : InHand(s)' = InHand(s)
    BY <1>2 DEF CallFlush, InHand, TypeOK
  <2> QED
    BY <1>2, <2>1, PlacesUnchanged DEF CallFlush
<1>3. CASE Wake
  <2>1. \A s \in Sender : InHand(s)' = InHand(s)
    BY <1>3 DEF Wake, InHand, TypeOK
  <2> QED
    BY <1>3, <2>1, PlacesUnchanged DEF Wake
<1>4. ASSUME NEW s \in Sender, SenderStep(s) PROVE EveryEventInOnePlace'
  <2>1. CASE EndDrain(s)
    <3>1. \A t \in Sender : InHand(t)' = InHand(t)
      BY <2>1 DEF EndDrain, InHand, TypeOK
    <3> QED
      BY <2>1, <3>1, PlacesUnchanged DEF EndDrain
  <2>2. CASE Reply(s) \/ Timeout(s)
    <3>1. \A t \in Sender : InHand(t)' = InHand(t)
      BY <2>2 DEF Reply, Timeout, Done, AfterSend, InHand, TypeOK
    <3> QED
      BY <2>2, <3>1, PlacesUnchanged DEF Reply, Timeout
  <2> QED
    BY <1>4, <2>1, <2>2, TakePlaces, PostPlaces, PostFailsPlaces DEF SenderStep
<1>5. ASSUME NEW B \in wire, Resolve(B) PROVE EveryEventInOnePlace'
  BY <1>5, ResolvePlaces
<1>6. CASE BeginExit
  <2>1. \A s \in Sender : InHand(s)' = InHand(s)
    BY <1>6 DEF BeginExit, InHand, TypeOK, Sender, Flusher
  <2> QED
    BY <1>6, <2>1, PlacesUnchanged DEF BeginExit
<1>7. ASSUME Exit \/ Kill PROVE EveryEventInOnePlace'
  BY <1>7, VanishPlaces DEF Exit, Kill
<1>8. CASE UNCHANGED vars
  BY <1>8, PlacesUnchanged DEF vars, InHand
<1> QED
  BY <1>1, <1>2, <1>3, <1>4, <1>5, <1>6, <1>7, <1>8 DEF Next

(* A batch is a set of tickets, hence finite. *)
LEMMA BatchCard == \A S \in SUBSET Ticket : Cardinality(S) \in Nat
<1>1. IsFiniteSet(Ticket)
  BY MaxPutsAssumption, FS_Interval DEF Ticket
<1> QED
  BY <1>1, FS_Subset, FS_CardinalityType

(* Batches are sets of tickets, hence finite, and one more event makes a   *)
(* batch one larger at most.                                               *)
LEMMA BatchGrows ==
  ASSUME NEW S \in SUBSET Ticket, NEW e
  PROVE  /\ Cardinality(S) \in Nat
         /\ Cardinality(S \cup {e}) <= Cardinality(S) + 1
         /\ Cardinality({}) = 0
<1>1. IsFiniteSet(Ticket)
  BY MaxPutsAssumption, FS_Interval DEF Ticket
<1>2. IsFiniteSet(S)
  BY <1>1, FS_Subset
<1>3. Cardinality(S) \in Nat /\ Cardinality({}) = 0
  BY <1>2, FS_CardinalityType, FS_EmptySet
<1>4. \/ Cardinality(S \cup {e}) = Cardinality(S)
      \/ Cardinality(S \cup {e}) = Cardinality(S) + 1
  BY <1>2, FS_AddElement
<1> QED
  BY <1>3, <1>4

(* No batch outgrows batch_size, none is sent empty. *)
LEMMA BatchStep ==
  ASSUME TypeOK, BatchInv, [Next]_vars
  PROVE  BatchInv'
<1> USE BatchSizeAssumption
<1>0. Cardinality({}) <= BatchSize
  BY FS_EmptySet
<1>1. CASE LogEvent \/ \E B \in wire : Resolve(B)
  BY <1>1 DEF LogEvent, Resolve, Ingest, Refuse, BatchInv
<1>2. ASSUME NEW f \in Flusher, CallFlush(f) PROVE BatchInv'
  BY <1>2 DEF CallFlush, BatchInv, TypeOK
<1>3. CASE Wake
  BY <1>3 DEF Wake, BatchInv, TypeOK
<1>4. ASSUME NEW s \in Sender, SenderStep(s) PROVE BatchInv'
  <2>1. CASE Take(s)
    <3>1. /\ batch[s] \in SUBSET Ticket
          /\ batch'[s] = batch[s] \cup {taken + 1}
          /\ \A t \in Sender \ {s} : batch'[t] = batch[t]
          /\ pc' = pc /\ pc[s] = "draining"
          /\ Cardinality(batch[s]) < BatchSize
      BY <2>1 DEF Take, TypeOK
    <3>2. Cardinality(batch'[s]) <= BatchSize
      <4>1. /\ Cardinality(batch[s]) \in Nat
            /\ Cardinality(batch'[s]) <= Cardinality(batch[s]) + 1
        BY <3>1, BatchGrows
      <4>2. Cardinality(batch'[s]) \in Nat
        <5>1. taken + 1 \in Ticket
          BY <2>1, MaxPutsAssumption DEF Take, TypeOK, Ticket
        <5>2. batch'[s] \in SUBSET Ticket
          BY <3>1, <5>1
        <5> QED
          BY <5>2, BatchCard
      <4> QED
        BY <3>1, <4>1, <4>2
    <3> QED
      BY <3>1, <3>2 DEF BatchInv
  <2>2. CASE EndDrain(s)
    BY <2>2 DEF EndDrain, BatchInv, TypeOK
  <2>3. CASE Post(s)
    BY <2>3 DEF Post, BatchInv, TypeOK
  <2>4. CASE PostFails(s) \/ Reply(s) \/ Timeout(s)
    BY <1>0, <2>4 DEF PostFails, Reply, Timeout, Done, AfterSend, BatchInv, TypeOK
  <2> QED
    BY <1>4, <2>1, <2>2, <2>3, <2>4 DEF SenderStep
<1>5. CASE BeginExit
  BY <1>5 DEF BeginExit, BatchInv, TypeOK
<1>6. CASE Exit \/ Kill
  BY <1>0, <1>6 DEF Exit, Kill, Vanish, BatchInv
<1>7. CASE UNCHANGED vars
  BY <1>7 DEF vars, BatchInv
<1> QED
  BY <1>1, <1>2, <1>3, <1>4, <1>5, <1>6, <1>7 DEF Next

(* While the process exits nobody logs and only the main thread and the    *)
(* worker take events.                                                     *)
LEMMA ExitStep ==
  ASSUME TypeOK, BatchInv, ExitInv, [Next]_vars
  PROVE  ExitInv'
<1> USE ThreadsDistinct, BatchSizeAssumption DEF Sender, Flusher, Up
<1>1. CASE LogEvent \/ \E B \in wire : Resolve(B)
  BY <1>1 DEF LogEvent, Resolve, Ingest, Refuse, ExitInv
<1>2. ASSUME NEW f \in Flusher, CallFlush(f) PROVE ExitInv'
  BY <1>2 DEF CallFlush, ExitInv, TypeOK
<1>3. CASE Wake
  BY <1>3 DEF Wake, ExitInv, TypeOK
<1>4. ASSUME NEW s \in Sender, SenderStep(s) PROVE ExitInv'
  <2>1. CASE Take(s)
    BY <2>1 DEF Take, ExitInv, TypeOK
  <2>2. CASE EndDrain(s)
    <3>1. pc[s] = "draining" /\ batch[s] = {} => taken = put
      BY <2>2, FS_EmptySet DEF EndDrain
    <3> QED
      BY <2>2, <3>1 DEF EndDrain, ExitInv, TypeOK
  <2>3. CASE Post(s)
    BY <2>3 DEF Post, ExitInv, TypeOK
  <2>4. CASE PostFails(s) \/ Reply(s) \/ Timeout(s)
    BY <2>4 DEF PostFails, Reply, Timeout, Done, AfterSend, ExitInv, TypeOK
  <2> QED
    BY <1>4, <2>1, <2>2, <2>3, <2>4 DEF SenderStep
<1>5. CASE BeginExit
  BY <1>5 DEF BeginExit, ExitInv, TypeOK
<1>6. CASE Exit \/ Kill
  BY <1>6 DEF Exit, Kill, Vanish, ExitInv
<1>7. CASE UNCHANGED vars
  BY <1>7 DEF vars, ExitInv
<1> QED
  BY <1>1, <1>2, <1>3, <1>4, <1>5, <1>6, <1>7 DEF Next

(* What the server just ingested was on the wire, so it is in no earlier   *)
(* batch.                                                                  *)
LEMMA OnceStep ==
  ASSUME TypeOK, EveryEventInOnePlace, IngestedOnce, [Next]_vars
  PROVE  IngestedOnce'
<1>1. ASSUME NEW B \in wire, Ingest(B) PROVE IngestedOnce'
  <2>1. /\ ledger' = Append(ledger, B)
        /\ Len(ledger) \in Nat
        /\ DOMAIN ledger' = 1..(Len(ledger) + 1)
        /\ DOMAIN ledger = 1..Len(ledger)
    BY <1>1 DEF Ingest, TypeOK
  <2>2. \A i \in DOMAIN ledger : ledger'[i] = ledger[i]
    BY <1>1 DEF Ingest, TypeOK
  <2>3. ledger'[Len(ledger) + 1] = B
    BY <1>1 DEF Ingest, TypeOK
  <2>4. \A i \in DOMAIN ledger : ledger[i] \cap B = {}
    BY DEF EveryEventInOnePlace, PlacesApart, OnWire, Ingested
  <2>5. ASSUME NEW i \in DOMAIN ledger', NEW j \in DOMAIN ledger', i # j
        PROVE  ledger'[i] \cap ledger'[j] = {}
    <3>1. CASE i \in DOMAIN ledger /\ j \in DOMAIN ledger
      BY <2>2, <2>5, <3>1 DEF IngestedOnce
    <3>2. CASE i \in DOMAIN ledger /\ j = Len(ledger) + 1
      BY <2>2, <2>3, <2>4, <3>2
    <3>3. CASE i = Len(ledger) + 1 /\ j \in DOMAIN ledger
      BY <2>2, <2>3, <2>4, <3>3
    <3> QED
      BY <2>1, <2>5, <3>1, <3>2, <3>3
  <2> QED
    BY <2>5 DEF IngestedOnce
<1>2. CASE UNCHANGED ledger
  BY <1>2 DEF IngestedOnce
<1>3. (\E B \in wire : Ingest(B)) \/ UNCHANGED ledger
  BY DEF Next, vars, LogEvent, CallFlush, Wake, SenderStep, Take,
         EndDrain, Post, PostFails, Reply, Timeout, Resolve, Refuse, BeginExit,
         Exit, Kill, Vanish
<1> QED
  BY <1>1, <1>2, <1>3

(* What a clean exit abandons is what the worker holds. *)
LEMMA CleanExitStep ==
  ASSUME TypeOK, BatchInv, ExitInv, CleanExitLosesAtMostABatch, [Next]_vars
  PROVE  CleanExitLosesAtMostABatch'
<1> USE ThreadsDistinct, BatchSizeAssumption
<1>1. CASE Exit
  <2>1. proc = "exiting" /\ Queue = {} /\ abandoned = {}
    BY <1>1 DEF Exit, ExitInv, Queue, TypeOK, Up
  <2>2. \A s \in Flusher : InHand(s) = {}
    BY <1>1, <2>1 DEF Exit, ExitInv, BatchInv, InHand, Flusher, Sender
  <2>3. abandoned' = InHand(Worker)
    BY <1>1, <2>1, <2>2 DEF Exit, Vanish, Sender
  <2>4. Cardinality(InHand(Worker)) <= BatchSize
    BY FS_EmptySet DEF InHand, BatchInv, Sender
  <2> QED
    BY <2>3, <2>4 DEF CleanExitLosesAtMostABatch
<1>2. CASE Kill
  BY <1>2 DEF Kill, CleanExitLosesAtMostABatch
<1>3. ASSUME ~Exit, ~Kill PROVE UNCHANGED abandoned /\ (proc' = "exited" => proc = "exited")
  BY <1>3 DEF Next, vars, LogEvent, CallFlush, Wake, SenderStep, Take,
              EndDrain, Post, PostFails, Reply, Timeout, Resolve, Ingest, Refuse, BeginExit
<1> QED
  BY <1>1, <1>2, <1>3 DEF CleanExitLosesAtMostABatch

(* IInv is inductive: for any threads, batch size and events it holds in   *)
(* every reachable state.                                                  *)
THEOREM Inductive == Spec => []IInv
<1>1. Init => IInv
  <2> SUFFICES ASSUME Init PROVE IInv
    OBVIOUS
  <2>1. TypeOK
    <3>1. ledger \in Seq(SUBSET Ticket) /\ put \in 0..MaxPuts /\ taken \in 0..put
      BY MaxPutsAssumption DEF Init
    <3> QED
      BY <3>1 DEF Init, TypeOK
  <2>2. BatchInv /\ ExitInv /\ CleanExitLosesAtMostABatch
    BY BatchSizeAssumption, FS_EmptySet DEF Init, BatchInv, ExitInv, CleanExitLosesAtMostABatch
  <2>3. EveryEventInOnePlace
    <3>1. Held = {} /\ OnWire = {} /\ Ingested = {} /\ Gone = {} /\ Queue = {} /\ Logged = {}
      BY DEF Init, Held, InHand, OnWire, Ingested, Gone, Queue, Logged
    <3> QED
      BY <3>1 DEF EveryEventInOnePlace, Accounted, PlacesApart, Init, InHand
  <2>4. IngestedOnce
    BY DEF Init, IngestedOnce
  <2> QED
    BY <2>1, <2>2, <2>3, <2>4 DEF IInv
<1>2. IInv /\ [Next]_vars => IInv'
  BY TypeStep, BatchStep, ExitStep, PlacesStep, OnceStep, CleanExitStep DEF IInv
<1> QED
  BY <1>1, <1>2, PTL DEF Spec

(* Every logged event is always in exactly one place, and a drain shared   *)
(* by the worker and a flush never takes an event twice.                   *)
THEOREM NothingUnaccounted == Spec => []EveryEventInOnePlace
<1>1. IInv => EveryEventInOnePlace
  BY DEF IInv
<1> QED
  BY <1>1, Inductive, PTL

(* The server never ingests an event of one client twice. *)
THEOREM NeverTwice == Spec => []IngestedOnce
<1>1. IInv => IngestedOnce
  BY DEF IInv
<1> QED
  BY <1>1, Inductive, PTL

(* A clean exit abandons at most one batch, the worker's. *)
THEOREM CleanExitBound == Spec => []CleanExitLosesAtMostABatch
<1>1. IInv => CleanExitLosesAtMostABatch
  BY DEF IInv
<1> QED
  BY <1>1, Inductive, PTL

------------------------------------------------------------------------------
(* The client implements at-most-once delivery. *)

Pending == Queue \cup Held \cup OnWire

(* Since every event is in one place, what is pending is what was logged   *)
(* and neither ingested nor gone; a step is understood from those three.   *)
LEMMA RefinesStep ==
  ASSUME TypeOK, EveryEventInOnePlace, EveryEventInOnePlace', [Next]_vars
  PROVE  [Delivery!DNext]_(Delivery!dvars)
<1> USE DEF Delivery!DNext, Delivery!dvars
<1>1. /\ Pending = Logged \ (Ingested \cup Gone)
      /\ Pending' = Logged' \ (Ingested' \cup Gone')
  BY DEF EveryEventInOnePlace, Accounted, PlacesApart, Pending
<1>2. Pending \subseteq Ticket
  BY <1>1, MaxPutsAssumption DEF TypeOK, Logged, Ticket
<1>3. Delivery!Delivered = Ingested
  BY DEF Delivery!Delivered, Ingested
<1>4. ASSUME UNCHANGED <<put, ledger, lost, abandoned>>
      PROVE  UNCHANGED Delivery!dvars
  <2>1. Logged' = Logged /\ Ingested' = Ingested /\ Gone' = Gone
    BY <1>4 DEF Logged, Ingested, Gone
  <2> QED
    BY <1>1, <1>4, <2>1 DEF Pending
<1>5. CASE LogEvent
  <2>1. /\ Ingested' = Ingested /\ Gone' = Gone
        /\ UNCHANGED ledger
        /\ Logged' = Logged \cup {put + 1} /\ put + 1 \notin Logged /\ put + 1 \in Ticket
    BY <1>5, MaxPutsAssumption DEF LogEvent, Ingested, Gone, Logged, TypeOK, Ticket
  <2>2. put + 1 \notin Pending \cup Ingested \cup Gone
    BY <2>1 DEF EveryEventInOnePlace, Accounted, Pending
  <2>3. Pending' = Pending \cup {put + 1}
    BY <1>1, <2>1, <2>2
  <2>4. Delivery!Log({put + 1})
    BY <1>3, <2>1, <2>2, <2>3 DEF Delivery!Log, Pending
  <2>5. {put + 1} \in SUBSET Ticket
    BY <2>1
  <2> QED
    BY <2>4, <2>5
<1>6. ASSUME NEW B, B \subseteq Pending, Gone' = Gone \cup B, UNCHANGED <<put, ledger>>
      PROVE  Delivery!DNext
  <2>1. Logged' = Logged /\ Ingested' = Ingested
    BY <1>6 DEF Logged, Ingested
  <2>2. Pending' = Pending \ B
    BY <1>1, <1>6, <2>1
  <2>3. Delivery!Lose(B)
    BY <1>6, <2>2 DEF Delivery!Lose, Pending
  <2> QED
    BY <1>2, <1>6, <2>3
<1>7. ASSUME NEW B \in wire, Resolve(B) PROVE Delivery!DNext
  <2>1. CASE Ingest(B)
    <3>1. B \subseteq Pending /\ B \in SUBSET Ticket
      BY DEF Pending, OnWire, TypeOK
    <3>2. /\ Ingested' = Ingested \cup B
          /\ Logged' = Logged /\ Gone' = Gone
      BY <2>1, <3>1, IngestedAppend DEF Ingest, Logged, Gone, TypeOK
    <3>3. Pending' = Pending \ B
      BY <1>1, <3>2
    <3>4. Delivery!Deliver(B)
      BY <2>1, <3>1, <3>2, <3>3 DEF Ingest, Delivery!Deliver, Pending
    <3> QED
      BY <3>1, <3>4
  <2>2. CASE Refuse(B)
    <3>1. B \subseteq Pending /\ Gone' = Gone \cup B
      BY <2>2 DEF Refuse, Pending, OnWire, Gone
    <3> QED
      BY <1>6, <2>2, <3>1 DEF Refuse
  <2> QED
    BY <1>7, <2>1, <2>2 DEF Resolve
<1>8. ASSUME NEW s \in Sender, PostFails(s) PROVE Delivery!DNext
  <2>1. InHand(s) = batch[s] /\ InHand(s) \subseteq Pending
    BY <1>8 DEF PostFails, InHand, Held, Pending
  <2>2. Gone' = Gone \cup InHand(s)
    BY <1>8, <2>1 DEF PostFails, Gone
  <2> QED
    BY <1>6, <1>8, <2>1, <2>2 DEF PostFails
<1>9. ASSUME Vanish PROVE Delivery!DNext
  <2>1. Gone' = Gone \cup (Queue \cup Held)
    BY <1>9 DEF Vanish, Gone, Held
  <2> QED
    BY <1>6, <1>9, <2>1 DEF Vanish, Pending
<1>10. \/ UNCHANGED <<put, ledger, lost, abandoned>>
       \/ LogEvent
       \/ \E B \in wire : Resolve(B)
       \/ \E s \in Sender : PostFails(s)
       \/ Vanish
  BY DEF Next, vars, CallFlush, Wake, SenderStep, Take,
         EndDrain, Post, Reply, Timeout, BeginExit, Exit, Kill
<1> QED
  BY <1>4, <1>5, <1>7, <1>8, <1>9, <1>10

(* Every behaviour of the client is one of an at-most-once channel.        *)
THEOREM ImplementsDelivery == Spec => ClientDelivers
<1>1. Init => Delivery!DInit
  BY DEF Init, Delivery!DInit, Queue, Held, InHand, OnWire, Gone
<1>2. IInv /\ IInv' /\ [Next]_vars => [Delivery!DNext]_(Delivery!dvars)
  BY RefinesStep DEF IInv
<1> QED
  BY <1>1, <1>2, Inductive, PTL DEF Spec, ClientDelivers, Delivery!DSpec
==============================================================================
