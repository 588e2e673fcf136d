------------------------- MODULE InstrumentationProofs -------------------------
(***************************************************************************)
(* The instrumented process for any number of tasks, runs, turns and       *)
(* events: whoever makes the events, each is in the hands of its open      *)
(* block, of the client, of the store or lost; the context variable of a   *)
(* task is its innermost open block; the events of a trace form a tree;    *)
(* and LocalClient delivers what EventDelivery promises.  Then the two     *)
(* adapters: the events of a query, or of a turn that no other overlaps,   *)
(* are a trace of their own; a query logs one boundary, and the answer of  *)
(* a chat is logged once.                                                  *)
(***************************************************************************)
EXTENDS Instrumentation, TLAPS

Maker == Task \cup Run \cup Turn \cup {"ingest"}

Stage == {"span", "logged", "boundary", "retrieval", "context", "generation",
          "stage", "answer", "embedding", "chunking"}

Record == [trace : Id \cup Run \cup Turn, parent : Id \cup {None}, by : Maker,
           stage : Stage, status : {"open", "ok", "error"}]

(* An event that is not open was handed to the client, once: it is on its  *)
(* way, stored or lost.                                                    *)
HandedOver ==
  /\ \A i \in DOMAIN ev : ev[i].status = "open" <=> i \notin Stored \cup pending \cup lost
  /\ pending \cap Stored = {}
  /\ lost \cap (pending \cup Stored) = {}

(* A task has only blocks that it opened, each in the one before it; each  *)
(* has a handle of its own, which has its span and the way back.           *)
BlocksNest ==
  \A t \in Task :
    /\ current[t] <= Len(ev) /\ inherited[t] <= Len(ev)
    /\ t \notin running => blocks[t] = <<>>
    /\ current[t] = IF blocks[t] = <<>> THEN inherited[t] ELSE Innermost(t)
    /\ \A k \in DOMAIN blocks[t] :
         /\ blocks[t][k] \in DOMAIN ev
         /\ ev[blocks[t][k]].by = t /\ ev[blocks[t][k]].status = "open"
         /\ cell[blocks[t][k]].span = blocks[t][k]
         /\ cell[blocks[t][k]].token = IF k = 1 THEN inherited[t] ELSE blocks[t][k - 1]
    /\ \A j, k \in DOMAIN blocks[t] : j < k => blocks[t][j] < blocks[t][k]

(* An event that the program makes is in the trace of its parent. *)
InParentsTrace ==
  \A i \in DOMAIN ev : ev[i].by \in Task =>
    ev[i].trace = IF ev[i].parent = None THEN i ELSE ev[ev[i].parent].trace

TracingInv ==
  TracingTypeOK /\ ev \in Seq(Record) /\ HandedOver /\ BlocksNest /\ InParentsTrace

RootTraced == \A h \in Handler : rootRun[h] # NoRun => traceId[h] # NoRun

IInv ==
  /\ TracingInv
  /\ LangChainTypeOK /\ RootTraced
  /\ LlamaIndexTypeOK
  /\ way \in {"manual", "langchain", "llamaindex"}

------------------------------------------------------------------------------
(* Steps that the tasks and the store share. *)

(* The values of what tasks wait for and raise. *)
CallTyped ==
  raising \in SUBSET Task /\ waits \in [Task -> Id \cup {None}] /\ quiet \in SUBSET Task

ContextTyped ==
  /\ running \in SUBSET Task
  /\ current \in [Task -> Id \cup {None}]
  /\ inherited \in [Task -> Id \cup {None}]
  /\ blocks \in [Task -> Seq(Id)]
  /\ cell \in [Id -> Cell]

EventsTyped ==
  /\ ev \in Seq(Record)
  /\ Len(ev) <= MaxEvents
  /\ \A i \in DOMAIN ev : ev[i].parent \in {None} \cup 1..(i - 1)

WritesTyped == pending \subseteq DOMAIN ev /\ ledger \in Seq(SUBSET DOMAIN ev) /\ lost \subseteq DOMAIN ev

(* The types of Tracing, part by part. *)
LEMMA TypeParts ==
  TracingTypeOK /\ ev \in Seq(Record)
    <=> CallTyped /\ ContextTyped /\ EventsTyped /\ WritesTyped
<1>1. ASSUME ev \in Seq(Record), NEW i \in DOMAIN ev PROVE ev[i].status \in {"open", "ok", "error"}
  <2>1. ev[i] \in Record
    BY <1>1
  <2> QED
    BY <2>1 DEF Record
<1> QED
  BY <1>1 DEF TracingTypeOK, CallTyped, ContextTyped, EventsTyped, WritesTyped

(* The same of the next state. *)
LEMMA TypePartsNext ==
  CallTyped' /\ ContextTyped' /\ EventsTyped' /\ WritesTyped'
    => TracingTypeOK' /\ (ev \in Seq(Record))'
BY TypeParts, PTL

(* What was stored stays typed when more events are made. *)
LEMMA LedgerTyped ==
  ASSUME NEW D, NEW E, D \subseteq E, NEW l \in Seq(SUBSET D) PROVE l \in Seq(SUBSET E)
<1>1. \A i \in 1..Len(l) : l[i] \in SUBSET E
  OBVIOUS
<1> QED
  BY <1>1

(* What the store has, after a write and if there is none. *)
LEMMA StoredGrows ==
  ASSUME WritesTyped, NEW i, ledger' = Append(ledger, {i}) PROVE Stored' = Stored \cup {i}
<1>1. /\ DOMAIN ledger' = DOMAIN ledger \cup {Len(ledger) + 1}
      /\ \A k \in DOMAIN ledger : ledger'[k] = ledger[k]
      /\ ledger'[Len(ledger) + 1] = {i}
  BY DEF WritesTyped
<1> QED
  BY <1>1 DEF Stored

(* Only events that were made are stored. *)
LEMMA StoredTyped == ASSUME WritesTyped PROVE Stored \subseteq DOMAIN ev
BY DEF WritesTyped, Stored

(* A step that makes no event and opens or closes no block.                *)
LEMMA Quiet ==
  ASSUME TracingInv, UNCHANGED <<Context, ev, Writes>>, CallTyped'
  PROVE  TracingInv'
<1>1. ContextTyped' /\ EventsTyped' /\ WritesTyped'
  BY TypeParts DEF TracingInv, Context, Writes, ContextTyped, EventsTyped, WritesTyped
<1>2. TracingTypeOK' /\ (ev \in Seq(Record))'
  BY <1>1, TypePartsNext
<1>3. HandedOver'
  BY DEF TracingInv, HandedOver, Stored, Writes
<1>4. BlocksNest'
  BY DEF TracingInv, BlocksNest, Context, Innermost
<1>5. InParentsTrace'
  BY DEF TracingInv, InParentsTrace
<1> QED
  BY <1>2, <1>3, <1>4, <1>5 DEF TracingInv

(* Events are made and handed to the client at once (client.py:28-36).     *)
LEMMA Logged ==
  ASSUME TracingInv, UNCHANGED Context, CallTyped',
         ev' \in Seq(Record), Len(ev) <= Len(ev'), Len(ev') <= MaxEvents,
         \A i \in DOMAIN ev : ev'[i] = ev[i],
         \A i \in (Len(ev) + 1)..Len(ev') :
           /\ ev'[i].parent \in {None} \cup DOMAIN ev
           /\ ev'[i].status # "open"
           /\ ev'[i].by \in Task =>
                ev'[i].trace = IF ev'[i].parent = None THEN i ELSE ev[ev'[i].parent].trace,
         pending' = pending \cup (Len(ev) + 1)..Len(ev'),
         UNCHANGED <<ledger, lost>>
  PROVE  TracingInv'
<1> DEFINE New == (Len(ev) + 1)..Len(ev')
<1>t. CallTyped /\ ContextTyped /\ EventsTyped /\ WritesTyped /\ Len(ev) \in Nat /\ Len(ev') \in Nat
  BY TypeParts DEF TracingInv, EventsTyped
<1>d. /\ DOMAIN ev = 1..Len(ev) /\ DOMAIN ev' = 1..Len(ev')
      /\ DOMAIN ev' = DOMAIN ev \cup New /\ DOMAIN ev \cap New = {}
  <2>1. DOMAIN ev = 1..Len(ev) /\ DOMAIN ev' = 1..Len(ev')
    BY <1>t DEF EventsTyped
  <2> QED
    BY <2>1, <1>t
<1>s. Stored' = Stored
  BY DEF Stored
<1> HIDE DEF New
<1>1. ContextTyped'
  BY <1>t DEF Context, ContextTyped
<1>2. EventsTyped'
  <2>1. ASSUME NEW i \in DOMAIN ev PROVE ev'[i].parent \in {None} \cup 1..(i - 1)
    BY <1>t, <2>1 DEF EventsTyped
  <2>2. ASSUME NEW i \in New PROVE ev'[i].parent \in {None} \cup 1..(i - 1)
    <3>1. ev'[i].parent \in {None} \cup DOMAIN ev
      BY <2>2 DEF New
    <3> QED
      BY <3>1, <1>t, <1>d, <2>2 DEF New
  <2> QED
    BY <2>1, <2>2, <1>d DEF EventsTyped
<1>3. WritesTyped'
  <2>1. ledger \in Seq(SUBSET DOMAIN ev')
    BY <1>t, <1>d, LedgerTyped DEF WritesTyped
  <2>2. pending' \subseteq DOMAIN ev' /\ lost' \subseteq DOMAIN ev'
    BY <1>t, <1>d DEF WritesTyped, New
  <2> QED
    BY <2>1, <2>2 DEF WritesTyped
<1>4. TracingTypeOK' /\ (ev \in Seq(Record))'
  BY <1>1, <1>2, <1>3, TypePartsNext
<1>5. HandedOver'
  <2>1. Stored \subseteq DOMAIN ev
    BY <1>t, StoredTyped
  <2>2. pending' = pending \cup New /\ \A i \in New : ev'[i].status # "open"
    BY DEF New
  <2>3. ASSUME NEW i \in DOMAIN ev'
        PROVE  ev'[i].status = "open" <=> i \notin Stored \cup pending' \cup lost
    BY <2>2, <2>3, <1>d DEF TracingInv, HandedOver
  <2>4. pending' \cap Stored = {} /\ lost \cap (pending' \cup Stored) = {}
    BY <2>1, <2>2, <1>d, <1>t DEF TracingInv, HandedOver, WritesTyped
  <2> QED
    BY <2>3, <2>4, <1>s DEF HandedOver
<1>6. BlocksNest'
  <2> SUFFICES ASSUME NEW t \in Task
               PROVE  /\ current'[t] <= Len(ev') /\ inherited'[t] <= Len(ev')
                      /\ t \notin running' => blocks'[t] = <<>>
                      /\ current'[t] = IF blocks'[t] = <<>> THEN inherited'[t] ELSE Innermost(t)'
                      /\ \A k \in DOMAIN blocks'[t] :
                           /\ blocks'[t][k] \in DOMAIN ev'
                           /\ ev'[blocks'[t][k]].by = t /\ ev'[blocks'[t][k]].status = "open"
                           /\ cell'[blocks'[t][k]].span = blocks'[t][k]
                           /\ cell'[blocks'[t][k]].token =
                                IF k = 1 THEN inherited'[t] ELSE blocks'[t][k - 1]
                      /\ \A j, k \in DOMAIN blocks'[t] : j < k => blocks'[t][j] < blocks'[t][k]
    BY DEF BlocksNest
  <2>1. UNCHANGED <<running, current, inherited, blocks, cell>> /\ Innermost(t)' = Innermost(t)
    BY DEF Context, Innermost
  <2>2. current[t] \in Nat /\ inherited[t] \in Nat
    BY <1>t DEF ContextTyped, Id, None
  <2> QED
    BY <2>1, <2>2, <1>t, <1>d DEF TracingInv, BlocksNest
<1>7. InParentsTrace'
  <2> SUFFICES ASSUME NEW i \in DOMAIN ev', ev'[i].by \in Task
               PROVE  ev'[i].trace = IF ev'[i].parent = None THEN i
                                     ELSE ev'[ev'[i].parent].trace
    BY DEF InParentsTrace
  <2>1. CASE i \in DOMAIN ev
    <3>1. ev[i].parent = None \/ ev[i].parent \in DOMAIN ev
      BY <1>t, <1>d, <2>1 DEF EventsTyped
    <3> QED
      BY <3>1, <2>1 DEF TracingInv, InParentsTrace
  <2>2. CASE i \in New
    BY <2>2 DEF New
  <2> QED
    BY <2>1, <2>2, <1>d
<1> QED
  BY <1>4, <1>5, <1>6, <1>7 DEF TracingInv

(* One event is made and handed to the client by a task, whether it waits  *)
(* for the write or not.                                                   *)
LEMMA LogsOne ==
  ASSUME TracingInv, NEW t \in Task, NEW q \in BOOLEAN, NEW r \in Record,
         Len(ev) < MaxEvents, ev' = Append(ev, r),
         r.parent \in {None} \cup DOMAIN ev, r.status # "open",
         r.by \in Task => r.trace = IF r.parent = None THEN NextId ELSE ev[r.parent].trace,
         Submit(t, NextId, q) \/ SubmitInline(t, NextId, q),
         UNCHANGED <<Context, raising>>
  PROVE  TracingInv'
<1>t. CallTyped /\ EventsTyped /\ Len(ev) \in Nat /\ NextId \in Id
  BY TypeParts, BoundAssumption DEF TracingInv, EventsTyped, NextId, Id
<1>1. /\ ev' \in Seq(Record) /\ Len(ev') = Len(ev) + 1 /\ Len(ev') <= MaxEvents
      /\ \A i \in DOMAIN ev : ev'[i] = ev[i]
      /\ ev'[NextId] = r
      /\ (Len(ev) + 1)..Len(ev') = {NextId}
  BY <1>t, BoundAssumption DEF EventsTyped, NextId
<1>2. pending' = pending \cup {NextId} /\ UNCHANGED <<ledger, lost>>
  BY DEF Submit, SubmitInline
<1>3. CallTyped'
  <2>1. waits' \in [Task -> Id \cup {None}]
    BY <1>t DEF Submit, SubmitInline, CallTyped, Call
  <2>2. quiet' \in SUBSET Task
    BY <1>t DEF Submit, SubmitInline, CallTyped, Call
  <2> QED
    BY <1>t, <2>1, <2>2 DEF CallTyped
<1> QED
  BY <1>t, <1>1, <1>2, <1>3, Logged

(* The event a task makes itself is typed and in its parent's trace.       *)
LEMMA NewEventOK ==
  ASSUME TracingInv, NEW t \in Task, NEW stage \in Stage, NEW status \in {"open", "ok", "error"},
         Len(ev) < MaxEvents, NEW r, r = NewEvent(t, stage, status)
  PROVE  /\ r \in Record /\ r.by = t /\ r.status = status
         /\ r.parent = current[t] /\ r.parent \in {None} \cup DOMAIN ev
         /\ r.trace = IF r.parent = None THEN NextId ELSE ev[r.parent].trace
<1>t. ContextTyped /\ EventsTyped /\ Len(ev) \in Nat /\ NextId \in Id
  BY TypeParts, BoundAssumption DEF TracingInv, EventsTyped, NextId, Id
<1>1. current[t] \in {None} \cup DOMAIN ev
  <2>1. current[t] \in Id \cup {None} /\ current[t] <= Len(ev)
    BY <1>t DEF ContextTyped, TracingInv, BlocksNest
  <2>2. DOMAIN ev = 1..Len(ev)
    BY <1>t DEF EventsTyped
  <2> QED
    BY <2>1, <2>2, <1>t, BoundAssumption DEF Id, None
<1>2. ASSUME current[t] # None PROVE ev[current[t]].trace \in Id \cup Run \cup Turn
  <2>1. ev[current[t]] \in Record
    BY <1>1, <1>2, <1>t DEF EventsTyped
  <2> QED
    BY <2>1 DEF Record
<1>3. current[t] \in Id \cup {None}
  BY <1>t DEF ContextTyped
<1> QED
  BY <1>t, <1>1, <1>2, <1>3 DEF NewEvent, Record, Maker

------------------------------------------------------------------------------
(* The steps of tracing.py and of the client. *)

(* A block opens: its event is the last one made (tracing.py:50-53). *)
LEMMA EnterOK == ASSUME TracingInv, NEW t \in Task, Enter(t) PROVE TracingInv'
<1> DEFINE r == NewEvent(t, "span", "open")
           n == NextId
<1>t. /\ CallTyped /\ ContextTyped /\ EventsTyped /\ WritesTyped
      /\ Len(ev) \in Nat /\ n = Len(ev) + 1 /\ n \in Id /\ Len(ev) < MaxEvents
      /\ DOMAIN ev = 1..Len(ev) /\ n \notin DOMAIN ev
  <2>1. CallTyped /\ ContextTyped /\ EventsTyped /\ WritesTyped /\ Len(ev) \in Nat
    BY TypeParts DEF TracingInv, EventsTyped
  <2>2. DOMAIN ev = 1..Len(ev)
    BY <2>1 DEF EventsTyped
  <2> QED
    BY <2>1, <2>2, BoundAssumption DEF Enter, NextId, Id
<1>r. /\ r \in Record /\ r.by = t /\ r.status = "open"
      /\ r.parent = current[t] /\ r.parent \in {None} \cup DOMAIN ev
      /\ r.trace = IF r.parent = None THEN n ELSE ev[r.parent].trace
  <2>1. r = NewEvent(t, "span", "open")
    OBVIOUS
  <2>2. "span" \in Stage /\ "open" \in {"open", "ok", "error"} /\ Len(ev) < MaxEvents
    BY <1>t DEF Stage
  <2> HIDE DEF r
  <2> QED
    BY <2>1, <2>2, NewEventOK
<1>e. /\ ev' = Append(ev, r)
      /\ cell' = [cell EXCEPT ![n] = [span |-> n, token |-> current[t]]]
      /\ blocks' = [blocks EXCEPT ![t] = Append(blocks[t], n)]
      /\ current' = [current EXCEPT ![t] = n]
      /\ UNCHANGED <<running, inherited, raising, waits, quiet, pending, ledger, lost>>
      /\ t \in running
  BY DEF Enter, NewHandle, Call, Writes, Calm
<1> HIDE DEF r, n
<1>d. /\ ev' \in Seq(Record) /\ Len(ev') = n /\ DOMAIN ev' = DOMAIN ev \cup {n}
      /\ \A i \in DOMAIN ev : ev'[i] = ev[i]
      /\ ev'[n] = r
  BY <1>t, <1>r, <1>e DEF EventsTyped
<1>b. /\ blocks[t] \in Seq(Id) /\ Len(blocks[t]) \in Nat
      /\ blocks'[t] \in Seq(Id) /\ Len(blocks'[t]) = Len(blocks[t]) + 1
      /\ DOMAIN blocks[t] = 1..Len(blocks[t])
      /\ DOMAIN blocks'[t] = DOMAIN blocks[t] \cup {Len(blocks[t]) + 1}
      /\ \A k \in DOMAIN blocks[t] : blocks'[t][k] = blocks[t][k]
      /\ blocks'[t][Len(blocks[t]) + 1] = n
  <2>1. blocks[t] \in Seq(Id) /\ blocks'[t] = Append(blocks[t], n)
    BY <1>t, <1>e DEF ContextTyped
  <2> QED
    BY <2>1, <1>t
<1>1. TracingTypeOK' /\ (ev \in Seq(Record))'
  <2>1. CallTyped'
    BY <1>t, <1>e DEF CallTyped
  <2>2. ContextTyped'
    <3>1. current[t] \in Id \cup {None} /\ [span |-> n, token |-> current[t]] \in Cell
      BY <1>t DEF ContextTyped, Cell
    <3>2. cell' \in [Id -> Cell]
      BY <3>1, <1>t, <1>e DEF ContextTyped
    <3>3. blocks' \in [Task -> Seq(Id)]
      BY <1>b, <1>t, <1>e DEF ContextTyped
    <3>4. current' \in [Task -> Id \cup {None}]
      BY <1>t, <1>e DEF ContextTyped
    <3> QED
      BY <3>2, <3>3, <3>4, <1>t, <1>e DEF ContextTyped
  <2>3. EventsTyped'
    <3>1. ASSUME NEW i \in DOMAIN ev' PROVE ev'[i].parent \in {None} \cup 1..(i - 1)
      BY <1>t, <1>r, <1>d DEF EventsTyped
    <3> QED
      BY <3>1, <1>d, <1>t, BoundAssumption DEF EventsTyped
  <2>4. WritesTyped'
    BY <1>t, <1>d, <1>e, LedgerTyped DEF WritesTyped
  <2> QED
    BY <2>1, <2>2, <2>3, <2>4, TypePartsNext
<1>2. HandedOver'
  <2>1. Stored' = Stored /\ Stored \subseteq DOMAIN ev
    BY <1>t, <1>e, StoredTyped DEF Stored
  <2>2. n \notin Stored \cup pending \cup lost
    BY <2>1, <1>t DEF WritesTyped
  <2> QED
    BY <2>1, <2>2, <1>r, <1>d, <1>e DEF TracingInv, HandedOver
<1>3. BlocksNest'
  <2> SUFFICES ASSUME NEW u \in Task
               PROVE  /\ current'[u] <= Len(ev') /\ inherited'[u] <= Len(ev')
                      /\ u \notin running' => blocks'[u] = <<>>
                      /\ current'[u] = IF blocks'[u] = <<>> THEN inherited'[u] ELSE Innermost(u)'
                      /\ \A k \in DOMAIN blocks'[u] :
                           /\ blocks'[u][k] \in DOMAIN ev'
                           /\ ev'[blocks'[u][k]].by = u /\ ev'[blocks'[u][k]].status = "open"
                           /\ cell'[blocks'[u][k]].span = blocks'[u][k]
                           /\ cell'[blocks'[u][k]].token =
                                IF k = 1 THEN inherited'[u] ELSE blocks'[u][k - 1]
                      /\ \A j, k \in DOMAIN blocks'[u] : j < k => blocks'[u][j] < blocks'[u][k]
    BY DEF BlocksNest
  <2>0. /\ current[u] \in Nat /\ inherited[u] \in Nat
        /\ current[u] <= Len(ev) /\ inherited[u] <= Len(ev)
        /\ u \notin running => blocks[u] = <<>>
        /\ current[u] = IF blocks[u] = <<>> THEN inherited[u] ELSE Innermost(u)
        /\ \A k \in DOMAIN blocks[u] :
             /\ blocks[u][k] \in DOMAIN ev
             /\ ev[blocks[u][k]].by = u /\ ev[blocks[u][k]].status = "open"
             /\ cell[blocks[u][k]].span = blocks[u][k]
             /\ cell[blocks[u][k]].token = IF k = 1 THEN inherited[u] ELSE blocks[u][k - 1]
        /\ \A j, k \in DOMAIN blocks[u] : j < k => blocks[u][j] < blocks[u][k]
    BY <1>t DEF TracingInv, BlocksNest, ContextTyped, Id, None
  <2>c. \A b \in DOMAIN ev : cell'[b] = cell[b]
    BY <1>t, <1>e DEF ContextTyped
  <2>1. CASE u # t
    <3>1. blocks'[u] = blocks[u] /\ current'[u] = current[u] /\ Innermost(u)' = Innermost(u)
      BY <2>1, <1>t, <1>e DEF ContextTyped, Innermost
    <3> QED
      BY <2>0, <2>c, <3>1, <1>d, <1>e, <1>t
  <2>2. CASE u = t
    <3>1. current'[t] = n /\ Innermost(t)' = n /\ blocks'[t] # <<>>
      BY <1>t, <1>e, <1>b DEF ContextTyped, Innermost
    <3>2. cell'[n] = [span |-> n, token |-> current[t]]
      BY <1>t, <1>e DEF ContextTyped
    <3>3. current[t] = IF Len(blocks[t]) = 0 THEN inherited[t] ELSE blocks[t][Len(blocks[t])]
      BY <2>0, <2>2, <1>b DEF Innermost
    <3>4. ASSUME NEW k \in DOMAIN blocks'[t]
          PROVE  /\ blocks'[t][k] \in DOMAIN ev'
                 /\ ev'[blocks'[t][k]].by = t /\ ev'[blocks'[t][k]].status = "open"
                 /\ cell'[blocks'[t][k]].span = blocks'[t][k]
                 /\ cell'[blocks'[t][k]].token =
                      IF k = 1 THEN inherited'[t] ELSE blocks'[t][k - 1]
      <4>1. CASE k \in DOMAIN blocks[t]
        <5>1. k = 1 \/ k - 1 \in DOMAIN blocks[t]
          BY <4>1, <1>b
        <5>2. blocks'[t][k] = blocks[t][k] /\ (k # 1 => blocks'[t][k - 1] = blocks[t][k - 1])
          BY <5>1, <4>1, <1>b
        <5> QED
          BY <5>2, <4>1, <2>0, <2>2, <2>c, <1>d, <1>e
      <4>2. CASE k = Len(blocks[t]) + 1
        <5>1. k = 1 \/ k - 1 \in DOMAIN blocks[t]
          BY <4>2, <1>b
        <5>2. IF k = 1 THEN current[t] = inherited[t] ELSE current[t] = blocks'[t][k - 1]
          BY <5>1, <4>2, <3>3, <1>b
        <5> QED
          BY <5>2, <4>2, <3>2, <1>b, <1>d, <1>e, <1>r
      <4> QED
        BY <4>1, <4>2, <1>b
    <3>5. ASSUME NEW j \in DOMAIN blocks'[t], NEW k \in DOMAIN blocks'[t], j < k
          PROVE  blocks'[t][j] < blocks'[t][k]
      <4>1. j \in DOMAIN blocks[t]
        BY <3>5, <1>b
      <4>2. blocks[t][j] < n
        BY <4>1, <2>0, <2>2, <1>t
      <4> QED
        BY <4>1, <4>2, <3>5, <2>0, <2>2, <1>b
    <3> QED
      BY <2>0, <2>2, <3>1, <3>4, <3>5, <1>d, <1>e, <1>t
  <2> QED
    BY <2>1, <2>2
<1>4. InParentsTrace'
  <2> SUFFICES ASSUME NEW i \in DOMAIN ev', ev'[i].by \in Task
               PROVE  ev'[i].trace = IF ev'[i].parent = None THEN i
                                     ELSE ev'[ev'[i].parent].trace
    BY DEF InParentsTrace
  <2>1. CASE i \in DOMAIN ev
    <3>1. ev[i].parent = None \/ ev[i].parent \in DOMAIN ev
      BY <1>t, <2>1 DEF EventsTyped
    <3> QED
      BY <3>1, <2>1, <1>d DEF TracingInv, InParentsTrace
  <2>2. CASE i = n
    BY <2>2, <1>r, <1>d
  <2> QED
    BY <2>1, <2>2, <1>d
<1> QED
  BY <1>1, <1>2, <1>3, <1>4 DEF TracingInv

(* A block closes, by an exception or not: the context is the one before   *)
(* it, and its event goes to the client (tracing.py:55-62).                *)
LEMMA ExitOK == ASSUME TracingInv, NEW t \in Task, Exit(t) PROVE TracingInv'
<1> DEFINE b == Innermost(t)
           L == Len(blocks[t])
           s == IF t \in raising THEN "error" ELSE "ok"
<1>t. /\ CallTyped /\ ContextTyped /\ EventsTyped /\ WritesTyped
      /\ DOMAIN ev = 1..Len(ev) /\ Len(ev) \in Nat
      /\ blocks[t] \in Seq(Id) /\ L \in Nat \ {0} /\ DOMAIN blocks[t] = 1..L
      /\ b = blocks[t][L] /\ L \in DOMAIN blocks[t]
  <2>1. CallTyped /\ ContextTyped /\ EventsTyped /\ WritesTyped /\ blocks[t] # <<>>
    BY TypeParts DEF TracingInv, Exit
  <2>2. DOMAIN ev = 1..Len(ev) /\ Len(ev) \in Nat
    BY <2>1 DEF EventsTyped
  <2>3. blocks[t] \in Seq(Id) /\ DOMAIN blocks[t] = 1..L /\ L \in Nat \ {0}
    BY <2>1 DEF ContextTyped
  <2> QED
    BY <2>1, <2>2, <2>3 DEF Innermost
<1>h. /\ b \in DOMAIN ev /\ ev[b].by = t /\ ev[b].status = "open" /\ b \in Id
      /\ cell[b].span = b
      /\ cell[b].token = IF L = 1 THEN inherited[t] ELSE blocks[t][L - 1]
  <2>1. \A k \in DOMAIN blocks[t] :
          /\ blocks[t][k] \in DOMAIN ev
          /\ ev[blocks[t][k]].by = t /\ ev[blocks[t][k]].status = "open"
          /\ cell[blocks[t][k]].span = blocks[t][k]
          /\ cell[blocks[t][k]].token = IF k = 1 THEN inherited[t] ELSE blocks[t][k - 1]
    BY DEF TracingInv, BlocksNest
  <2> HIDE DEF b, L
  <2>2. b \in DOMAIN ev /\ ev[b].by = t /\ ev[b].status = "open"
    BY <1>t, <2>1
  <2>3. /\ cell[b].span = b
        /\ cell[b].token = IF L = 1 THEN inherited[t] ELSE blocks[t][L - 1]
    BY <1>t, <2>1
  <2>4. b \in Id
    BY <1>t, <2>2, BoundAssumption DEF EventsTyped, Id
  <2> QED
    BY <2>2, <2>3, <2>4
<1>e. /\ current' = [current EXCEPT ![t] = cell[b].token]
      /\ ev' = [ev EXCEPT ![b].status = s]
      /\ blocks' = [blocks EXCEPT ![t] = SubSeq(blocks[t], 1, L - 1)]
      /\ pending' = pending \cup {b}
      /\ UNCHANGED <<running, inherited, cell, raising, ledger, lost>>
      /\ s \in {"ok", "error"} /\ t \in running
  BY <1>h DEF Exit, Submit, SubmitInline
<1>w. waits' \in [Task -> Id \cup {None}] /\ quiet' \in SUBSET Task
  <2>1. Submit(t, b, FALSE)
    BY <1>h DEF Exit
  <2> QED
    BY <2>1, <1>t, <1>h DEF Submit, SubmitInline, Call, CallTyped
<1> HIDE DEF b, L, s
<1>d. /\ ev' \in Seq(Record) /\ Len(ev') = Len(ev) /\ DOMAIN ev' = DOMAIN ev
      /\ \A i \in DOMAIN ev : /\ ev'[i].by = ev[i].by /\ ev'[i].trace = ev[i].trace
                              /\ ev'[i].parent = ev[i].parent
                              /\ i # b => ev'[i].status = ev[i].status
      /\ ev'[b].status = s
  <2>1. \A i \in DOMAIN ev : ev[i] \in Record
    BY <1>t DEF EventsTyped
  <2>2. \A i \in DOMAIN ev : [ev[i] EXCEPT !.status = s] \in Record
    BY <2>1, <1>e DEF Record
  <2>4. /\ ev' = [i \in 1..Len(ev) |-> ev'[i]]
        /\ \A i \in DOMAIN ev : ev'[i] = IF i = b THEN [ev[i] EXCEPT !.status = s] ELSE ev[i]
    BY <1>e, <1>t DEF EventsTyped
  <2>5. \A i \in 1..Len(ev) : ev'[i] \in Record
    BY <2>1, <2>2, <2>4, <1>t
  <2>3. ev' \in Seq(Record) /\ Len(ev') = Len(ev) /\ DOMAIN ev' = DOMAIN ev
    BY <2>4, <2>5, <1>t
  <2> QED
    BY <2>1, <2>3, <2>4, <1>h DEF Record
<1>b. /\ blocks'[t] \in Seq(Id) /\ Len(blocks'[t]) = L - 1
      /\ DOMAIN blocks'[t] = 1..(L - 1)
      /\ \A k \in 1..(L - 1) : blocks'[t][k] = blocks[t][k]
  <2>1. blocks'[t] = SubSeq(blocks[t], 1, L - 1)
    BY <1>t, <1>e DEF ContextTyped
  <2>2. Len(blocks[t]) = L
    BY DEF L
  <2> QED
    BY <2>1, <2>2, <1>t
<1>c. cell[b].token \in Id \cup {None}
  BY <1>t, <1>h DEF ContextTyped, Cell
<1>1. TracingTypeOK' /\ (ev \in Seq(Record))'
  <2>1. CallTyped'
    BY <1>t, <1>e, <1>w DEF CallTyped
  <2>2. ContextTyped'
    BY <1>t, <1>e, <1>b, <1>c DEF ContextTyped
  <2>3. EventsTyped'
    BY <1>t, <1>d DEF EventsTyped
  <2>4. WritesTyped'
    BY <1>t, <1>d, <1>e, <1>h DEF WritesTyped
  <2> QED
    BY <2>1, <2>2, <2>3, <2>4, TypePartsNext
<1>2. HandedOver'
  <2>1. Stored' = Stored
    BY <1>e DEF Stored
  <2>2. b \notin Stored \cup pending \cup lost
    BY <1>h DEF TracingInv, HandedOver
  <2>3. s # "open"
    BY <1>e
  <2> QED
    BY <2>1, <2>2, <2>3, <1>d, <1>e DEF TracingInv, HandedOver
<1>3. BlocksNest'
  <2> SUFFICES ASSUME NEW u \in Task
               PROVE  /\ current'[u] <= Len(ev') /\ inherited'[u] <= Len(ev')
                      /\ u \notin running' => blocks'[u] = <<>>
                      /\ current'[u] = IF blocks'[u] = <<>> THEN inherited'[u] ELSE Innermost(u)'
                      /\ \A k \in DOMAIN blocks'[u] :
                           /\ blocks'[u][k] \in DOMAIN ev'
                           /\ ev'[blocks'[u][k]].by = u /\ ev'[blocks'[u][k]].status = "open"
                           /\ cell'[blocks'[u][k]].span = blocks'[u][k]
                           /\ cell'[blocks'[u][k]].token =
                                IF k = 1 THEN inherited'[u] ELSE blocks'[u][k - 1]
                      /\ \A j, k \in DOMAIN blocks'[u] : j < k => blocks'[u][j] < blocks'[u][k]
    BY DEF BlocksNest
  <2>0. /\ current[u] \in Nat /\ inherited[u] \in Nat
        /\ current[u] <= Len(ev) /\ inherited[u] <= Len(ev)
        /\ u \notin running => blocks[u] = <<>>
        /\ current[u] = IF blocks[u] = <<>> THEN inherited[u] ELSE Innermost(u)
        /\ \A k \in DOMAIN blocks[u] :
             /\ blocks[u][k] \in DOMAIN ev
             /\ ev[blocks[u][k]].by = u /\ ev[blocks[u][k]].status = "open"
             /\ cell[blocks[u][k]].span = blocks[u][k]
             /\ cell[blocks[u][k]].token = IF k = 1 THEN inherited[u] ELSE blocks[u][k - 1]
        /\ \A j, k \in DOMAIN blocks[u] : j < k => blocks[u][j] < blocks[u][k]
    BY <1>t DEF TracingInv, BlocksNest, ContextTyped, Id, None
  <2>1. CASE u # t
    <3>1. blocks'[u] = blocks[u] /\ current'[u] = current[u] /\ Innermost(u)' = Innermost(u)
      BY <2>1, <1>t, <1>e DEF ContextTyped, Innermost
    <3>2. \A k \in DOMAIN blocks[u] : blocks[u][k] # b
      BY <2>0, <2>1, <1>h
    <3> QED
      BY <2>0, <3>1, <3>2, <1>d, <1>e, <1>t
  <2>2. CASE u = t
    <3>1. ASSUME NEW k \in 1..(L - 1) PROVE k \in DOMAIN blocks[t] /\ blocks[t][k] # b
      <4>1. k \in DOMAIN blocks[t] /\ k < L
        BY <1>t
      <4>2. blocks[t][k] < blocks[t][L] /\ blocks[t][k] \in DOMAIN ev
        BY <4>1, <1>t, <2>0, <2>2
      <4> QED
        BY <4>1, <4>2, <1>t
    <3>2. current'[t] = cell[b].token
      BY <1>t, <1>e DEF ContextTyped
    <3>3. CASE L = 1
      <4>1. blocks'[t] = <<>>
        BY <3>3, <1>b
      <4> QED
        BY <4>1, <3>2, <3>3, <2>0, <2>2, <1>d, <1>e, <1>h
    <3>4. CASE L # 1
      <4>1. blocks'[t] # <<>> /\ Innermost(t)' = blocks[t][L - 1] /\ L - 1 \in 1..(L - 1)
        BY <3>4, <1>b, <1>t DEF Innermost
      <4>2. current'[t] = blocks[t][L - 1] /\ blocks[t][L - 1] <= Len(ev)
        BY <4>1, <3>1, <3>2, <3>4, <2>0, <2>2, <1>h, <1>t
      <4>3. ASSUME NEW k \in DOMAIN blocks'[t]
            PROVE  /\ blocks'[t][k] = blocks[t][k] /\ k \in DOMAIN blocks[t] /\ blocks[t][k] # b
                   /\ k # 1 => blocks'[t][k - 1] = blocks[t][k - 1]
        <5>1. k \in 1..(L - 1) /\ (k # 1 => k - 1 \in 1..(L - 1))
          BY <1>b, <1>t
        <5> QED
          BY <5>1, <3>1, <1>b
      <4>4. ASSUME NEW k \in DOMAIN blocks'[t]
            PROVE  /\ blocks'[t][k] \in DOMAIN ev'
                   /\ ev'[blocks'[t][k]].by = t /\ ev'[blocks'[t][k]].status = "open"
                   /\ cell'[blocks'[t][k]].span = blocks'[t][k]
                   /\ cell'[blocks'[t][k]].token =
                        IF k = 1 THEN inherited'[t] ELSE blocks'[t][k - 1]
        <5>1. /\ blocks[t][k] \in DOMAIN ev
              /\ ev[blocks[t][k]].by = t /\ ev[blocks[t][k]].status = "open"
              /\ cell[blocks[t][k]].span = blocks[t][k]
              /\ cell[blocks[t][k]].token = IF k = 1 THEN inherited[t] ELSE blocks[t][k - 1]
          BY <4>3, <2>0, <2>2
        <5>2. /\ blocks[t][k] \in DOMAIN ev'
              /\ ev'[blocks[t][k]].by = t /\ ev'[blocks[t][k]].status = "open"
          BY <5>1, <4>3, <1>d
        <5> QED
          BY <5>1, <5>2, <4>3, <1>e
      <4>5. ASSUME NEW j \in DOMAIN blocks'[t], NEW k \in DOMAIN blocks'[t], j < k
            PROVE  blocks'[t][j] < blocks'[t][k]
        BY <4>3, <4>5, <2>0, <2>2
      <4>6. current'[t] <= Len(ev') /\ inherited'[t] <= Len(ev') /\ t \in running'
        BY <4>2, <2>0, <2>2, <1>d, <1>e
      <4> QED
        BY <4>1, <4>2, <4>4, <4>5, <4>6, <2>2
    <3> QED
      BY <2>2, <3>3, <3>4
  <2> QED
    BY <2>1, <2>2
<1>4. InParentsTrace'
  <2>1. \A i \in DOMAIN ev : ev[i].parent = None \/ ev[i].parent \in DOMAIN ev
    BY <1>t DEF EventsTyped
  <2> QED
    BY <2>1, <1>d DEF TracingInv, InParentsTrace
<1> QED
  BY <1>1, <1>2, <1>3, <1>4 DEF TracingInv

(* An event is made in one go and handed to the client (tracing.py:116-132). *)
LEMMA LogStageOK ==
  ASSUME TracingInv, NEW t \in Task, NEW q \in BOOLEAN, LogStage(t, q) PROVE TracingInv'
<1> DEFINE r == NewEvent(t, "logged", "ok")
<1>1. "logged" \in Stage /\ "ok" \in {"open", "ok", "error"} /\ Len(ev) < MaxEvents
  <2>1. Len(ev) \in Nat /\ Len(ev) < MaxManual
    BY DEF TracingInv, LogStage
  <2> QED
    BY <2>1, BoundAssumption DEF Stage
<1>2. /\ r \in Record /\ r.by = t /\ r.status = "ok"
      /\ r.parent = current[t] /\ r.parent \in {None} \cup DOMAIN ev
      /\ r.trace = IF r.parent = None THEN NextId ELSE ev[r.parent].trace
  BY <1>1, NewEventOK
<1>3. ev' = Append(ev, r) /\ Submit(t, NextId, q) /\ UNCHANGED <<Context, raising>>
  BY DEF LogStage
<1> HIDE DEF r
<1>4. r.status # "open"
  BY <1>2
<1> QED
  BY <1>1, <1>2, <1>3, <1>4, LogsOne

(* Exceptions and ground truth leave events and blocks alone               *)
(* (tracing.py:203-207).                                                   *)
LEMMA CallsOK ==
  ASSUME TracingInv, NEW t \in Task,
         VectorQuery(t) \/ LogGroundTruth(t) \/ Raise(t) \/ Catch(t)
  PROVE  TracingInv'
<1>t. CallTyped
  BY TypeParts DEF TracingInv
<1>1. CASE LogStage(t, TRUE)
  BY <1>1, LogStageOK
<1>2. CASE LogGroundTruth(t) \/ Raise(t) \/ Catch(t) \/ (VectorQuery(t) /\ ~LogStage(t, TRUE))
  <2>1. UNCHANGED <<Context, ev, Writes>>
    BY <1>2 DEF LogGroundTruth, Raise, Catch, VectorQuery, LogHits
  <2>2. CallTyped'
    BY <1>2, <1>t DEF LogGroundTruth, Raise, Catch, VectorQuery, LogHits, Call, CallTyped
  <2> QED
    BY <2>1, <2>2, Quiet
<1> QED
  BY <1>1, <1>2

(* A task starts, with a copy of its creator's span or with none           *)
(* (tracing.py:15-17).                                                     *)
LEMMA SpawnOK ==
  ASSUME TracingInv, NEW t \in Task, NEW u \in Task, Spawn(t, u) PROVE TracingInv'
<1>t. /\ CallTyped /\ ContextTyped /\ EventsTyped /\ WritesTyped /\ Len(ev) \in Nat
      /\ current[t] <= Len(ev) /\ blocks[u] = <<>>
  BY TypeParts DEF TracingInv, EventsTyped, BlocksNest, Spawn
<1>e. PICK c \in {current[t], None} :
           /\ current' = [current EXCEPT ![u] = c]
           /\ inherited' = [inherited EXCEPT ![u] = c]
  BY DEF Spawn
<1>u. /\ running' = running \cup {u}
      /\ UNCHANGED <<blocks, cell, raising, waits, quiet, ev, pending, ledger, lost>>
  BY DEF Spawn, Call, Writes
<1>c. c \in Id \cup {None} /\ c <= Len(ev)
  BY <1>t, <1>e DEF ContextTyped, None
<1>1. TracingTypeOK' /\ (ev \in Seq(Record))'
  <2>1. CallTyped' /\ EventsTyped' /\ WritesTyped'
    BY <1>t, <1>u DEF CallTyped, EventsTyped, WritesTyped
  <2>2. ContextTyped'
    BY <1>t, <1>u, <1>c, <1>e DEF ContextTyped
  <2> QED
    BY <2>1, <2>2, TypePartsNext
<1>2. HandedOver' /\ InParentsTrace'
  BY <1>u DEF TracingInv, HandedOver, InParentsTrace, Stored
<1>3. BlocksNest'
  <2>1. \A v \in Task : v # u => current'[v] = current[v] /\ inherited'[v] = inherited[v]
    BY <1>t, <1>e DEF ContextTyped
  <2>2. current'[u] = c /\ inherited'[u] = c
    BY <1>t, <1>e DEF ContextTyped
  <2> QED
    BY <2>1, <2>2, <1>t, <1>u, <1>c DEF TracingInv, BlocksNest, Innermost
<1> QED
  BY <1>1, <1>2, <1>3 DEF TracingInv

(* The store takes an event, or its write raises (client.py:28-36). *)
LEMMA StoreOK == ASSUME TracingInv, NEW i \in Id, StoreStep(i) PROVE TracingInv'
<1>t. /\ CallTyped /\ ContextTyped /\ EventsTyped /\ WritesTyped /\ i \in pending
      /\ i \in DOMAIN ev /\ Stored \subseteq DOMAIN ev
  <2>1. CallTyped /\ ContextTyped /\ EventsTyped /\ WritesTyped /\ i \in pending
    BY TypeParts DEF TracingInv, StoreStep, Write, WriteFails
  <2> QED
    BY <2>1, StoredTyped DEF WritesTyped
<1>e. /\ UNCHANGED <<Context, ev>>
      /\ pending' = pending \ {i}
      /\ \/ ledger' = Append(ledger, {i}) /\ lost' = lost
         \/ lost' = lost \cup {i} /\ ledger' = ledger
      /\ Released(i)
      /\ raising' \in {raising, raising \cup (Waiting(i) \ quiet)}
  BY DEF StoreStep, Write, WriteFails
<1>1. CallTyped'
  <2>1. Waiting(i) \subseteq Task
    BY DEF Waiting
  <2> QED
    BY <2>1, <1>t, <1>e DEF Released, CallTyped
<1>2. WritesTyped'
  <2>1. {i} \in SUBSET DOMAIN ev
    BY <1>t
  <2> QED
    BY <2>1, <1>t, <1>e DEF WritesTyped
<1>3. TracingTypeOK' /\ (ev \in Seq(Record))'
  <2>1. ContextTyped' /\ EventsTyped'
    BY <1>t, <1>e DEF Context, ContextTyped, EventsTyped
  <2> QED
    BY <2>1, <1>1, <1>2, TypePartsNext
<1>4. HandedOver'
  <2>1. CASE ledger' = Append(ledger, {i}) /\ lost' = lost
    <3>1. Stored' = Stored \cup {i}
      BY <2>1, <1>t, StoredGrows
    <3> QED
      BY <3>1, <2>1, <1>t, <1>e DEF TracingInv, HandedOver
  <2>2. CASE lost' = lost \cup {i} /\ ledger' = ledger
    <3>1. Stored' = Stored
      BY <2>2 DEF Stored
    <3> QED
      BY <3>1, <2>2, <1>t, <1>e DEF TracingInv, HandedOver
  <2> QED
    BY <1>e, <2>1, <2>2
<1>5. BlocksNest'
  BY <1>e DEF TracingInv, BlocksNest, Context, Innermost
<1>6. InParentsTrace'
  BY <1>e DEF TracingInv, InParentsTrace
<1> QED
  BY <1>3, <1>4, <1>5, <1>6 DEF TracingInv

------------------------------------------------------------------------------
(* The LangChain handler. *)

LangChainInv == LangChainTypeOK /\ RootTraced

(* An adapter's event has no parent and is made by a run or a turn, and is *)
(* in a trace that one of those or an event began.                         *)
LEMMA AdapterLogs ==
  ASSUME TracingInv, NEW t \in Task, NEW q \in BOOLEAN, Len(ev) < MaxEvents,
         NEW by \in Run \cup Turn \cup {"ingest"}, NEW trace \in Id \cup Run \cup Turn,
         NEW stage \in Stage, NEW status \in {"ok", "error"},
         ev' = Append(ev, [trace |-> trace, parent |-> None, by |-> by,
                           stage |-> stage, status |-> status]),
         Submit(t, NextId, q) \/ SubmitInline(t, NextId, q),
         UNCHANGED <<Context, raising>>
  PROVE  TracingInv'
<1> DEFINE r == [trace |-> trace, parent |-> None, by |-> by, stage |-> stage, status |-> status]
<1>1. r \in Record /\ r.parent \in {None} \cup DOMAIN ev /\ r.status # "open" /\ r.by \notin Task
  BY RunsApart, TurnData, MakersApart DEF Record, Maker
<1>2. ev' = Append(ev, r)
  OBVIOUS
<1> HIDE DEF r
<1> QED
  BY <1>1, <1>2, LogsOne

(* A callback of the handler logs one event (langchain.py:105-223). *)
LEMMA LogForOK ==
  ASSUME TracingInv, NEW t \in Task, NEW r \in Run, NEW stage \in Stage,
         NEW status \in {"ok", "error"}, NEW trace \in Run, NEW inline \in BOOLEAN,
         LogFor(t, r, stage, status, trace, inline)
  PROVE  TracingInv'
<1>1. Submit(t, NextId, TRUE) \/ SubmitInline(t, NextId, TRUE)
  BY DEF LogFor
<1> QED
  BY <1>1, AdapterLogs DEF LogFor

(* Nothing that Tracing keeps changes. *)
LEMMA TracingKept == ASSUME TracingInv, UNCHANGED tvars PROVE TracingInv'
<1>1. CallTyped
  BY TypeParts DEF TracingInv
<1>2. UNCHANGED <<Context, ev, Writes>> /\ CallTyped'
  BY <1>1 DEF tvars, Context, Writes, CallTyped
<1> QED
  BY <1>2, Quiet

(* _ensure_trace returns an id (langchain.py:127-131). *)
LEMMA TraceMade ==
  ASSUME LangChainTypeOK, NEW r \in Run PROVE EnsureTrace(HandlerOf[r], r) \in Run
BY RunData DEF LangChainTypeOK, EnsureTrace

(* Runs start and end in tasks (langchain.py:92-223). *)
LEMMA RunsOK ==
  ASSUME LangChainTypeOK, NEW t \in Task, NEW r \in Run
  PROVE  /\ Starts(t, r) => /\ state' \in [Run -> {"new", "open", "ended", "failed"}]
                            /\ runner' \in [Run -> Task]
         /\ \A how \in {"ended", "failed"} :
              Ends(t, r, how) => /\ state' \in [Run -> {"new", "open", "ended", "failed"}]
                                 /\ runner' \in [Run -> Task]
BY DEF LangChainTypeOK, Starts, Ends

(* A root chain has a trace when it starts, and until it ends              *)
(* (langchain.py:92-125).                                                  *)
LEMMA ChainsOK ==
  ASSUME TracingInv, LangChainInv, NEW t \in Task, NEW r \in Run, NEW how \in {"ended", "failed"},
         ChainStart(t, r) \/ ChainStop(t, r, how)
  PROVE  TracingInv' /\ LangChainInv'
<1>h. HandlerOf[r] \in Handler /\ NoRun \notin Run
  BY RunData, RunsApart
<1>1. CASE ChainStart(t, r)
  <2>1. TracingInv'
    BY <1>1, TracingKept DEF ChainStart
  <2>2. LangChainTypeOK'
    <3>1. rootRun' \in [Handler -> Run \cup {NoRun}] /\ traceId' \in [Handler -> Run \cup {NoRun}]
      BY <1>1, <1>h DEF ChainStart, LangChainInv, LangChainTypeOK
    <3> QED
      BY <1>1, <3>1, RunsOK DEF ChainStart, LangChainInv, LangChainTypeOK
  <2>3. RootTraced'
    BY <1>1, <1>h DEF ChainStart, LangChainInv, LangChainTypeOK, RootTraced
  <2> QED
    BY <2>1, <2>2, <2>3 DEF LangChainInv
<1>2. CASE ChainStop(t, r, how) /\ rootRun[HandlerOf[r]] # r
  <2>1. TracingInv'
    BY <1>2, TracingKept DEF ChainStop
  <2>2. LangChainInv'
    BY <1>2, RunsOK DEF ChainStop, LangChainInv, LangChainTypeOK, RootTraced
  <2> QED
    BY <2>1, <2>2
<1>3. CASE ChainStop(t, r, how) /\ rootRun[HandlerOf[r]] = r
  <2> DEFINE h == HandlerOf[r]
  <2>1. traceId[h] \in Run
    BY <1>3, <1>h DEF LangChainInv, RootTraced, LangChainTypeOK
  <2>2. PICK inline \in BOOLEAN :
           /\ LogFor(t, r, "boundary", Outcome(how), traceId[h], inline)
           /\ IF inline THEN closing' = [closing EXCEPT ![t] = NextId] /\ rootRun' = rootRun
              ELSE rootRun' = [rootRun EXCEPT ![h] = NoRun] /\ closing' = closing
           /\ UNCHANGED <<traceId, starts>>
    BY <1>3 DEF ChainStop, LogBoundary
  <2>3. "boundary" \in Stage /\ Outcome(how) \in {"ok", "error"}
    BY DEF Stage, Outcome
  <2>4. TracingInv'
    BY <2>1, <2>2, <2>3, LogForOK
  <2>5. NextId \in Id
    <3>1. Len(ev) < MaxEvents /\ Len(ev) \in Nat
      BY <2>2 DEF LogFor, TracingInv
    <3> QED
      BY <3>1, BoundAssumption DEF NextId, Id
  <2>6. rootRun' \in [Handler -> Run \cup {NoRun}] /\ closing' \in [Task -> Id \cup {None}]
    BY <2>2, <2>5 DEF LangChainInv, LangChainTypeOK
  <2>7. LangChainTypeOK'
    BY <1>3, <2>2, <2>6, RunsOK DEF ChainStop, LangChainInv, LangChainTypeOK
  <2>8. RootTraced'
    BY <2>2, <1>h DEF LangChainInv, LangChainTypeOK, RootTraced
  <2> QED
    BY <2>4, <2>7, <2>8 DEF LangChainInv
<1> QED
  BY <1>1, <1>2, <1>3

(* Retrievers and models give the handler a trace if it has none           *)
(* (langchain.py:127-223).                                                 *)
LEMMA PartsOK ==
  ASSUME TracingInv, LangChainInv, NEW t \in Task, NEW r \in Run, NEW how \in {"ended", "failed"},
         \/ RetrieverStart(t, r) \/ RetrieverEnd(t, r) \/ RetrieverError(t, r)
         \/ LlmStart(t, r) \/ LlmStop(t, r, how)
  PROVE  TracingInv' /\ LangChainInv'
<1> DEFINE h == HandlerOf[r]
           id == EnsureTrace(h, r)
<1>h. h \in Handler /\ id \in Run /\ NoRun \notin Run
  BY RunData, RunsApart, TraceMade DEF LangChainInv
<1>1. CASE RetrieverStart(t, r) \/ RetrieverError(t, r)
  <2>1. TracingInv'
    BY <1>1, TracingKept DEF RetrieverStart, RetrieverError
  <2>2. starts' \in [Handler -> SUBSET Run]
    BY <1>1 DEF RetrieverStart, RetrieverError, LangChainInv, LangChainTypeOK
  <2>3. state' \in [Run -> {"new", "open", "ended", "failed"}] /\ runner' \in [Run -> Task]
    BY <1>1, RunsOK DEF RetrieverStart, RetrieverError, LangChainInv
  <2>4. LangChainInv'
    BY <1>1, <2>2, <2>3
    DEF RetrieverStart, RetrieverError, LangChainInv, LangChainTypeOK, RootTraced
  <2> QED
    BY <2>1, <2>4
<1>2. CASE RetrieverEnd(t, r) \/ LlmStart(t, r) \/ LlmStop(t, r, how)
  <2>1. PICK stage \in Stage, status \in {"ok", "error"}, inline \in BOOLEAN :
          LogFor(t, r, stage, status, id, inline)
    BY <1>2 DEF RetrieverEnd, LlmStart, LlmStop, Stage, Outcome
  <2>2. TracingInv'
    BY <2>1, <1>h, LogForOK
  <2>3. /\ traceId' = [traceId EXCEPT ![h] = id]
        /\ starts' \in {[starts EXCEPT ![h] = @ \ {r}], [starts EXCEPT ![h] = @ \cup {r}]}
        /\ UNCHANGED <<rootRun, closing>>
    BY <1>2 DEF RetrieverEnd, LlmStart, LlmStop
  <2>4. state' \in [Run -> {"new", "open", "ended", "failed"}] /\ runner' \in [Run -> Task]
    BY <1>2, RunsOK DEF RetrieverEnd, LlmStart, LlmStop, LangChainInv
  <2> HIDE DEF id
  <2>5. starts' \in [Handler -> SUBSET Run] /\ traceId' \in [Handler -> Run \cup {NoRun}]
    BY <2>3, <1>h DEF LangChainInv, LangChainTypeOK
  <2>6. LangChainInv'
    BY <2>3, <2>4, <2>5, <1>h DEF LangChainInv, LangChainTypeOK, RootTraced
  <2> QED
    BY <2>2, <2>6
<1> QED
  BY <1>1, <1>2

(* Whatever the handler does (langchain.py:92-223, 296-310). *)
LEMMA LangChainOK ==
  ASSUME TracingInv, LangChainInv, NEW t \in Task, LangChainStep(t)
  PROVE  TracingInv' /\ LangChainInv'
<1>1. ASSUME NEW r \in Run, Callback(t, r) PROVE TracingInv' /\ LangChainInv'
  <2>1. "ended" \in {"ended", "failed"}
    OBVIOUS
  <2> QED
    BY <1>1, <2>1, ChainsOK, PartsOK DEF Callback
<1>2. ASSUME NEW r \in Run, Compress(t, r) PROVE TracingInv' /\ LangChainInv'
  <2>1. TracingInv'
    BY <1>2, LogStageOK DEF Compress
  <2> QED
    BY <1>2, <2>1 DEF Compress, lcvars, LangChainInv, LangChainTypeOK, RootTraced
<1>3. CASE ChainClosed(t)
  <2>1. TracingInv'
    BY <1>3, TracingKept DEF ChainClosed
  <2>2. PICK h : rootRun' \in {rootRun, [rootRun EXCEPT ![h] = NoRun]}
    BY <1>3 DEF ChainClosed
  <2>3. closing' \in [Task -> Id \cup {None}] /\ UNCHANGED <<state, runner, traceId, starts>>
    BY <1>3 DEF ChainClosed, LangChainInv, LangChainTypeOK
  <2>4. LangChainInv'
    BY <2>2, <2>3 DEF LangChainInv, LangChainTypeOK, RootTraced
  <2> QED
    BY <2>1, <2>4
<1> QED
  BY <1>1, <1>2, <1>3 DEF LangChainStep

------------------------------------------------------------------------------
(* The LlamaIndex handler. *)

State == [trace : Turn \cup Id \cup {None}, gen_logged : BOOLEAN, deltas : BOOLEAN]
USE DEF State

(* The handler finishes with its state typed (llamaindex.py:196-230, 311, 326). *)
LEMMA FinishedTyped ==
  ASSUME NEW s \in State,
         NEW what \in Rest
  PROVE  Finished(s, what) \in State
<1>1. CASE what = "query over"
  BY <1>1 DEF Finished
<1>2. CASE what = "chat over"
  BY <1>2 DEF Finished
<1>3. CASE what = "generated"
  BY <1>3 DEF Finished
<1>4. CASE what \notin {"query over", "chat over", "generated"}
  BY <1>4 DEF Finished
<1> QED
  BY <1>1, <1>2, <1>3, <1>4

(* The id of the next event, and the trace it is in (llamaindex.py:175-179). *)
LEMMA NextTyped ==
  ASSUME TracingInv, LlamaIndexTypeOK, Len(ev) < MaxInTurns
  PROVE  /\ Len(ev) \in Nat /\ Len(ev) < MaxEvents /\ NextId = Len(ev) + 1 /\ NextId \in Id
         /\ TraceNow \in Turn \cup Id
         /\ [st EXCEPT !.trace = TraceNow] \in State
<1>1. Len(ev) \in Nat
  BY DEF TracingInv
<1>2. Len(ev) < MaxEvents /\ NextId = Len(ev) + 1 /\ NextId \in Id
  BY <1>1, TurnBound, BoundAssumption DEF NextId, Id
<1>3. TraceNow \in Turn \cup Id
  BY <1>2 DEF TraceNow, LlamaIndexTypeOK
<1> QED
  BY <1>1, <1>2, <1>3 DEF LlamaIndexTypeOK

(* One event is logged in the trace of the state (llamaindex.py:197-326). *)
LEMMA LogInTurnOK ==
  ASSUME TracingInv, LlamaIndexTypeOK, NEW t \in Task, NEW by \in Turn \cup {"ingest"},
         NEW stage \in Stage, NEW what \in Rest, LogInTurn(t, by, stage, what)
  PROVE  /\ TracingInv'
         /\ st' \in State
         /\ rest' \in [Task -> [after : Id \cup {None}, what : Rest]]
<1> DEFINE s == [st EXCEPT !.trace = TraceNow]
<1>1. Len(ev) < MaxInTurns
  BY DEF LogInTurn
<1>2. /\ Len(ev) < MaxEvents /\ NextId \in Id /\ TraceNow \in Turn \cup Id
      /\ s \in State
  BY <1>1, NextTyped
<1>3. TracingInv'
  <2>1. /\ ev' = Append(ev, [trace |-> TraceNow, parent |-> None, by |-> by,
                             stage |-> stage, status |-> "ok"])
        /\ Submit(t, NextId, TRUE) /\ UNCHANGED <<Context, raising>>
    BY DEF LogInTurn
  <2>2. "ok" \in {"ok", "error"}
    OBVIOUS
  <2> QED
    BY <1>2, <2>1, <2>2, AdapterLogs
<1>4. CASE t \in OnLoop
  <2>1. st' = Finished(s, what) /\ rest' = rest
    BY <1>4 DEF LogInTurn
  <2> QED
    BY <1>2, <1>3, <2>1, FinishedTyped DEF LlamaIndexTypeOK
<1>5. CASE t \notin OnLoop
  <2>1. st' = s /\ rest' = [rest EXCEPT ![t] = [after |-> NextId, what |-> what]]
    BY <1>5 DEF LogInTurn
  <2>2. [after |-> NextId, what |-> what] \in [after : Id \cup {None}, what : Rest]
    BY <1>2
  <2> QED
    BY <1>2, <1>3, <2>1, <2>2 DEF LlamaIndexTypeOK
<1> QED
  BY <1>4, <1>5

(* Embeddings and chunks are logged outside of turns                       *)
(* (llamaindex.py:256-275).                                                *)
LEMMA IngestOK ==
  ASSUME TracingInv, LlamaIndexTypeOK, NEW t \in Task, IngestEnd(t) \/ IngestRest(t)
  PROVE  TracingInv' /\ LlamaIndexTypeOK'
<1>1. "embedding" \in Stage /\ "chunking" \in Stage /\ "chunking" \in Rest /\ "ok" \in {"ok", "error"}
  BY DEF Stage, Rest
<1>2. CASE IngestEnd(t) /\ t \in OnLoop
  <2> DEFINE a == IngestEvent("embedding")
             b == IngestEvent("chunking")
  <2>0. Len(ev) \in Nat /\ NextId < MaxInTurns
    BY <1>2 DEF TracingInv, IngestEnd
  <2>1. Len(ev) < MaxInTurns
    BY <2>0, TurnBound DEF NextId
  <2>2. /\ NextId = Len(ev) + 1 /\ NextId \in Id /\ TraceNow \in Turn \cup Id
        /\ [st EXCEPT !.trace = TraceNow] \in State
    BY <2>1, NextTyped
  <2>3. /\ a \in Record /\ a.parent = None /\ a.status # "open" /\ a.by \notin Task
        /\ b \in Record /\ b.parent = None /\ b.status # "open" /\ b.by \notin Task
    BY <1>1, <2>2, MakersApart DEF IngestEvent, Record, Maker
  <2>4. /\ ev' = ev \o <<a, b>> /\ UNCHANGED <<Context, raising, waits, quiet, ledger, lost, rest>>
        /\ pending' = pending \cup {NextId, NextId + 1}
        /\ st' = [st EXCEPT !.trace = TraceNow]
        /\ UNCHANGED <<turn, taker, mixed, streamed>>
    BY <1>2 DEF IngestEnd, Call
  <2> HIDE DEF a, b
  <2>5. /\ ev' \in Seq(Record) /\ Len(ev') = Len(ev) + 2
        /\ \A i \in DOMAIN ev : ev'[i] = ev[i]
        /\ ev'[Len(ev) + 1] = a /\ ev'[Len(ev) + 2] = b
    <3>1. ev \in Seq(Record) /\ <<a, b>> \in Seq(Record)
      BY <2>3 DEF TracingInv
    <3> QED
      BY <2>4, <3>1
  <2>6. (Len(ev) + 1)..Len(ev') = {Len(ev) + 1, Len(ev) + 2} /\ NextId + 1 = Len(ev) + 2
    BY <2>0, <2>2, <2>5
  <2>7. Len(ev) <= Len(ev') /\ Len(ev') <= MaxEvents
    BY <2>0, <2>2, <2>5, TurnBound, BoundAssumption
  <2>8. CallTyped'
    <3>1. CallTyped
      BY TypeParts DEF TracingInv
    <3> QED
      BY <2>4, <3>1 DEF CallTyped
  <2>9. ASSUME NEW i \in (Len(ev) + 1)..Len(ev')
        PROVE  /\ ev'[i].parent \in {None} \cup DOMAIN ev
               /\ ev'[i].status # "open"
               /\ ev'[i].by \notin Task
    BY <2>3, <2>5, <2>6
  <2>10. pending' = pending \cup (Len(ev) + 1)..Len(ev')
    BY <2>2, <2>4, <2>6
  <2>11. TracingInv'
    BY <2>4, <2>5, <2>7, <2>8, <2>9, <2>10, Logged
  <2> QED
    BY <2>2, <2>4, <2>11 DEF LlamaIndexTypeOK
<1>3. CASE IngestEnd(t) /\ t \notin OnLoop
  <2>1. LogInTurn(t, "ingest", "embedding", "chunking") /\ UNCHANGED <<turn, taker, mixed, streamed>>
    BY <1>3 DEF IngestEnd
  <2>2. "ingest" \in Turn \cup {"ingest"}
    OBVIOUS
  <2> QED
    BY <1>1, <2>1, <2>2, LogInTurnOK DEF LlamaIndexTypeOK
<1>4. CASE IngestRest(t)
  <2>1. rest' = [rest EXCEPT ![t] = Nothing] /\ UNCHANGED <<turn, taker, mixed, streamed>>
    BY <1>4 DEF IngestRest
  <2>2. rest' \in [Task -> [after : Id \cup {None}, what : Rest]]
    BY <2>1 DEF LlamaIndexTypeOK, Nothing, Rest
  <2>3. CASE rest[t].after \in lost
    <3>1. TracingInv' /\ st' = st
      BY <1>4, <2>3, TracingKept DEF IngestRest
    <3> QED
      BY <3>1, <2>1, <2>2 DEF LlamaIndexTypeOK
  <2>4. CASE rest[t].after \notin lost
    <3>1. /\ Len(ev) < MaxInTurns
          /\ ev' = Append(ev, [trace |-> TraceNow, parent |-> None, by |-> "ingest",
                               stage |-> "chunking", status |-> "ok"])
          /\ Submit(t, NextId, TRUE) /\ UNCHANGED <<Context, raising>>
          /\ st' = [st EXCEPT !.trace = TraceNow]
      BY <1>4, <2>4 DEF IngestRest, IngestEvent
    <3>2. /\ Len(ev) < MaxEvents /\ TraceNow \in Turn \cup Id
          /\ [st EXCEPT !.trace = TraceNow] \in State
      BY <3>1, NextTyped
    <3>3. TracingInv'
      BY <1>1, <3>1, <3>2, AdapterLogs
    <3> QED
      BY <3>1, <3>2, <3>3, <2>1, <2>2 DEF LlamaIndexTypeOK
  <2> QED
    BY <2>3, <2>4
<1> QED
  BY <1>2, <1>3, <1>4

(* What happens in a turn (llamaindex.py:191-326, 399-420). *)
LEMMA TurnOK ==
  ASSUME TracingInv, LlamaIndexTypeOK, NEW t \in Task, NEW k \in Turn,
         \/ TurnStart(t, k) \/ Delta(t, k) \/ StageEnd(t, k) \/ LlmEnd(t, k)
         \/ QueryEnd(t, k) \/ ChatEnd(t, k) \/ Postprocess(t, k)
  PROVE  TracingInv' /\ LlamaIndexTypeOK'
<1>1. CASE TurnStart(t, k)
  <2>1. TracingInv'
    BY <1>1, TracingKept DEF TurnStart
  <2>2. turn' \in [Turn -> {"new", "open", "done"}] /\ taker' \in [Turn -> Task]
    BY <1>1 DEF TurnStart, Begins, LlamaIndexTypeOK
  <2>3. mixed' \in SUBSET Turn
    BY <1>1 DEF TurnStart, Begins, LlamaIndexTypeOK
  <2>4. st' \in State
    BY <1>1 DEF TurnStart, LlamaIndexTypeOK
  <2> QED
    BY <1>1, <2>1, <2>2, <2>3, <2>4 DEF TurnStart, LlamaIndexTypeOK
<1>2. CASE Delta(t, k)
  <2>1. TracingInv'
    BY <1>2, TracingKept DEF Delta
  <2> QED
    BY <1>2, <2>1 DEF Delta, LlamaIndexTypeOK
<1>3. CASE \/ StageEnd(t, k) \/ LlmEnd(t, k) \/ QueryEnd(t, k)
           \/ ChatEnd(t, k) /\ LogInTurn(t, k, "answer", "chat over")
  <2>1. PICK stage \in Stage, what \in Rest : LogInTurn(t, k, stage, what)
    BY <1>3 DEF StageEnd, LlmEnd, QueryEnd, Stage, Rest
  <2>2. /\ TracingInv'
        /\ st' \in State
        /\ rest' \in [Task -> [after : Id \cup {None}, what : Rest]]
    BY <2>1, LogInTurnOK
  <2>3. /\ turn' \in {turn, [turn EXCEPT ![k] = "done"]}
        /\ UNCHANGED <<taker, mixed, streamed>>
    BY <1>3 DEF StageEnd, LlmEnd, QueryEnd, ChatEnd
  <2> QED
    BY <2>2, <2>3 DEF LlamaIndexTypeOK
<1>4. CASE ChatEnd(t, k) /\ ~LogInTurn(t, k, "answer", "chat over")
  <2>1. UNCHANGED <<tvars, rest>> /\ st' = Finished(st, "chat over")
    BY <1>4 DEF ChatEnd
  <2>2. "chat over" \in Rest /\ st \in State
    BY DEF Rest, LlamaIndexTypeOK
  <2>3. TracingInv'
    BY <2>1, TracingKept
  <2>4. st' \in State
    BY <2>1, <2>2, FinishedTyped
  <2> QED
    BY <1>4, <2>1, <2>3, <2>4 DEF ChatEnd, LlamaIndexTypeOK
<1>5. CASE Postprocess(t, k)
  <2>1. /\ Len(ev) < MaxInTurns
        /\ ev' = Append(ev, [trace |-> TraceNow, parent |-> None, by |-> k,
                             stage |-> "stage", status |-> "ok"])
        /\ Submit(t, NextId, TRUE) /\ UNCHANGED <<Context, raising, livars>>
    BY <1>5 DEF Postprocess
  <2>2. Len(ev) < MaxEvents /\ TraceNow \in Turn \cup Id
    BY <2>1, NextTyped
  <2>3. "stage" \in Stage /\ "ok" \in {"ok", "error"}
    BY DEF Stage
  <2>4. TracingInv'
    BY <2>1, <2>2, <2>3, AdapterLogs
  <2> QED
    BY <2>1, <2>4 DEF livars, LlamaIndexTypeOK
<1> QED
  BY <1>1, <1>2, <1>3, <1>4, <1>5

(* Whatever the handler does (llamaindex.py:188-326). *)
LEMMA LlamaIndexOK ==
  ASSUME TracingInv, LlamaIndexTypeOK, NEW t \in Task, LlamaIndexStep(t)
  PROVE  TracingInv' /\ LlamaIndexTypeOK'
<1>1. ASSUME Resume(t) PROVE TracingInv' /\ LlamaIndexTypeOK'
  <2>1. TracingInv'
    BY <1>1, TracingKept DEF Resume
  <2>2. rest[t].what \in Rest
        /\ st \in State
    BY DEF LlamaIndexTypeOK
  <2>3. st' \in State
    BY <1>1, <2>2, FinishedTyped DEF Resume
  <2>4. rest' \in [Task -> [after : Id \cup {None}, what : Rest]]
    BY <1>1 DEF Resume, LlamaIndexTypeOK, Nothing, Rest
  <2> QED
    BY <1>1, <2>1, <2>3, <2>4 DEF Resume, LlamaIndexTypeOK
<1> QED
  BY <1>1, TurnOK, IngestOK DEF LlamaIndexStep

------------------------------------------------------------------------------
(* The process. *)

(* Before anything is made (tracing.py:15-17, client.py:20-26). *)
LEMMA InitOK == Init => IInv
<1> SUFFICES ASSUME Init PROVE IInv
  OBVIOUS
<1> USE DEF Init, TracingInit, LangChainInit, LlamaIndexInit
<1>1. TracingInv
  <2>1. CallTyped
    BY DEF CallTyped
  <2>2. ContextTyped
    BY TaskAssumption DEF ContextTyped, Cell
  <2>3. EventsTyped
    BY BoundAssumption DEF EventsTyped
  <2>4. WritesTyped
    BY DEF WritesTyped
  <2>5. HandedOver /\ InParentsTrace
    BY DEF HandedOver, InParentsTrace, Stored
  <2>6. BlocksNest
    <3>1. Len(ev) = 0 /\ \A t \in Task : DOMAIN blocks[t] = {}
      OBVIOUS
    <3>2. \A t \in Task : current[t] = 0 /\ inherited[t] = 0 /\ blocks[t] = <<>>
      BY DEF None
    <3>3. ASSUME NEW t \in Task PROVE current[t] <= Len(ev) /\ inherited[t] <= Len(ev)
      BY <3>1, <3>2
    <3> HIDE DEF Init, TracingInit, LangChainInit, LlamaIndexInit
    <3> QED
      BY <3>1, <3>2, <3>3 DEF BlocksNest
  <2> QED
    BY <2>1, <2>2, <2>3, <2>4, <2>5, <2>6, TypeParts DEF TracingInv
<1>2. LangChainTypeOK /\ RootTraced
  BY TaskAssumption DEF LangChainTypeOK, RootTraced
<1>3. LlamaIndexTypeOK
  BY TaskAssumption DEF LlamaIndexTypeOK, Nothing, Rest
<1> QED
  BY <1>1, <1>2, <1>3 DEF IInv

(* What the adapters keep stays typed while they are left alone. *)
LEMMA AdaptersKept ==
  /\ LangChainInv /\ UNCHANGED lcvars => LangChainInv'
  /\ LlamaIndexTypeOK /\ UNCHANGED livars => LlamaIndexTypeOK'
BY DEF LangChainInv, LangChainTypeOK, RootTraced, LlamaIndexTypeOK, lcvars, livars

(* Every step keeps the invariant, whichever way the process is            *)
(* instrumented (tracing.py, langchain.py, llamaindex.py, client.py).      *)
LEMMA StepOK == IInv /\ [Next]_vars => IInv'
<1> SUFFICES ASSUME IInv, [Next]_vars PROVE IInv'
  OBVIOUS
<1>i. /\ TracingInv /\ LangChainInv /\ LlamaIndexTypeOK
      /\ way \in {"manual", "langchain", "llamaindex"}
  BY DEF IInv, LangChainInv
<1>w. way' = way
  BY DEF Next, vars
<1>1. CASE Store
  <2>1. TracingInv'
    BY <1>i, <1>1, StoreOK DEF Store
  <2> QED
    BY <1>i, <1>w, <1>1, <2>1, AdaptersKept DEF Store, IInv, LangChainInv
<1>2. ASSUME NEW t \in Task, Manual(t) PROVE IInv'
  <2>1. TRUE \in BOOLEAN /\ FALSE \in BOOLEAN
    OBVIOUS
  <2>2. TracingInv'
    BY <1>i, <1>2, <2>1, EnterOK, ExitOK, LogStageOK, CallsOK, SpawnOK DEF Manual, TaskStep
  <2> QED
    BY <1>i, <1>w, <1>2, <2>2, AdaptersKept DEF Manual, IInv, LangChainInv
<1>3. ASSUME NEW t \in Task, Program(t) PROVE IInv'
  <2>1. TracingInv'
    BY <1>i, <1>3, SpawnOK DEF Program
  <2> QED
    BY <1>i, <1>w, <1>3, <2>1, AdaptersKept DEF Program, IInv, LangChainInv
<1>4. ASSUME NEW t \in Task, LangChainStep(t), UNCHANGED livars PROVE IInv'
  <2>1. TracingInv' /\ LangChainInv'
    BY <1>i, <1>4, LangChainOK
  <2> QED
    BY <1>i, <1>w, <1>4, <2>1, AdaptersKept DEF IInv, LangChainInv
<1>5. ASSUME NEW t \in Task, LlamaIndexStep(t), UNCHANGED lcvars PROVE IInv'
  <2>1. TracingInv' /\ LlamaIndexTypeOK'
    BY <1>i, <1>5, LlamaIndexOK
  <2> QED
    BY <1>i, <1>w, <1>5, <2>1, AdaptersKept DEF IInv, LangChainInv
<1>6. CASE UNCHANGED vars
  <2>1. TracingInv'
    BY <1>i, <1>6, TracingKept DEF vars
  <2> QED
    BY <1>i, <1>w, <1>6, <2>1, AdaptersKept DEF vars, IInv, LangChainInv
<1> QED
  BY <1>1, <1>2, <1>3, <1>4, <1>5, <1>6 DEF Next, LangChain, LlamaIndex

(* The invariant holds in every state. *)
THEOREM InstrumentedInductive == Spec => []IInv
<1> QED
  BY InitOK, StepOK, PTL DEF Spec

(* The values the process keeps are the ones it can keep. *)
THEOREM InstrumentedTypes == Spec => []TypeOK
<1>1. IInv => TypeOK
  <2> SUFFICES ASSUME IInv PROVE TypeOK
    OBVIOUS
  <2>1. ASSUME NEW i \in DOMAIN ev
        PROVE  /\ ev[i].trace \in Id \cup Run \cup Turn
               /\ ev[i].by \in Task \cup Run \cup Turn \cup {"ingest"}
    <3>1. ev[i] \in Record
      BY <2>1 DEF IInv, TracingInv
    <3> QED
      BY <3>1 DEF Record, Maker
  <2> QED
    BY <2>1 DEF IInv, TracingInv, TypeOK
<1> QED
  BY <1>1, InstrumentedInductive, PTL

(* Every event that was made is in the hands of one: of its block, which   *)
(* is open, of the client, of the store, or it was lost; a block that an   *)
(* exception leaves hands its event over too (tracing.py:55-62, 116-132,   *)
(* client.py:28-36).                                                       *)
THEOREM EveryEventHandedOver == Spec => []HandedOver
<1>1. IInv => HandedOver
  BY DEF IInv, TracingInv
<1> QED
  BY <1>1, InstrumentedInductive, PTL

(* The current span of a task is its innermost open block, which it opened *)
(* itself, whatever exceptions and other tasks do (tracing.py:50-62,       *)
(* 71-77).                                                                 *)
THEOREM CurrentInnermost == Spec => []CurrentIsInnermost
<1>1. IInv => CurrentIsInnermost
  <2> SUFFICES ASSUME IInv, NEW t \in running
               PROVE  /\ current[t] = IF blocks[t] = <<>> THEN inherited[t]
                                      ELSE cell[Innermost(t)].span
                      /\ \A k \in DOMAIN blocks[t] :
                           /\ ev[cell[blocks[t][k]].span].by = t
                           /\ ev[cell[blocks[t][k]].span].status = "open"
                           /\ cell[blocks[t][k]].token =
                                IF k = 1 THEN inherited[t] ELSE cell[blocks[t][k - 1]].span
    BY DEF CurrentIsInnermost
  <2>1. t \in Task /\ blocks[t] \in Seq(Id)
    BY TypeParts DEF IInv, TracingInv, ContextTyped
  <2>2. /\ current[t] = IF blocks[t] = <<>> THEN inherited[t] ELSE Innermost(t)
        /\ \A k \in DOMAIN blocks[t] :
             /\ ev[blocks[t][k]].by = t /\ ev[blocks[t][k]].status = "open"
             /\ cell[blocks[t][k]].span = blocks[t][k]
             /\ cell[blocks[t][k]].token = IF k = 1 THEN inherited[t] ELSE blocks[t][k - 1]
    BY <2>1 DEF IInv, TracingInv, BlocksNest
  <2>3. \A k \in DOMAIN blocks[t] : k # 1 => k - 1 \in DOMAIN blocks[t]
    BY <2>1
  <2>4. blocks[t] # <<>> => cell[Innermost(t)].span = Innermost(t)
    <3>1. blocks[t] # <<>> => Len(blocks[t]) \in DOMAIN blocks[t]
      BY <2>1
    <3> QED
      BY <2>2, <3>1 DEF Innermost
  <2> QED
    BY <2>2, <2>3, <2>4
<1> QED
  BY <1>1, InstrumentedInductive, PTL

(* The events of a trace form one tree, and the parent of a stored event   *)
(* is not forgotten (tracing.py:25-36, 55-62, 116-132).                    *)
THEOREM TracesTrees == Spec => []TracesAreTrees
<1>1. IInv => TracesAreTrees
  <2> SUFFICES ASSUME IInv PROVE TracesAreTrees
    OBVIOUS
  <2>1. EventsTyped /\ WritesTyped /\ Stored \subseteq DOMAIN ev /\ DOMAIN ev = 1..Len(ev)
        /\ Len(ev) \in Nat
    BY TypeParts, StoredTyped DEF IInv, TracingInv, EventsTyped
  <2>2. ASSUME NEW i \in Stored, ev[i].parent # None
        PROVE  \/ ev[i].parent \in Stored \cup pending \cup lost
               \/ ev[ev[i].parent].status = "open"
    <3>1. i \in DOMAIN ev /\ ev[i].parent \in DOMAIN ev
      BY <2>1, <2>2 DEF EventsTyped
    <3> QED
      BY <3>1 DEF IInv, TracingInv, HandedOver
  <2> QED
    BY <2>2 DEF IInv, TracingInv, InParentsTrace, TracesAreTrees
<1> QED
  BY <1>1, InstrumentedInductive, PTL

------------------------------------------------------------------------------
(* LocalClient implements EventDelivery. *)

(* What the client is handed was never handed to it before.                *)
LEMMA LogsNew ==
  ASSUME TracingInv, NEW B \in SUBSET Id, pending' = pending \cup B, UNCHANGED <<ledger, lost>>,
         \A i \in B : i \in DOMAIN ev => ev[i].status = "open"
  PROVE  Delivery!DNext
<1>1. WritesTyped /\ Stored \subseteq DOMAIN ev
  BY TypeParts, StoredTyped DEF TracingInv
<1>2. B \cap (pending \cup lost \cup Stored) = {}
  BY <1>1 DEF TracingInv, HandedOver, WritesTyped
<1>3. Delivery!Log(B)
  BY <1>2 DEF Delivery!Log, Delivery!Delivered, Stored
<1> QED
  BY <1>3 DEF Delivery!DNext

(* One event is handed to the client. *)
LEMMA SubmitsNew ==
  ASSUME TracingInv, NEW t \in Task, NEW i \in Id, NEW q \in BOOLEAN,
         Submit(t, i, q) \/ SubmitInline(t, i, q),
         i \in DOMAIN ev => ev[i].status = "open"
  PROVE  Delivery!DNext
<1>1. pending' = pending \cup {i} /\ UNCHANGED <<ledger, lost>>
  BY DEF Submit, SubmitInline
<1>2. {i} \in SUBSET Id /\ \A j \in {i} : j \in DOMAIN ev => ev[j].status = "open"
  OBVIOUS
<1> QED
  BY <1>1, <1>2, LogsNew

(* The next event is new. *)
LEMMA NextNew ==
  ASSUME TracingInv, Len(ev) < MaxEvents
  PROVE  NextId \in Id /\ NextId \notin DOMAIN ev
<1>1. ev \in Seq(Record) /\ Len(ev) \in Nat /\ DOMAIN ev = 1..Len(ev)
  <2>1. ev \in Seq(Record)
    BY DEF TracingInv
  <2> QED
    BY <2>1
<1> QED
  BY <1>1, BoundAssumption DEF NextId, Id

(* A task that logs hands over what is new (tracing.py, client.py:28-36). *)
LEMMA TaskDelivers ==
  ASSUME TracingInv, NEW t \in Task, TaskStep(t)
  PROVE  Delivery!DNext \/ UNCHANGED Delivery!dvars
<1>n. Len(ev) < MaxManual => NextId \in Id /\ NextId \notin DOMAIN ev
  <2>1. Len(ev) \in Nat /\ (Len(ev) < MaxManual => Len(ev) < MaxEvents)
    BY BoundAssumption DEF TracingInv
  <2> QED
    BY <2>1, NextNew
<1>1. CASE Exit(t)
  <2> DEFINE b == Innermost(t)
  <2>1. blocks[t] \in Seq(Id) /\ blocks[t] # <<>>
    BY <1>1, TypeParts DEF TracingInv, ContextTyped, Exit
  <2>2. Len(blocks[t]) \in DOMAIN blocks[t] /\ b = blocks[t][Len(blocks[t])] /\ b \in Id
    BY <2>1 DEF Innermost
  <2> HIDE DEF b
  <2>3. cell[b].span = b /\ ev[b].status = "open"
    BY <2>2 DEF TracingInv, BlocksNest
  <2>4. Submit(t, b, FALSE)
    BY <1>1, <2>3 DEF Exit, b
  <2> QED
    BY <2>2, <2>3, <2>4, SubmitsNew
<1>2. ASSUME NEW q \in BOOLEAN, LogStage(t, q) PROVE Delivery!DNext
  <2>1. Submit(t, NextId, q) /\ Len(ev) < MaxManual
    BY <1>2 DEF LogStage
  <2> QED
    BY <2>1, <1>n, SubmitsNew
<1>3. CASE \/ Enter(t) \/ LogGroundTruth(t) \/ Raise(t) \/ Catch(t) \/ (\E u \in Task : Spawn(t, u))
           \/ (VectorQuery(t) /\ ~LogStage(t, TRUE))
  BY <1>3 DEF Enter, LogGroundTruth, Raise, Catch, Spawn, VectorQuery, LogHits, Writes, Delivery!dvars
<1>4. TRUE \in BOOLEAN /\ FALSE \in BOOLEAN
  OBVIOUS
<1> QED
  BY <1>1, <1>2, <1>3, <1>4 DEF TaskStep

(* The LangChain handler hands over what is new (langchain.py:92-223). *)
LEMMA LangChainDelivers ==
  ASSUME TracingInv, NEW t \in Task, LangChainStep(t)
  PROVE  Delivery!DNext \/ UNCHANGED Delivery!dvars
<1>1. ASSUME UNCHANGED tvars PROVE UNCHANGED Delivery!dvars
  BY <1>1 DEF tvars, Delivery!dvars
<1>2. ASSUME NEW r, NEW stage, NEW status, NEW trace, NEW inline,
             LogFor(t, r, stage, status, trace, inline)
      PROVE  Delivery!DNext
  <2>1. NextId \in Id /\ NextId \notin DOMAIN ev
    BY <1>2, NextNew DEF LogFor
  <2>2. Submit(t, NextId, TRUE) \/ SubmitInline(t, NextId, TRUE)
    BY <1>2 DEF LogFor
  <2> QED
    BY <2>1, <2>2, SubmitsNew
<1>3. ASSUME NEW r \in Run, NEW how, ChainStop(t, r, how)
      PROVE  Delivery!DNext \/ UNCHANGED Delivery!dvars
  BY <1>1, <1>2, <1>3 DEF ChainStop, LogBoundary
<1>4. ASSUME NEW r \in Run, NEW how, RetrieverEnd(t, r) \/ LlmStart(t, r) \/ LlmStop(t, r, how)
      PROVE  Delivery!DNext
  BY <1>2, <1>4 DEF RetrieverEnd, LlmStart, LlmStop
<1>5. ASSUME NEW r \in Run, ChainStart(t, r) \/ RetrieverStart(t, r) \/ RetrieverError(t, r)
      PROVE  UNCHANGED Delivery!dvars
  BY <1>1, <1>5 DEF ChainStart, RetrieverStart, RetrieverError
<1>6. ASSUME NEW r \in Run, Compress(t, r) PROVE Delivery!DNext \/ UNCHANGED Delivery!dvars
  BY <1>6, TaskDelivers DEF Compress, TaskStep
<1>7. ASSUME ChainClosed(t) PROVE UNCHANGED Delivery!dvars
  BY <1>1, <1>7 DEF ChainClosed
<1> QED
  BY <1>3, <1>4, <1>5, <1>6, <1>7 DEF LangChainStep, Callback

(* The LlamaIndex handler does, too (llamaindex.py:188-326). *)
LEMMA LlamaIndexDelivers ==
  ASSUME TracingInv, NEW t \in Task, LlamaIndexStep(t)
  PROVE  Delivery!DNext \/ UNCHANGED Delivery!dvars
<1>1. ASSUME UNCHANGED tvars PROVE UNCHANGED Delivery!dvars
  BY <1>1 DEF tvars, Delivery!dvars
<1>2. ASSUME Len(ev) < MaxInTurns, Submit(t, NextId, TRUE) PROVE Delivery!DNext
  <2>1. Len(ev) < MaxEvents
    BY <1>2, TurnBound, BoundAssumption DEF TracingInv
  <2> QED
    BY <1>2, <2>1, NextNew, SubmitsNew
<1>3. ASSUME NEW by, NEW stage, NEW what, LogInTurn(t, by, stage, what) PROVE Delivery!DNext
  BY <1>2, <1>3 DEF LogInTurn
<1>4. ASSUME IngestEnd(t), t \in OnLoop PROVE Delivery!DNext
  <2> DEFINE B == {NextId, NextId + 1}
  <2>1. ev \in Seq(Record) /\ NextId < MaxInTurns
    BY <1>4 DEF TracingInv, IngestEnd
  <2>2. Len(ev) \in Nat /\ DOMAIN ev = 1..Len(ev)
    BY <2>1
  <2>3. B \in SUBSET Id /\ B \cap DOMAIN ev = {}
    BY <2>1, <2>2, TurnBound, BoundAssumption DEF NextId, Id
  <2>4. pending' = pending \cup B /\ UNCHANGED <<ledger, lost>>
    BY <1>4 DEF IngestEnd
  <2> HIDE DEF B
  <2> QED
    BY <2>3, <2>4, LogsNew
<1>5. ASSUME IngestEnd(t), t \notin OnLoop PROVE Delivery!DNext
  BY <1>3, <1>5 DEF IngestEnd
<1>6. ASSUME IngestRest(t) PROVE Delivery!DNext \/ UNCHANGED Delivery!dvars
  BY <1>1, <1>2, <1>6 DEF IngestRest
<1>7. ASSUME Resume(t) PROVE UNCHANGED Delivery!dvars
  BY <1>1, <1>7 DEF Resume
<1>8. ASSUME NEW k \in Turn, TurnStart(t, k) \/ Delta(t, k) PROVE UNCHANGED Delivery!dvars
  BY <1>1, <1>8 DEF TurnStart, Delta
<1>9. ASSUME NEW k \in Turn,
             StageEnd(t, k) \/ LlmEnd(t, k) \/ QueryEnd(t, k) \/ ChatEnd(t, k) \/ Postprocess(t, k)
      PROVE  Delivery!DNext \/ UNCHANGED Delivery!dvars
  BY <1>1, <1>2, <1>3, <1>9 DEF StageEnd, LlmEnd, QueryEnd, ChatEnd, Postprocess
<1> QED
  BY <1>4, <1>5, <1>6, <1>7, <1>8, <1>9 DEF LlamaIndexStep

(* Every step is one of EventDelivery or changes nothing that it sees      *)
(* (client.py:28-36).                                                      *)
LEMMA DeliverySteps == IInv /\ [Next]_vars => [Delivery!DNext]_(Delivery!dvars)
<1> SUFFICES ASSUME IInv, [Next]_vars PROVE Delivery!DNext \/ UNCHANGED Delivery!dvars
  OBVIOUS
<1>i. TracingInv /\ WritesTyped
  BY TypeParts DEF IInv, TracingInv
<1>1. ASSUME NEW i \in Id, StoreStep(i) PROVE Delivery!DNext
  <2>1. {i} \in SUBSET Id /\ i \in pending
    BY <1>1 DEF StoreStep, Write, WriteFails
  <2>2. CASE Write(i)
    <3>1. Delivery!Deliver({i})
      BY <2>1, <2>2 DEF Write, Delivery!Deliver
    <3> QED
      BY <2>1, <3>1 DEF Delivery!DNext
  <2>3. CASE WriteFails(i)
    <3>1. Delivery!Lose({i})
      BY <2>1, <2>3 DEF WriteFails, Delivery!Lose
    <3> QED
      BY <2>1, <3>1 DEF Delivery!DNext
  <2> QED
    BY <1>1, <2>2, <2>3 DEF StoreStep
<1>2. ASSUME NEW t \in Task, TaskStep(t) PROVE Delivery!DNext \/ UNCHANGED Delivery!dvars
  BY <1>i, <1>2, TaskDelivers
<1>3. ASSUME NEW t \in Task, Program(t) PROVE Delivery!DNext \/ UNCHANGED Delivery!dvars
  BY <1>2, <1>3 DEF Program, TaskStep
<1>4. ASSUME NEW t \in Task, LangChainStep(t) PROVE Delivery!DNext \/ UNCHANGED Delivery!dvars
  BY <1>i, <1>4, LangChainDelivers
<1>5. ASSUME NEW t \in Task, LlamaIndexStep(t) PROVE Delivery!DNext \/ UNCHANGED Delivery!dvars
  BY <1>i, <1>5, LlamaIndexDelivers
<1>6. CASE UNCHANGED vars
  BY <1>6 DEF vars, tvars, Delivery!dvars
<1> QED
  BY <1>1, <1>2, <1>3, <1>4, <1>5, <1>6 DEF Next, Store, Manual, LangChain, LlamaIndex

(* LocalClient takes every event once and drops or stores it, whoever made *)
(* it and whatever the store raises (client.py:28-36, EventDelivery).      *)
THEOREM LocalClientDelivers == Spec => LocalDelivers
<1>1. Init => Delivery!DInit
  BY DEF Init, TracingInit, Delivery!DInit
<1> QED
  BY InstrumentedInductive, DeliverySteps, <1>1, PTL DEF Spec, LocalDelivers, Delivery!DSpec

------------------------------------------------------------------------------
(* The LangChain and the LlamaIndex handlers, for any number of runs and    *)
(* turns, over that invariant.                                              *)

(* Who makes events is who the program picked to make them. *)
WaysApart ==
  /\ way # "langchain" => \A i \in DOMAIN ev : ~FromRun(i)
  /\ way # "llamaindex" => \A i \in DOMAIN ev : ev[i].by \notin Turn /\ ev[i].trace \notin Turn

------------------------------------------------------------------------------
(* LangChain. *)

Over(r) == state[r] \in {"ended", "failed"}

Boundary(i, r) == ev[i].by = r /\ ev[i].stage = "boundary"

(* A run that started is in a query that did, whose handler it has. *)
QueriesStarted ==
  \A r \in Run : state[r] # "new" =>
    LET q == QueryOf[r]
    IN  q \in Run /\ state[q] # "new" /\ ParentOf[q] = NoRun /\ HandlerOf[q] = HandlerOf[r]

(* What a handler has comes from runs that it was called for; a chain that *)
(* is a query is the root run until it ends.                               *)
HandlersOwn ==
  /\ \A h \in Handler : rootRun[h] # NoRun =>
       /\ KindOf[rootRun[h]] = "chain" /\ ParentOf[rootRun[h]] = NoRun
       /\ HandlerOf[rootRun[h]] = h /\ state[rootRun[h]] # "new"
  /\ \A h \in Handler : traceId[h] # NoRun =>
       HandlerOf[traceId[h]] = h /\ state[traceId[h]] # "new"
  /\ \A r \in Run : KindOf[r] = "chain" /\ QueryOf[r] = r /\ state[r] = "open"
       => rootRun[HandlerOf[r]] = r

(* The events of a handler are in its trace, which it never changes. *)
HandlersTrace ==
  \A i \in DOMAIN ev : FromRun(i) =>
    /\ state[ev[i].by] # "new" /\ ev[i].status # "open"
    /\ ev[i].trace = traceId[HandlerOf[ev[i].by]] /\ ev[i].trace # NoRun

Boundaries ==
  /\ \A i \in DOMAIN ev, r \in Run : Boundary(i, r) =>
       /\ KindOf[r] = "chain" /\ QueryOf[r] = r /\ Over(r)
       /\ ev[i].status = Outcome(state[r])
  /\ \A i, j \in DOMAIN ev, r \in Run : Boundary(i, r) /\ Boundary(j, r) => i = j
  /\ \A r \in Run : KindOf[r] = "chain" /\ QueryOf[r] = r /\ Over(r)
       => \E i \in DOMAIN ev : Boundary(i, r)
  /\ \A t \in Task : closing[t] # None =>
       /\ closing[t] \in DOMAIN ev /\ ev[closing[t]].by \in Run
       /\ ev[closing[t]].stage = "boundary"

QInv == QueriesStarted /\ HandlersOwn /\ HandlersTrace /\ Boundaries

------------------------------------------------------------------------------
(* LlamaIndex. *)

Alone(k) == k \in Turn \ mixed

(* While a turn that is alone is open, _state is its own: nobody is about  *)
(* to reset it, and gen_logged says whether a generation of the turn was   *)
(* logged, once the call that logged it is over.                           *)
StateIsOwn ==
  \A k \in Turn : Alone(k) /\ turn[k] = "open" =>
    /\ \A l \in Turn : turn[l] = "open" => l = k
    /\ st.trace = k
    /\ \A u \in Task : rest[u].what \notin {"query over", "chat over"}
    /\ \A u \in Task : rest[u].what = "generated" =>
         u = taker[k] /\ rest[u].after \in OfTurn(k, {"generation"})
    /\ st.gen_logged => OfTurn(k, {"generation"}) # {}
    /\ ~st.gen_logged => \A i \in OfTurn(k, {"generation"}) :
         i \in lost \/ \E u \in Task : rest[u] = [after |-> i, what |-> "generated"]
    /\ k \in streamed => st.deltas

(* The trace of a turn that is alone is nobody else's. *)
TraceIsOwn ==
  /\ \A k \in Turn : Alone(k) /\ st.trace = k => \A l \in Turn : turn[l] = "open" => l = k
  /\ \A k \in Turn, i \in DOMAIN ev : ev[i].by = k => turn[k] # "new"
  /\ TurnsKeepApart

Answers ==
  /\ \A k \in Turn : turn[k] # "done" => OfTurn(k, {"answer"}) = {}
  /\ \A k \in Turn : k \in streamed => turn[k] # "new"
  /\ AnswerLoggedOnce

TInv == StateIsOwn /\ TraceIsOwn /\ Answers

AInv == WaysApart /\ QInv /\ TInv

------------------------------------------------------------------------------
(* How steps add to the events. *)

(* The events of New are made, and no other changes but for the status of  *)
(* one that was open.                                                      *)
Grew(New) ==
  /\ DOMAIN ev' = DOMAIN ev \cup New /\ New \cap DOMAIN ev = {}
  /\ \A i \in DOMAIN ev : /\ ev'[i].by = ev[i].by /\ ev'[i].trace = ev[i].trace
                          /\ ev'[i].stage = ev[i].stage
                          /\ ev[i].status # "open" => ev'[i].status = ev[i].status
  /\ lost \subseteq lost'

(* A step that makes no event and changes none. *)
LEMMA GrewNone == ASSUME ev' = ev, lost \subseteq lost' PROVE Grew({})
BY DEF Grew

(* One event is made. *)
LEMMA GrewOne ==
  ASSUME TracingInv, NEW r, ev' = Append(ev, r), lost' = lost
  PROVE  Grew({NextId}) /\ ev'[NextId] = r /\ NextId \notin DOMAIN ev
<1>1. ev \in Seq(Record)
  BY DEF TracingInv
<1>2. /\ DOMAIN ev' = DOMAIN ev \cup {Len(ev) + 1} /\ Len(ev) + 1 \notin DOMAIN ev
      /\ \A i \in DOMAIN ev : ev'[i] = ev[i]
      /\ ev'[Len(ev) + 1] = r
  BY <1>1
<1> QED
  BY <1>2 DEF Grew, NextId

(* A hand-over loses nothing. *)
LEMMA SubmitKeeps ==
  ASSUME NEW t, NEW i, NEW q, Submit(t, i, q) \/ SubmitInline(t, i, q) PROVE lost' = lost
BY DEF Submit, SubmitInline

(* A task makes at most one event, in its own name, in a trace of an event *)
(* (tracing.py).                                                           *)
LEMMA TaskGrows ==
  ASSUME TracingInv, NEW t \in Task, TaskStep(t)
  PROVE  \E New \in SUBSET Id :
           /\ Grew(New)
           /\ \A i \in New : /\ ev'[i].by = t
                             /\ \/ ev'[i].trace \in Id
                                \/ \E j \in DOMAIN ev : ev'[i].trace = ev[j].trace
<1>t. ContextTyped /\ EventsTyped
  BY TypeParts DEF TracingInv
<1>1. ASSUME NEW stage \in Stage, NEW status \in {"open", "ok", "error"}, Len(ev) < MaxManual,
             ev' = Append(ev, NewEvent(t, stage, status)), lost' = lost
      PROVE  \E New \in SUBSET Id :
               /\ Grew(New)
               /\ \A i \in New : /\ ev'[i].by = t
                                 /\ \/ ev'[i].trace \in Id
                                    \/ \E j \in DOMAIN ev : ev'[i].trace = ev[j].trace
  <2> DEFINE r == NewEvent(t, stage, status)
  <2>1. Len(ev) < MaxEvents
    BY <1>1, BoundAssumption DEF TracingInv
  <2>2. /\ r.by = t /\ r.parent \in {None} \cup DOMAIN ev
        /\ r.trace = IF r.parent = None THEN NextId ELSE ev[r.parent].trace
    <3>1. r = NewEvent(t, stage, status)
      OBVIOUS
    <3> HIDE DEF r
    <3> QED
      BY <2>1, <3>1, NewEventOK
  <2> HIDE DEF r
  <2>3. Grew({NextId}) /\ ev'[NextId] = r
    BY <1>1, GrewOne DEF r
  <2>4. NextId \in Id
    BY <2>1, NextNew
  <2>5. {NextId} \in SUBSET Id
    BY <2>4
  <2>6. \A i \in {NextId} : /\ ev'[i].by = t
                            /\ \/ ev'[i].trace \in Id
                               \/ \E j \in DOMAIN ev : ev'[i].trace = ev[j].trace
    BY <2>2, <2>3, <2>4
  <2> QED
    BY <2>3, <2>5, <2>6
<1>2. ASSUME Grew({})
      PROVE  \E New \in SUBSET Id :
               /\ Grew(New)
               /\ \A i \in New : /\ ev'[i].by = t
                                 /\ \/ ev'[i].trace \in Id
                                    \/ \E j \in DOMAIN ev : ev'[i].trace = ev[j].trace
  <2> WITNESS {} \in SUBSET Id
  <2> QED
    BY <1>2
<1>3. "span" \in Stage /\ "logged" \in Stage /\ {"open", "ok"} \subseteq {"open", "ok", "error"}
  BY DEF Stage
<1>4. CASE Enter(t)
  <2>1. lost' = lost
    BY <1>4 DEF Enter, Writes
  <2> QED
    BY <1>1, <1>3, <1>4, <2>1 DEF Enter
<1>5. CASE LogStage(t, TRUE) \/ LogStage(t, FALSE)
  <2>1. lost' = lost
    BY <1>5, SubmitKeeps DEF LogStage
  <2> QED
    BY <1>1, <1>3, <1>5, <2>1 DEF LogStage
<1>6. CASE Exit(t)
  <2> DEFINE b == Innermost(t)
  <2>1. blocks[t] \in Seq(Id) /\ blocks[t] # <<>>
    BY <1>6, <1>t DEF ContextTyped, Exit
  <2>2. Len(blocks[t]) \in DOMAIN blocks[t] /\ b = blocks[t][Len(blocks[t])]
    BY <2>1 DEF Innermost
  <2> HIDE DEF b
  <2>3. cell[b].span = b /\ ev[b].status = "open"
    BY <2>2 DEF TracingInv, BlocksNest
  <2>4. PICK s : ev' = [ev EXCEPT ![b].status = s]
    BY <1>6, <2>3 DEF Exit, b
  <2>5. lost' = lost
    BY <1>6, SubmitKeeps DEF Exit
  <2>6. \A i \in DOMAIN ev : ev[i] \in Record
    BY <1>t DEF EventsTyped
  <2>7. Grew({})
    BY <2>3, <2>4, <2>5, <2>6 DEF Grew, Record
  <2> QED
    BY <1>2, <2>7
<1>7. CASE \/ LogGroundTruth(t) \/ Raise(t) \/ Catch(t) \/ (\E u \in Task : Spawn(t, u))
           \/ (VectorQuery(t) /\ ~LogStage(t, TRUE))
  <2>1. ev' = ev /\ lost' = lost
    BY <1>7 DEF LogGroundTruth, Raise, Catch, Spawn, VectorQuery, LogHits, Writes
  <2> QED
    BY <1>2, <2>1, GrewNone
<1> QED
  BY <1>4, <1>5, <1>6, <1>7 DEF TaskStep

------------------------------------------------------------------------------
(* The LangChain handler. *)

(* What is not an event of a run is of no concern to the handlers.         *)
LEMMA QueriesKept ==
  ASSUME QInv, UNCHANGED lcvars, NEW New, Grew(New), \A i \in New : ev'[i].by \notin Run
  PROVE  QInv'
<1>1. \A i \in DOMAIN ev' : ev'[i].by \in Run =>
        /\ i \in DOMAIN ev /\ ev[i].by = ev'[i].by /\ ev'[i].trace = ev[i].trace
        /\ ev'[i].stage = ev[i].stage /\ ev'[i].status = ev[i].status
  BY DEF Grew, QInv, HandlersTrace, FromRun
<1>2. \A i \in DOMAIN ev : ev[i].by \in Run =>
        i \in DOMAIN ev' /\ ev[i].by = ev'[i].by /\ ev'[i].stage = ev[i].stage
  BY DEF Grew
<1>3. UNCHANGED <<state, rootRun, traceId, closing>>
  BY DEF lcvars
<1>4. QueriesStarted' /\ HandlersOwn'
  BY <1>3 DEF QInv, QueriesStarted, HandlersOwn
<1>5. HandlersTrace'
  BY <1>1, <1>3 DEF QInv, HandlersTrace, FromRun
<1>6. Boundaries'
  <2>1. \A i \in DOMAIN ev', r \in Run : Boundary(i, r)' <=> i \in DOMAIN ev /\ Boundary(i, r)
    BY <1>1, <1>2 DEF Boundary
  <2>2. \A i \in DOMAIN ev', r \in Run : Boundary(i, r)' =>
          /\ KindOf[r] = "chain" /\ QueryOf[r] = r /\ Over(r)'
          /\ ev'[i].status = Outcome(state'[r])
    BY <1>1, <1>3, <2>1 DEF QInv, Boundaries, Over, Boundary
  <2>3. \A i, j \in DOMAIN ev', r \in Run : Boundary(i, r)' /\ Boundary(j, r)' => i = j
    BY <2>1 DEF QInv, Boundaries
  <2>4. \A r \in Run : KindOf[r] = "chain" /\ QueryOf[r] = r /\ Over(r)'
          => \E i \in DOMAIN ev' : Boundary(i, r)'
    BY <1>2, <1>3, <2>1 DEF QInv, Boundaries, Over, Boundary
  <2>5. \A t \in Task : closing'[t] # None =>
          /\ closing'[t] \in DOMAIN ev' /\ ev'[closing'[t]].by \in Run
          /\ ev'[closing'[t]].stage = "boundary"
    BY <1>2, <1>3 DEF QInv, Boundaries
  <2> QED
    BY <2>2, <2>3, <2>4, <2>5 DEF Boundaries
<1> QED
  BY <1>4, <1>5, <1>6 DEF QInv

(* A run that starts starts in a query that did. *)
LEMMA StartsQuery ==
  ASSUME QInv, LangChainTypeOK, NEW t, NEW r \in Run, Starts(t, r)
  PROVE  QueriesStarted'
<1>1. state' = [state EXCEPT ![r] = "open"] /\ state \in [Run -> {"new", "open", "ended", "failed"}]
  BY DEF Starts, LangChainTypeOK
<1>2. \A s \in Run : state[s] # "new" => state'[s] # "new"
  BY <1>1
<1>3. LET q == QueryOf[r]
      IN  q \in Run /\ state'[q] # "new" /\ ParentOf[q] = NoRun /\ HandlerOf[q] = HandlerOf[r]
  <2>1. CASE ParentOf[r] = NoRun
    BY <1>1, <2>1, RunData
  <2>2. CASE ParentOf[r] # NoRun
    <3>1. ParentOf[r] \in Run /\ state[ParentOf[r]] # "new"
      BY <2>2, RunData DEF Starts
    <3> QED
      BY <1>2, <2>2, <3>1, RunData DEF QInv, QueriesStarted
  <2> QED
    BY <2>1, <2>2
<1>4. \A s \in Run : s # r => state'[s] = state[s]
  BY <1>1
<1> QED
  BY <1>2, <1>3, <1>4 DEF QInv, QueriesStarted

(* A run that ends had started. *)
LEMMA EndsQuery ==
  ASSUME QInv, LangChainTypeOK, NEW t, NEW r \in Run, NEW how \in {"ended", "failed"}, Ends(t, r, how)
  PROVE  QueriesStarted'
<1>1. state' = [state EXCEPT ![r] = how] /\ state \in [Run -> {"new", "open", "ended", "failed"}]
      /\ state[r] = "open"
  BY DEF Ends, LangChainTypeOK
<1>2. \A s \in Run : state'[s] = "new" <=> state[s] = "new"
  BY <1>1
<1> QED
  BY <1>2 DEF QInv, QueriesStarted

(* A run that is not a chain goes on; what is logged for it is in the      *)
(* trace of its handler, which the first to log makes (langchain.py:88-91, *)
(* 134-223).                                                               *)
LEMMA PartMoves ==
  ASSUME QInv, LangChainTypeOK, NEW r \in Run, NEW s \in {"open", "ended", "failed"},
         KindOf[r] # "chain", state' = [state EXCEPT ![r] = s], QueriesStarted',
         UNCHANGED <<rootRun, closing>>,
         \/ traceId' = traceId
         \/ /\ traceId[HandlerOf[r]] = NoRun
            /\ traceId' = [traceId EXCEPT ![HandlerOf[r]] = r],
         NEW New, Grew(New),
         \A i \in New : /\ ev'[i].by = r /\ ev'[i].stage # "boundary" /\ ev'[i].status # "open"
                        /\ ev'[i].trace = traceId'[HandlerOf[r]]
                        /\ traceId'[HandlerOf[r]] # NoRun
  PROVE  QInv'
<1>t. /\ state \in [Run -> {"new", "open", "ended", "failed"}]
      /\ traceId \in [Handler -> Run \cup {NoRun}] /\ HandlerOf \in [Run -> Handler]
  BY RunData DEF LangChainTypeOK
<1>1. /\ \A q \in Run : state[q] # "new" => state'[q] # "new"
      /\ \A q \in Run : q # r => state'[q] = state[q]
      /\ state'[r] # "new"
  BY <1>t
<1>2. \A h \in Handler : traceId[h] # NoRun => traceId'[h] = traceId[h]
  BY <1>t
<1>3. HandlersOwn'
  <2>1. ASSUME NEW h \in Handler, traceId'[h] # NoRun
        PROVE  HandlerOf[traceId'[h]] = h /\ state'[traceId'[h]] # "new"
    <3>1. CASE traceId'[h] = traceId[h]
      <4>1. HandlerOf[traceId[h]] = h /\ state[traceId[h]] # "new" /\ traceId[h] \in Run
        BY <1>t, <2>1, <3>1 DEF QInv, HandlersOwn
      <4> QED
        BY <1>1, <3>1, <4>1
    <3>2. CASE h = HandlerOf[r] /\ traceId'[h] = r
      BY <1>1, <3>2
    <3> QED
      BY <1>t, <3>1, <3>2
  <2>2. ASSUME NEW h \in Handler, rootRun[h] # NoRun
        PROVE  /\ KindOf[rootRun[h]] = "chain" /\ ParentOf[rootRun[h]] = NoRun
               /\ HandlerOf[rootRun[h]] = h /\ state'[rootRun[h]] # "new"
    <3>1. rootRun[h] \in Run
      BY <2>2 DEF LangChainTypeOK
    <3> QED
      BY <1>1, <2>2, <3>1 DEF QInv, HandlersOwn
  <2>3. \A q \in Run : KindOf[q] = "chain" /\ QueryOf[q] = q /\ state'[q] = "open"
          => rootRun[HandlerOf[q]] = q
    BY <1>1 DEF QInv, HandlersOwn
  <2> QED
    BY <2>1, <2>2, <2>3 DEF HandlersOwn
<1>4. HandlersTrace'
  <2> SUFFICES ASSUME NEW i \in DOMAIN ev', ev'[i].by \in Run
               PROVE  /\ state'[ev'[i].by] # "new" /\ ev'[i].status # "open"
                      /\ ev'[i].trace = traceId'[HandlerOf[ev'[i].by]] /\ ev'[i].trace # NoRun
    BY DEF HandlersTrace, FromRun
  <2>1. CASE i \in DOMAIN ev
    <3>1. /\ state[ev[i].by] # "new" /\ ev[i].status # "open"
          /\ ev[i].trace = traceId[HandlerOf[ev[i].by]] /\ ev[i].trace # NoRun
          /\ ev'[i].by = ev[i].by /\ ev'[i].trace = ev[i].trace /\ ev'[i].status = ev[i].status
      BY <2>1 DEF QInv, HandlersTrace, FromRun, Grew
    <3> QED
      BY <1>t, <1>1, <1>2, <3>1
  <2>2. CASE i \in New
    BY <1>1, <2>2
  <2> QED
    BY <2>1, <2>2 DEF Grew
<1>5. Boundaries'
  <2>1. \A i \in DOMAIN ev', q \in Run : Boundary(i, q)' =>
          i \in DOMAIN ev /\ Boundary(i, q) /\ ev'[i].status = ev[i].status
    BY DEF Boundary, Grew, QInv, HandlersTrace, FromRun
  <2>2. \A i \in DOMAIN ev, q \in Run : Boundary(i, q) => i \in DOMAIN ev' /\ Boundary(i, q)'
    BY DEF Boundary, Grew
  <2>3. \A q \in Run : KindOf[q] = "chain" => state'[q] = state[q]
    BY <1>1
  <2>4. \A i \in DOMAIN ev', q \in Run : Boundary(i, q)' =>
          /\ KindOf[q] = "chain" /\ QueryOf[q] = q /\ Over(q)'
          /\ ev'[i].status = Outcome(state'[q])
    BY <2>1, <2>3 DEF QInv, Boundaries, Over
  <2>5. \A i, j \in DOMAIN ev', q \in Run : Boundary(i, q)' /\ Boundary(j, q)' => i = j
    BY <2>1 DEF QInv, Boundaries
  <2>6. \A q \in Run : KindOf[q] = "chain" /\ QueryOf[q] = q /\ Over(q)'
          => \E i \in DOMAIN ev' : Boundary(i, q)'
    BY <2>2, <2>3 DEF QInv, Boundaries, Over
  <2>7. \A t \in Task : closing'[t] # None =>
          /\ closing'[t] \in DOMAIN ev' /\ ev'[closing'[t]].by \in Run
          /\ ev'[closing'[t]].stage = "boundary"
    BY DEF QInv, Boundaries, Grew
  <2> QED
    BY <2>4, <2>5, <2>6, <2>7 DEF Boundaries
<1> QED
  BY <1>3, <1>4, <1>5 DEF QInv

(* The first chain of a query begins the trace; its handler is fresh       *)
(* (langchain.py:95-103).                                                  *)
LEMMA ChainStartOK ==
  ASSUME QInv, LangChainTypeOK, NEW t \in Task, NEW r \in Run, ChainStart(t, r)
  PROVE  QInv' /\ Grew({})
<1> DEFINE h == HandlerOf[r]
<1>t. /\ state \in [Run -> {"new", "open", "ended", "failed"}]
      /\ rootRun \in [Handler -> Run \cup {NoRun}]
      /\ traceId \in [Handler -> Run \cup {NoRun}] /\ HandlerOf \in [Run -> Handler]
  BY RunData DEF LangChainTypeOK
<1>a. /\ KindOf[r] = "chain" /\ state[r] = "new" /\ state' = [state EXCEPT ![r] = "open"]
      /\ UNCHANGED <<ev, lost, closing>>
      /\ IF ParentOf[r] = NoRun /\ rootRun[h] = NoRun
         THEN /\ rootRun' = [rootRun EXCEPT ![h] = r]
              /\ traceId' = [traceId EXCEPT ![h] = r]
         ELSE UNCHANGED <<rootRun, traceId>>
  BY DEF ChainStart, Starts, tvars
<1>g. Grew({})
  BY <1>a, GrewNone
<1>1. QueriesStarted'
  BY StartsQuery DEF ChainStart
<1>2. /\ \A q \in Run : state[q] # "new" => state'[q] # "new" /\ state'[q] = state[q]
      /\ \A q \in Run : q # r => state'[q] = state[q]
      /\ state'[r] = "open"
  BY <1>t, <1>a
<1>3. ASSUME ParentOf[r] = NoRun PROVE traceId[h] = NoRun /\ rootRun[h] = NoRun
  <2>1. QueryOf[r] = r
    BY <1>3, RunData
  <2>2. ASSUME NEW q \in Run, HandlerOf[q] = h, state[q] # "new" PROVE FALSE
    <3>1. QueryOf[q] = r
      BY <2>1, <2>2, FreshHandlers
    <3> QED
      BY <3>1, <2>2, <1>a DEF QInv, QueriesStarted
  <2>3. h \in Handler
    BY <1>t
  <2> HIDE DEF h
  <2> QED
    BY <2>2, <2>3, <1>t DEF QInv, HandlersOwn
<1>4. HandlersOwn'
  <2>1. ASSUME NEW g \in Handler, rootRun'[g] # NoRun
        PROVE  /\ KindOf[rootRun'[g]] = "chain" /\ ParentOf[rootRun'[g]] = NoRun
               /\ HandlerOf[rootRun'[g]] = g /\ state'[rootRun'[g]] # "new"
    <3>1. CASE rootRun'[g] = rootRun[g]
      <4>1. /\ KindOf[rootRun[g]] = "chain" /\ ParentOf[rootRun[g]] = NoRun
            /\ HandlerOf[rootRun[g]] = g /\ state[rootRun[g]] # "new" /\ rootRun[g] \in Run
        BY <2>1, <3>1, <1>t DEF QInv, HandlersOwn
      <4> QED
        BY <3>1, <4>1, <1>2
    <3>2. CASE g = h /\ rootRun'[g] = r /\ ParentOf[r] = NoRun
      BY <3>2, <1>a, <1>2
    <3> QED
      BY <3>1, <3>2, <1>a, <1>t
  <2>2. ASSUME NEW g \in Handler, traceId'[g] # NoRun
        PROVE  HandlerOf[traceId'[g]] = g /\ state'[traceId'[g]] # "new"
    <3>1. CASE traceId'[g] = traceId[g]
      <4>1. HandlerOf[traceId[g]] = g /\ state[traceId[g]] # "new" /\ traceId[g] \in Run
        BY <2>2, <3>1, <1>t DEF QInv, HandlersOwn
      <4> QED
        BY <3>1, <4>1, <1>2
    <3>2. CASE g = h /\ traceId'[g] = r
      BY <3>2, <1>2
    <3> QED
      BY <3>1, <3>2, <1>a, <1>t
  <2>3. ASSUME NEW q \in Run, KindOf[q] = "chain", QueryOf[q] = q, state'[q] = "open"
        PROVE  rootRun'[HandlerOf[q]] = q
    <3>1. CASE q = r
      <4>1. ParentOf[r] = NoRun
        BY <1>1, <1>2, <2>3, <3>1 DEF QueriesStarted
      <4>2. rootRun' = [rootRun EXCEPT ![h] = r]
        BY <4>1, <1>3, <1>a
      <4> QED
        BY <4>2, <3>1, <1>t
    <3>2. CASE q # r
      <4>1. rootRun[HandlerOf[q]] = q
        BY <1>2, <2>3, <3>2 DEF QInv, HandlersOwn
      <4>2. HandlerOf[q] # h \/ rootRun' = rootRun
        BY <4>1, <1>a, RunsApart
      <4> QED
        BY <4>1, <4>2, <1>a, <1>t
    <3> QED
      BY <3>1, <3>2
  <2> QED
    BY <2>1, <2>2, <2>3 DEF HandlersOwn
<1>5. HandlersTrace'
  <2> SUFFICES ASSUME NEW i \in DOMAIN ev, ev[i].by \in Run
               PROVE  /\ state'[ev[i].by] # "new" /\ ev[i].status # "open"
                      /\ ev[i].trace = traceId'[HandlerOf[ev[i].by]] /\ ev[i].trace # NoRun
    BY <1>a DEF HandlersTrace, FromRun
  <2>1. /\ state[ev[i].by] # "new" /\ ev[i].status # "open"
        /\ ev[i].trace = traceId[HandlerOf[ev[i].by]] /\ ev[i].trace # NoRun
    BY DEF QInv, HandlersTrace, FromRun
  <2>2. HandlerOf[ev[i].by] # h \/ traceId' = traceId
    BY <2>1, <1>a, <1>3
  <2>3. HandlerOf[ev[i].by] \in Handler
    BY <1>t
  <2>4. traceId'[HandlerOf[ev[i].by]] = traceId[HandlerOf[ev[i].by]]
    BY <2>2, <2>3, <1>a, <1>t
  <2> QED
    BY <2>1, <2>4, <1>2
<1>6. Boundaries'
  <2>1. \A q \in Run : (Over(q)' <=> Over(q)) /\ (Over(q) => state'[q] = state[q])
    BY <1>2, <1>a DEF Over
  <2>2. \A i \in DOMAIN ev, q \in Run : Boundary(i, q)' <=> Boundary(i, q)
    BY <1>a DEF Boundary
  <2> QED
    BY <1>a, <2>1, <2>2 DEF QInv, Boundaries
<1> QED
  BY <1>1, <1>4, <1>5, <1>6, <1>g DEF QInv

(* The boundary of a query is logged when its chain ends or fails; a chain *)
(* inside it is no root run, and logs none (langchain.py:105-131).         *)
LEMMA ChainStopOK ==
  ASSUME TracingInv, QInv, LangChainTypeOK, RootTraced, NEW t \in Task, NEW r \in Run,
         NEW how \in {"ended", "failed"}, ChainStop(t, r, how)
  PROVE  /\ QInv'
         /\ \/ Grew({})
            \/ /\ Grew({NextId}) /\ NextId \in Id
               /\ ev'[NextId].by = r /\ ev'[NextId].trace \in Run
<1> DEFINE h == HandlerOf[r]
<1>t. /\ state \in [Run -> {"new", "open", "ended", "failed"}]
      /\ rootRun \in [Handler -> Run \cup {NoRun}] /\ closing \in [Task -> Id \cup {None}]
      /\ traceId \in [Handler -> Run \cup {NoRun}] /\ HandlerOf \in [Run -> Handler]
      /\ h \in Handler
  BY RunData DEF LangChainTypeOK
<1>a. /\ KindOf[r] = "chain" /\ state[r] = "open" /\ state' = [state EXCEPT ![r] = how]
      /\ IF rootRun[h] = r THEN LogBoundary(t, r, how)
         ELSE UNCHANGED <<tvars, rootRun, traceId, starts, closing>>
  BY DEF ChainStop, Ends
<1>1. QueriesStarted'
  BY EndsQuery DEF ChainStop
<1>2. /\ \A q \in Run : state[q] # "new" => state'[q] # "new"
      /\ \A q \in Run : q # r => state'[q] = state[q]
      /\ state'[r] = how
  BY <1>t, <1>a
<1>3. \A i \in DOMAIN ev : ~Boundary(i, r)
  BY <1>a DEF QInv, Boundaries, Over
<1>4. \A q \in Run : KindOf[q] = "chain" /\ QueryOf[q] = q /\ state'[q] = "open"
        => q # r /\ rootRun[HandlerOf[q]] = q
  BY <1>2 DEF QInv, HandlersOwn
<1>5. CASE rootRun[h] # r
  <2>1. UNCHANGED <<ev, lost, rootRun, traceId, closing>>
    BY <1>a, <1>5 DEF tvars
  <2>2. Grew({})
    BY <2>1, GrewNone
  <2>3. QueryOf[r] # r
    BY <1>a, <1>5 DEF QInv, HandlersOwn
  <2>4. HandlersOwn'
    <3>1. \A g \in Handler : rootRun[g] # NoRun => rootRun[g] \in Run
      BY <1>t
    <3>2. \A g \in Handler : traceId[g] # NoRun => traceId[g] \in Run
      BY <1>t
    <3> QED
      BY <3>1, <3>2, <1>2, <1>4, <2>1 DEF QInv, HandlersOwn
  <2>5. HandlersTrace'
    BY <1>2, <2>1 DEF QInv, HandlersTrace, FromRun
  <2>6. Boundaries'
    <3>1. \A i \in DOMAIN ev, q \in Run : Boundary(i, q)' <=> Boundary(i, q)
      BY <2>1 DEF Boundary
    <3>2. \A q \in Run : q # r => (Over(q)' <=> Over(q))
      BY <1>2 DEF Over
    <3> QED
      BY <3>1, <3>2, <1>2, <1>3, <2>1, <2>3 DEF QInv, Boundaries
  <2> QED
    BY <1>1, <2>2, <2>4, <2>5, <2>6 DEF QInv
<1>6. CASE rootRun[h] = r
  <2>1. QueryOf[r] = r
    <3>1. rootRun[h] # NoRun
      BY <1>6, RunsApart
    <3> QED
      BY <3>1, <1>6, <1>t, RunData DEF QInv, HandlersOwn
  <2>2. traceId[h] \in Run /\ traceId[h] # NoRun
    BY <1>6, <1>t, RunsApart DEF RootTraced
  <2>3. PICK inline \in BOOLEAN : LogFor(t, r, "boundary", Outcome(how), traceId[h], inline)
    BY <1>a, <1>6 DEF LogBoundary
  <2>4. /\ Grew({NextId}) /\ NextId \notin DOMAIN ev /\ NextId \in Id
        /\ ev'[NextId] = [trace |-> traceId[h], parent |-> None, by |-> r,
                          stage |-> "boundary", status |-> Outcome(how)]
    <3>1. lost' = lost
      BY <2>3, SubmitKeeps DEF LogFor
    <3> QED
      BY <2>3, <3>1, GrewOne, NextNew DEF LogFor
  <2>5. /\ traceId' = traceId
        /\ rootRun' = rootRun \/ rootRun' = [rootRun EXCEPT ![h] = NoRun]
        /\ closing' = closing \/ closing' = [closing EXCEPT ![t] = NextId]
    BY <1>a, <1>6 DEF LogBoundary
  <2>d. DOMAIN ev' = DOMAIN ev \cup {NextId}
    BY <2>4 DEF Grew
  <2> HIDE DEF h
  <2>6. HandlersOwn'
    <3>1. \A g \in Handler : rootRun'[g] # NoRun => rootRun'[g] = rootRun[g] /\ rootRun[g] \in Run
      BY <1>t, <2>5
    <3>2. \A g \in Handler : traceId[g] # NoRun => traceId[g] \in Run
      BY <1>t
    <3>3. ASSUME NEW q \in Run, KindOf[q] = "chain", QueryOf[q] = q, state'[q] = "open"
          PROVE  rootRun'[HandlerOf[q]] = q
      <4>1. q # r /\ rootRun[HandlerOf[q]] = q
        BY <1>4, <3>3
      <4>2. HandlerOf[q] # h
        BY <4>1, <1>6
      <4> QED
        BY <4>1, <4>2, <2>5, <1>t
    <3> QED
      BY <3>1, <3>2, <3>3, <1>2, <2>5 DEF QInv, HandlersOwn
  <2>7. HandlersTrace'
    <3> SUFFICES ASSUME NEW i \in DOMAIN ev', ev'[i].by \in Run
                 PROVE  /\ state'[ev'[i].by] # "new" /\ ev'[i].status # "open"
                        /\ ev'[i].trace = traceId'[HandlerOf[ev'[i].by]] /\ ev'[i].trace # NoRun
      BY DEF HandlersTrace, FromRun
    <3>1. CASE i \in DOMAIN ev
      BY <3>1, <2>4, <2>5, <1>2 DEF QInv, HandlersTrace, FromRun, Grew
    <3>2. CASE i = NextId
      BY <3>2, <2>2, <2>4, <2>5, <1>2 DEF Outcome, h
    <3> QED
      BY <3>1, <3>2, <2>d
  <2>8. Boundaries'
    <3>n. PICK n : n = NextId
      OBVIOUS
    <3>1. \A i \in DOMAIN ev, q \in Run : Boundary(i, q)' <=> Boundary(i, q)
      BY <2>4 DEF Boundary, Grew
    <3>2. \A q \in Run : Boundary(n, q)' <=> q = r
      BY <2>4, <3>n DEF Boundary
    <3>3. \A q \in Run : q # r => (Over(q)' <=> Over(q)) /\ state'[q] = state[q]
      BY <1>2 DEF Over
    <3>4. Over(r)' /\ ev'[n].status = Outcome(state'[r])
      BY <1>2, <2>4, <3>n DEF Over
    <3>5. ASSUME NEW i \in DOMAIN ev', NEW q \in Run, Boundary(i, q)'
          PROVE  /\ KindOf[q] = "chain" /\ QueryOf[q] = q /\ Over(q)'
                 /\ ev'[i].status = Outcome(state'[q])
      <4>1. CASE i \in DOMAIN ev
        <5>1. Boundary(i, q) /\ q # r /\ ev'[i].status = ev[i].status
          BY <4>1, <3>5, <3>1, <1>3, <2>4 DEF Grew, QInv, HandlersTrace, FromRun, Boundary
        <5> QED
          BY <4>1, <5>1, <3>3 DEF QInv, Boundaries
      <4>2. CASE i = n
        BY <4>2, <3>2, <3>4, <3>5, <1>a, <2>1
      <4> QED
        BY <4>1, <4>2, <2>d, <3>n
    <3>6. ASSUME NEW i \in DOMAIN ev', NEW j \in DOMAIN ev', NEW q \in Run,
                 Boundary(i, q)', Boundary(j, q)'
          PROVE  i = j
      <4>1. CASE q = r
        BY <4>1, <3>1, <3>6, <3>n, <1>3, <2>d
      <4>2. CASE q # r
        BY <4>2, <3>1, <3>2, <3>6, <3>n, <2>d DEF QInv, Boundaries
      <4> QED
        BY <4>1, <4>2
    <3>7. \A q \in Run : KindOf[q] = "chain" /\ QueryOf[q] = q /\ Over(q)'
            => \E i \in DOMAIN ev' : Boundary(i, q)'
      BY <3>1, <3>2, <3>3, <3>n, <2>d DEF QInv, Boundaries
    <3>8. ASSUME NEW u \in Task, closing'[u] # None
          PROVE  /\ closing'[u] \in DOMAIN ev' /\ ev'[closing'[u]].by \in Run
                 /\ ev'[closing'[u]].stage = "boundary"
      <4>1. CASE closing'[u] = closing[u]
        BY <4>1, <3>8, <2>4 DEF QInv, Boundaries, Grew
      <4>2. CASE closing'[u] = NextId
        BY <4>2, <2>4, <2>d
      <4> QED
        BY <4>1, <4>2, <2>5, <1>t
    <3> QED
      BY <3>5, <3>6, <3>7, <3>8 DEF Boundaries
  <2> QED
    BY <1>1, <2>2, <2>4, <2>6, <2>7, <2>8 DEF QInv
<1> QED
  BY <1>5, <1>6

(* The callback that waited goes on when its query is over.                *)
LEMMA ChainClosedOK ==
  ASSUME QInv, LangChainTypeOK, NEW t \in Task, ChainClosed(t)
  PROVE  QInv' /\ Grew({})
<1> DEFINE r == ev[closing[t]].by
<1>t. /\ state \in [Run -> {"new", "open", "ended", "failed"}]
      /\ rootRun \in [Handler -> Run \cup {NoRun}] /\ closing \in [Task -> Id \cup {None}]
      /\ traceId \in [Handler -> Run \cup {NoRun}] /\ HandlerOf \in [Run -> Handler]
  BY RunData DEF LangChainTypeOK
<1>1. /\ UNCHANGED <<ev, lost, state, traceId>> /\ closing[t] # None
      /\ closing' = [closing EXCEPT ![t] = None]
      /\ rootRun' = rootRun \/ rootRun' = [rootRun EXCEPT ![HandlerOf[r]] = NoRun]
  BY DEF ChainClosed, tvars
<1>2. Grew({})
  BY <1>1, GrewNone
<1>3. r \in Run /\ QueryOf[r] = r /\ Over(r)
  BY <1>1 DEF QInv, Boundaries, Boundary
<1> HIDE DEF r
<1>4. HandlersOwn'
  <2>1. \A g \in Handler : rootRun'[g] # NoRun => rootRun'[g] = rootRun[g]
    BY <1>1, <1>t
  <2>2. ASSUME NEW q \in Run, KindOf[q] = "chain", QueryOf[q] = q, state[q] = "open"
        PROVE  rootRun'[HandlerOf[q]] = q
    <3>1. q # r /\ rootRun[HandlerOf[q]] = q
      BY <1>3, <2>2 DEF Over, QInv, HandlersOwn
    <3>2. HandlerOf[q] # HandlerOf[r]
      BY <3>1, <1>3, <2>2, FreshHandlers
    <3> QED
      BY <3>1, <3>2, <1>1, <1>t
  <2> QED
    BY <2>1, <2>2, <1>1 DEF QInv, HandlersOwn
<1>5. Boundaries'
  <2>1. \A u \in Task : closing'[u] # None => closing'[u] = closing[u]
    BY <1>1, <1>t
  <2>2. \A i, q : (Boundary(i, q)' <=> Boundary(i, q)) /\ (Over(q)' <=> Over(q))
    BY <1>1 DEF Boundary, Over
  <2> QED
    BY <2>1, <2>2, <1>1 DEF QInv, Boundaries
<1>6. QueriesStarted' /\ HandlersTrace'
  BY <1>1 DEF QInv, QueriesStarted, HandlersTrace, FromRun
<1> QED
  BY <1>2, <1>4, <1>5, <1>6 DEF QInv

(* A run that is not a chain logs an event (langchain.py:134-223). *)
LEMMA PartLogs ==
  ASSUME TracingInv, QInv, LangChainTypeOK, NEW t \in Task, NEW r \in Run,
         NEW s \in {"open", "ended", "failed"}, NEW stage, NEW status, NEW inline,
         KindOf[r] # "chain", stage # "boundary", status # "open",
         state' = [state EXCEPT ![r] = s], QueriesStarted', UNCHANGED <<rootRun, closing>>,
         LogFor(t, r, stage, status, EnsureTrace(HandlerOf[r], r), inline),
         traceId' = [traceId EXCEPT ![HandlerOf[r]] = EnsureTrace(HandlerOf[r], r)]
  PROVE  /\ QInv'
         /\ Grew({NextId}) /\ NextId \in Id
         /\ ev'[NextId].by = r /\ ev'[NextId].trace \in Run
<1> DEFINE h == HandlerOf[r]
<1>t. traceId \in [Handler -> Run \cup {NoRun}] /\ h \in Handler
  BY RunData DEF LangChainTypeOK
<1>1. /\ EnsureTrace(h, r) \in Run /\ EnsureTrace(h, r) # NoRun
      /\ traceId'[h] = EnsureTrace(h, r)
      /\ \/ traceId' = traceId
         \/ traceId[h] = NoRun /\ traceId' = [traceId EXCEPT ![h] = r]
  BY <1>t, RunsApart DEF EnsureTrace
<1>2. lost' = lost
  BY SubmitKeeps DEF LogFor
<1>3. /\ Grew({NextId}) /\ NextId \in Id
      /\ ev'[NextId] = [trace |-> EnsureTrace(h, r), parent |-> None, by |-> r,
                        stage |-> stage, status |-> status]
  BY <1>2, GrewOne, NextNew DEF LogFor
<1>4. PICK n : n = NextId
  OBVIOUS
<1> HIDE DEF h
<1>5. \A i \in {n} : /\ ev'[i].by = r /\ ev'[i].stage # "boundary" /\ ev'[i].status # "open"
                     /\ ev'[i].trace = traceId'[h] /\ traceId'[h] # NoRun
  BY <1>1, <1>3, <1>4
<1>6. Grew({n})
  BY <1>3, <1>4
<1>7. QInv'
  BY <1>1, <1>5, <1>6, PartMoves DEF h
<1> QED
  BY <1>1, <1>3, <1>7

(* A step of LangChain keeps the queries apart, and what it logs is in the *)
(* name of a run, in the trace of a run, or a wrapped reranker's           *)
(* (langchain.py:88-262).                                                  *)
LEMMA LangChainKeeps ==
  ASSUME IInv, QInv, NEW t \in Task, LangChainStep(t)
  PROVE  /\ QInv'
         /\ \E New \in SUBSET Id :
              /\ Grew(New)
              /\ \A i \in New :
                   \/ ev'[i].by \in Run /\ ev'[i].trace \in Run
                   \/ /\ ev'[i].by = t
                      /\ \/ ev'[i].trace \in Id
                         \/ \E j \in DOMAIN ev : ev'[i].trace = ev[j].trace
<1> DEFINE Made == \E New \in SUBSET Id :
                     /\ Grew(New)
                     /\ \A i \in New :
                          \/ ev'[i].by \in Run /\ ev'[i].trace \in Run
                          \/ /\ ev'[i].by = t
                             /\ \/ ev'[i].trace \in Id
                                \/ \E j \in DOMAIN ev : ev'[i].trace = ev[j].trace
<1>i. TracingInv /\ LangChainTypeOK /\ RootTraced
  BY DEF IInv
<1>n. ASSUME Grew({}) PROVE Made
  <2>1. {} \in SUBSET Id
    OBVIOUS
  <2> QED
    BY <1>n, <2>1
<1>o. ASSUME NEW r \in Run, Grew({NextId}), NextId \in Id, ev'[NextId].by = r,
             ev'[NextId].trace \in Run
      PROVE  Made
  <2>1. {NextId} \in SUBSET Id
    BY <1>o
  <2>2. \A i \in {NextId} : ev'[i].by \in Run /\ ev'[i].trace \in Run
    BY <1>o
  <2> QED
    BY <1>o, <2>1, <2>2
<1> HIDE DEF Made
<1>s. /\ "open" \in {"open", "ended", "failed"} /\ "ended" \in {"ended", "failed"}
      /\ {"ended", "failed"} \subseteq {"open", "ended", "failed"}
  OBVIOUS
<1>1. ASSUME NEW r \in Run, ChainStart(t, r) PROVE QInv' /\ Made
  BY <1>i, <1>n, <1>1, ChainStartOK
<1>2. ASSUME NEW r \in Run, NEW how \in {"ended", "failed"}, ChainStop(t, r, how)
      PROVE  QInv' /\ Made
  BY <1>i, <1>n, <1>o, <1>2, ChainStopOK
<1>3. ASSUME NEW r \in Run, RetrieverStart(t, r) PROVE QInv' /\ Made
  <2>1. QueriesStarted'
    BY <1>i, <1>3, StartsQuery DEF RetrieverStart
  <2>2. /\ KindOf[r] # "chain" /\ state' = [state EXCEPT ![r] = "open"]
        /\ UNCHANGED <<rootRun, closing, traceId, ev, lost>>
    BY <1>3 DEF RetrieverStart, Starts, tvars
  <2>3. Grew({})
    BY <2>2, GrewNone
  <2> QED
    BY <1>i, <1>n, <1>s, <2>1, <2>2, <2>3, PartMoves
<1>4. ASSUME NEW r \in Run, RetrieverEnd(t, r) PROVE QInv' /\ Made
  <2>1. QueriesStarted'
    BY <1>i, <1>s, <1>4, EndsQuery DEF RetrieverEnd
  <2>2. PICK inline : LogFor(t, r, "retrieval", "ok", EnsureTrace(HandlerOf[r], r), inline)
    BY <1>4 DEF RetrieverEnd
  <2>3. /\ KindOf[r] # "chain" /\ state' = [state EXCEPT ![r] = "ended"]
        /\ UNCHANGED <<rootRun, closing>>
        /\ traceId' = [traceId EXCEPT ![HandlerOf[r]] = EnsureTrace(HandlerOf[r], r)]
    BY <1>4 DEF RetrieverEnd, Ends
  <2>4. "retrieval" # "boundary" /\ "ok" # "open"
    OBVIOUS
  <2>5. QInv' /\ Grew({NextId}) /\ NextId \in Id /\ ev'[NextId].by = r /\ ev'[NextId].trace \in Run
    BY <1>i, <1>s, <2>1, <2>2, <2>3, <2>4, PartLogs
  <2> QED
    BY <1>o, <2>5
<1>5. ASSUME NEW r \in Run, RetrieverError(t, r) PROVE QInv' /\ Made
  <2>1. QueriesStarted'
    BY <1>i, <1>5, EndsQuery DEF RetrieverError
  <2>2. /\ KindOf[r] # "chain" /\ state' = [state EXCEPT ![r] = "failed"]
        /\ UNCHANGED <<rootRun, closing, traceId, ev, lost>>
    BY <1>5 DEF RetrieverError, Ends, tvars
  <2>3. Grew({})
    BY <2>2, GrewNone
  <2> QED
    BY <1>i, <1>n, <1>s, <2>1, <2>2, <2>3, PartMoves
<1>6. ASSUME NEW r \in Run, LlmStart(t, r) PROVE QInv' /\ Made
  <2>1. QueriesStarted'
    BY <1>i, <1>6, StartsQuery DEF LlmStart
  <2>2. PICK inline : LogFor(t, r, "context", "ok", EnsureTrace(HandlerOf[r], r), inline)
    BY <1>6 DEF LlmStart
  <2>3. /\ KindOf[r] # "chain" /\ state' = [state EXCEPT ![r] = "open"]
        /\ UNCHANGED <<rootRun, closing>>
        /\ traceId' = [traceId EXCEPT ![HandlerOf[r]] = EnsureTrace(HandlerOf[r], r)]
    BY <1>6 DEF LlmStart, Starts
  <2>4. "context" # "boundary" /\ "ok" # "open"
    OBVIOUS
  <2>5. QInv' /\ Grew({NextId}) /\ NextId \in Id /\ ev'[NextId].by = r /\ ev'[NextId].trace \in Run
    BY <1>i, <1>s, <2>1, <2>2, <2>3, <2>4, PartLogs
  <2> QED
    BY <1>o, <2>5
<1>7. ASSUME NEW r \in Run, NEW how \in {"ended", "failed"}, LlmStop(t, r, how)
      PROVE  QInv' /\ Made
  <2>1. QueriesStarted'
    BY <1>i, <1>7, EndsQuery DEF LlmStop
  <2>2. PICK inline :
          LogFor(t, r, "generation", Outcome(how), EnsureTrace(HandlerOf[r], r), inline)
    BY <1>7 DEF LlmStop
  <2>3. /\ KindOf[r] # "chain" /\ state' = [state EXCEPT ![r] = how]
        /\ UNCHANGED <<rootRun, closing>>
        /\ traceId' = [traceId EXCEPT ![HandlerOf[r]] = EnsureTrace(HandlerOf[r], r)]
    BY <1>7 DEF LlmStop, Ends
  <2>4. "generation" # "boundary" /\ Outcome(how) # "open"
    BY DEF Outcome
  <2>5. how \in {"open", "ended", "failed"}
    OBVIOUS
  <2>6. QInv' /\ Grew({NextId}) /\ NextId \in Id /\ ev'[NextId].by = r /\ ev'[NextId].trace \in Run
    BY <1>i, <2>1, <2>2, <2>3, <2>4, <2>5, PartLogs
  <2> QED
    BY <1>o, <2>6
<1>8. ASSUME NEW r \in Run, Compress(t, r) PROVE QInv' /\ Made
  <2>1. UNCHANGED lcvars /\ TaskStep(t)
    BY <1>8 DEF Compress, TaskStep
  <2>2. PICK New \in SUBSET Id :
          /\ Grew(New)
          /\ \A i \in New : /\ ev'[i].by = t
                            /\ \/ ev'[i].trace \in Id
                               \/ \E j \in DOMAIN ev : ev'[i].trace = ev[j].trace
    BY <1>i, <2>1, TaskGrows
  <2>3. \A i \in New : ev'[i].by \notin Run
    BY <2>2, RunsApart
  <2>4. QInv'
    BY <2>1, <2>2, <2>3, QueriesKept
  <2> QED
    BY <2>2, <2>4 DEF Made
<1>9. ASSUME ChainClosed(t) PROVE QInv' /\ Made
  BY <1>i, <1>n, <1>9, ChainClosedOK
<1>10. QInv' /\ Made
  BY <1>1, <1>2, <1>3, <1>4, <1>5, <1>6, <1>7, <1>8, <1>9 DEF LangChainStep, Callback
<1> QED
  BY <1>10 DEF Made

------------------------------------------------------------------------------
(* The LlamaIndex handler. *)

(* The events of a turn after events were made. *)
LEMMA OfTurnGrows ==
  ASSUME NEW New, Grew(New), NEW k, NEW stages
  PROVE  OfTurn(k, stages)' = OfTurn(k, stages)
                              \cup {i \in New : ev'[i].by = k /\ ev'[i].stage \in stages}
BY DEF OfTurn, Grew

(* They are the same if none is one of them. *)
LEMMA OfTurnSame ==
  ASSUME NEW New, Grew(New), NEW k, NEW stages,
         \A i \in New : ~(ev'[i].by = k /\ ev'[i].stage \in stages)
  PROVE  OfTurn(k, stages)' = OfTurn(k, stages)
BY DEF OfTurn, Grew

(* What is logged while turns are open is in the trace of _state, which no *)
(* turn has that others overlap with (llamaindex.py:191-211).              *)
LEMMA TraceKept ==
  ASSUME TInv, LlamaIndexTypeOK, mixed \subseteq mixed',
         \A k \in Turn : turn'[k] = "open" => turn[k] = "open",
         \A k \in Turn : turn[k] # "new" => turn'[k] # "new",
         st'.trace \in Turn => st'.trace = st.trace,
         NEW New, Grew(New),
         \A i \in New : \/ ev'[i].by \notin Turn /\ ev'[i].trace \notin Turn
                        \/ ev'[i].by = "ingest" /\ ev'[i].trace = st.trace
                        \/ /\ ev'[i].by \in Turn /\ turn[ev'[i].by] = "open"
                           /\ ev'[i].trace \in Turn => ev'[i].trace = st.trace
                           /\ st.trace \in Turn => ev'[i].trace = st.trace
  PROVE  TraceIsOwn'
<1>1. \A k \in Turn : Alone(k)' => Alone(k)
  BY DEF Alone
<1>2. ASSUME NEW k \in Turn, Alone(k)', st'.trace = k, NEW l \in Turn, turn'[l] = "open"
      PROVE  l = k
  BY <1>1, <1>2 DEF TInv, TraceIsOwn
<1>3. ASSUME NEW k \in Turn, NEW i \in DOMAIN ev', ev'[i].by = k PROVE turn'[k] # "new"
  <2>1. CASE i \in DOMAIN ev
    BY <1>3, <2>1 DEF Grew, TInv, TraceIsOwn
  <2>2. CASE i \in New
    <3>1. turn[k] = "open"
      BY <1>3, <2>2, MakersApart
    <3> QED
      BY <3>1
  <2> QED
    BY <2>1, <2>2 DEF Grew
<1>4. ASSUME NEW k \in Turn \ mixed', NEW i \in DOMAIN ev'
      PROVE  /\ ev'[i].by = k => ev'[i].trace = k
             /\ ev'[i].trace = k => ev'[i].by \in {k, "ingest"}
  <2>0. k \in Turn /\ Alone(k)
    BY <1>4 DEF Alone
  <2>1. CASE i \in DOMAIN ev
    BY <2>0, <2>1 DEF Grew, TInv, TraceIsOwn, TurnsKeepApart, Alone
  <2>2. CASE i \in New
    <3>1. ASSUME ev'[i].by = k PROVE ev'[i].trace = k
      <4>1. turn[k] = "open" /\ (st.trace \in Turn => ev'[i].trace = st.trace)
        BY <2>0, <2>2, <3>1, MakersApart
      <4>2. st.trace = k
        BY <2>0, <4>1 DEF TInv, StateIsOwn
      <4> QED
        BY <2>0, <4>1, <4>2
    <3>2. ASSUME ev'[i].trace = k PROVE ev'[i].by \in {k, "ingest"}
      <4>1. CASE ev'[i].by \in Turn /\ turn[ev'[i].by] = "open" /\ ev'[i].trace = st.trace
        BY <2>0, <3>2, <4>1 DEF TInv, TraceIsOwn
      <4> QED
        BY <2>0, <2>2, <3>2, <4>1
    <3> QED
      BY <3>1, <3>2
  <2> QED
    BY <2>1, <2>2 DEF Grew
<1> QED
  BY <1>2, <1>3, <1>4 DEF TraceIsOwn, TurnsKeepApart

(* While no turn begins or ends and no generation is logged, _state stays  *)
(* the open turn's own.                                                    *)
LEMMA StateKept ==
  ASSUME TInv, LlamaIndexTypeOK, UNCHANGED <<turn, taker, mixed, streamed>>,
         st'.gen_logged = st.gen_logged, st'.deltas = st.deltas,
         st.trace \in Turn => st'.trace = st.trace,
         \A u \in Task :
           \/ rest'[u] = rest[u]
           \/ /\ rest[u].what # "generated"
              /\ rest'[u].what \notin {"generated", "query over", "chat over"},
         NEW New, Grew(New),
         \A i \in New : ev'[i].by \notin Turn \/ ev'[i].stage # "generation"
  PROVE  StateIsOwn'
<1> SUFFICES ASSUME NEW k \in Turn, Alone(k), turn[k] = "open"
             PROVE  /\ \A l \in Turn : turn[l] = "open" => l = k
                    /\ st'.trace = k
                    /\ \A u \in Task : rest'[u].what \notin {"query over", "chat over"}
                    /\ \A u \in Task : rest'[u].what = "generated" =>
                         u = taker[k] /\ rest'[u].after \in OfTurn(k, {"generation"})'
                    /\ st'.gen_logged => OfTurn(k, {"generation"})' # {}
                    /\ ~st'.gen_logged => \A i \in OfTurn(k, {"generation"})' :
                         i \in lost' \/ \E u \in Task :
                                          rest'[u] = [after |-> i, what |-> "generated"]
                    /\ k \in streamed => st'.deltas
  BY DEF StateIsOwn, Alone
<1> DEFINE G == OfTurn(k, {"generation"})
<1>1. /\ \A l \in Turn : turn[l] = "open" => l = k
      /\ st.trace = k
      /\ \A u \in Task : rest[u].what \notin {"query over", "chat over"}
      /\ \A u \in Task : rest[u].what = "generated" => u = taker[k] /\ rest[u].after \in G
      /\ st.gen_logged => G # {}
      /\ ~st.gen_logged => \A i \in G :
           i \in lost \/ \E u \in Task : rest[u] = [after |-> i, what |-> "generated"]
      /\ k \in streamed => st.deltas
  BY DEF TInv, StateIsOwn
<1>2. G' = G
  <2>1. \A i \in New : ~(ev'[i].by = k /\ ev'[i].stage \in {"generation"})
    OBVIOUS
  <2> QED
    BY <2>1, OfTurnSame
<1>3. lost \subseteq lost'
  BY DEF Grew
<1> HIDE DEF G
<1>4. \A u \in Task : rest'[u].what \in {"generated", "query over", "chat over"} => rest'[u] = rest[u]
  OBVIOUS
<1>5. \A u \in Task : rest[u].what = "generated" => rest'[u] = rest[u]
  OBVIOUS
<1>6. /\ \A l \in Turn : turn[l] = "open" => l = k
      /\ st'.trace = k
      /\ \A u \in Task : rest'[u].what \notin {"query over", "chat over"}
      /\ \A u \in Task : rest'[u].what = "generated" => u = taker[k] /\ rest'[u].after \in G'
      /\ st'.gen_logged => G' # {}
      /\ k \in streamed => st'.deltas
  BY <1>1, <1>2, <1>4
<1>7. ASSUME ~st'.gen_logged, NEW i \in G', i \notin lost'
      PROVE  \E u \in Task : rest'[u] = [after |-> i, what |-> "generated"]
  <2>1. PICK u \in Task : rest[u] = [after |-> i, what |-> "generated"]
    BY <1>1, <1>2, <1>3, <1>7
  <2>2. rest[u].what = "generated"
    <3>1. [after |-> i, what |-> "generated"].what = "generated"
      OBVIOUS
    <3> QED
      BY <2>1, <3>1
  <2>3. rest'[u] = [after |-> i, what |-> "generated"]
    BY <1>5, <2>1, <2>2
  <2> QED
    BY <2>3
<1> QED
  BY <1>6, <1>7 DEF G

(* When a turn that was open ends, no turn that is alone is open. *)
LEMMA StateFreed ==
  ASSUME TInv, NEW j \in Turn, turn[j] = "open", turn \in [Turn -> {"new", "open", "done"}],
         turn' = [turn EXCEPT ![j] = "done"], UNCHANGED mixed
  PROVE  StateIsOwn'
<1>1. ASSUME NEW k \in Turn, Alone(k)', turn'[k] = "open" PROVE FALSE
  <2>1. k # j /\ turn[k] = "open" /\ Alone(k)
    BY <1>1 DEF Alone
  <2> QED
    BY <2>1 DEF TInv, StateIsOwn
<1> QED
  BY <1>1 DEF StateIsOwn

(* While no chat ends, no answer is logged. *)
LEMMA AnswersKept ==
  ASSUME TInv, LlamaIndexTypeOK, TurnData, mixed \subseteq mixed',
         \A k \in Turn : turn[k] = "done" => turn'[k] = "done",
         \A k \in Chat : turn'[k] = "done" => turn[k] = "done",
         \A k \in Turn : turn[k] # "new" => turn'[k] # "new",
         \A k \in streamed' : k \in streamed \/ turn[k] = "open",
         NEW New, Grew(New),
         \A i \in New : \/ ev'[i].by \notin Turn
                        \/ turn[ev'[i].by] = "open" /\ ev'[i].stage # "answer"
  PROVE  Answers'
<1>1. ASSUME NEW k \in Turn PROVE OfTurn(k, {"answer"})' = OfTurn(k, {"answer"})
  <2>1. \A i \in New : ~(ev'[i].by = k /\ ev'[i].stage \in {"answer"})
    OBVIOUS
  <2> QED
    BY <2>1, OfTurnSame
<1>2. ASSUME NEW k \in Turn, turn'[k] # "done" PROVE OfTurn(k, {"answer"})' = {}
  BY <1>1, <1>2 DEF TInv, Answers
<1>3. ASSUME NEW k \in Turn, k \in streamed' PROVE turn'[k] # "new"
  BY <1>3 DEF TInv, Answers
<1>4. ASSUME NEW k \in Chat \ mixed'
      PROVE  /\ OfTurn(k, {"answer"})' # {} => OfTurn(k, {"generation"})' \subseteq lost'
             /\ (k \in streamed' /\ turn'[k] = "done")
                  => OfTurn(k, {"answer", "generation"})' # {}
  <2>1. k \in Turn /\ k \in Chat \ mixed
    BY <1>4, TurnData
  <2>2. ASSUME OfTurn(k, {"answer"})' # {} PROVE OfTurn(k, {"generation"})' \subseteq lost'
    <3>1. OfTurn(k, {"answer"}) # {} /\ turn[k] = "done"
      BY <1>1, <2>1, <2>2 DEF TInv, Answers
    <3>2. OfTurn(k, {"generation"})' = OfTurn(k, {"generation"})
      <4>1. \A i \in New : ~(ev'[i].by = k /\ ev'[i].stage \in {"generation"})
        BY <2>1, <3>1
      <4> QED
        BY <4>1, OfTurnSame
    <3> QED
      BY <2>1, <3>1, <3>2 DEF TInv, Answers, AnswerLoggedOnce, Grew
  <2>3. ASSUME k \in streamed', turn'[k] = "done"
        PROVE  OfTurn(k, {"answer", "generation"})' # {}
    <3>1. turn[k] = "done" /\ k \in streamed
      BY <1>4, <2>3
    <3>2. OfTurn(k, {"answer", "generation"}) # {}
      BY <2>1, <3>1 DEF TInv, Answers, AnswerLoggedOnce
    <3> QED
      BY <3>2, OfTurnGrows
  <2> QED
    BY <2>2, <2>3
<1> QED
  BY <1>2, <1>3, <1>4 DEF Answers, AnswerLoggedOnce

(* What is not an event of a turn is of no concern to the turns.           *)
LEMMA TurnsKept ==
  ASSUME TInv, LlamaIndexTypeOK, UNCHANGED livars, NEW New, Grew(New),
         \A i \in New : ev'[i].by \notin Turn /\ ev'[i].trace \notin Turn
  PROVE  TInv'
<1>1. UNCHANGED <<turn, taker, mixed, streamed, st, rest>>
  BY DEF livars
<1>2. StateIsOwn'
  BY <1>1, StateKept
<1>3. TraceIsOwn'
  BY <1>1, TraceKept
<1>4. Answers'
  BY <1>1, AnswersKept, TurnData
<1> QED
  BY <1>2, <1>3, <1>4 DEF TInv

(* Event n is logged in the trace of _state, if that has one. *)
LoggedInTurn(n, by, stage) ==
  /\ Grew({n}) /\ n \in Id
  /\ ev'[n].by = by /\ ev'[n].stage = stage /\ ev'[n].trace = TraceNow
  /\ TraceNow \in Turn => TraceNow = st.trace
  /\ st.trace \in Turn => TraceNow = st.trace

(* What a handler call logs is in the trace of _state, if it has one       *)
(* (llamaindex.py:175-179).                                                *)
LEMMA TurnLogs ==
  ASSUME TracingInv, Len(ev) < MaxInTurns, NEW by, NEW stage,
         ev' = Append(ev, [trace |-> TraceNow, parent |-> None, by |-> by,
                           stage |-> stage, status |-> "ok"]),
         lost' = lost, NEW n, n = NextId
  PROVE  LoggedInTurn(n, by, stage)
<1>1. Len(ev) < MaxEvents
  BY TurnBound, BoundAssumption DEF TracingInv, TracingTypeOK
<1> DEFINE r == [trace |-> TraceNow, parent |-> None, by |-> by, stage |-> stage, status |-> "ok"]
<1>r. r.by = by /\ r.stage = stage /\ r.trace = TraceNow
  OBVIOUS
<1>e. ev' = Append(ev, r)
  OBVIOUS
<1> HIDE DEF r
<1>2. n \in Id /\ Grew({n}) /\ ev'[n] = r
  <2>1. Grew({NextId}) /\ ev'[NextId] = r
    BY <1>e, GrewOne
  <2>2. NextId \in Id
    BY <1>1, NextNew
  <2> QED
    BY <2>1, <2>2
<1>3. /\ TraceNow \in Turn => TraceNow = st.trace
      /\ st.trace \in Turn => TraceNow = st.trace
  BY <1>2, TurnsApart DEF TraceNow
<1> QED
  BY <1>2, <1>3, <1>r DEF LoggedInTurn

(* A turn starts (llamaindex.py:191-211). *)
LEMMA TurnStartOK ==
  ASSUME TInv, LlamaIndexTypeOK, NEW t \in Task, NEW j \in Turn, TurnStart(t, j)
  PROVE  TInv' /\ Grew({})
<1> DEFINE open == {l \in Turn : turn[l] = "open"}
           closes == \E u \in Task : rest[u].what \in {"query over", "chat over", "generated"}
<1>a. /\ turn[j] = "new" /\ turn' = [turn EXCEPT ![j] = "open"]
      /\ mixed' = IF open = {} /\ ~closes THEN mixed ELSE mixed \cup {j} \cup open
      /\ st'.trace = j /\ st'.gen_logged = FALSE
      /\ UNCHANGED <<ev, lost, streamed, rest>>
  BY DEF TurnStart, Begins, tvars
<1>t. turn \in [Turn -> {"new", "open", "done"}]
  BY DEF LlamaIndexTypeOK
<1>g. Grew({})
  BY <1>a, GrewNone
<1>m. mixed \subseteq mixed'
  BY <1>a
<1>1. /\ \A k \in Turn : k # j => turn'[k] = turn[k]
      /\ turn'[j] = "open"
  BY <1>a, <1>t
<1>2. ASSUME NEW k \in Turn, Alone(k)', turn'[k] = "open" PROVE k = j /\ open = {} /\ ~closes
  BY <1>1, <1>2, <1>a DEF Alone
<1>3. ASSUME j \notin mixed' PROVE open = {} /\ ~closes
  BY <1>3, <1>a
<1> HIDE DEF closes
<1>4. StateIsOwn'
  <2> SUFFICES ASSUME NEW k \in Turn, Alone(k)', turn'[k] = "open"
               PROVE  /\ \A l \in Turn : turn'[l] = "open" => l = k
                      /\ st'.trace = k
                      /\ \A u \in Task : rest'[u].what \notin {"query over", "chat over"}
                      /\ \A u \in Task : rest'[u].what = "generated" =>
                           u = taker'[k] /\ rest'[u].after \in OfTurn(k, {"generation"})'
                      /\ st'.gen_logged => OfTurn(k, {"generation"})' # {}
                      /\ ~st'.gen_logged => \A i \in OfTurn(k, {"generation"})' :
                           i \in lost' \/ \E u \in Task :
                                            rest'[u] = [after |-> i, what |-> "generated"]
                      /\ k \in streamed' => st'.deltas
    BY DEF StateIsOwn
  <2>1. k = j /\ open = {} /\ ~closes
    BY <1>2
  <2>2. OfTurn(j, {"generation"})' = {}
    BY <1>a DEF OfTurn, TInv, TraceIsOwn
  <2>3. j \notin streamed
    BY <1>a DEF TInv, Answers
  <2> QED
    BY <2>1, <2>2, <2>3, <1>1, <1>a DEF closes
<1>5. TraceIsOwn'
  <2>1. ASSUME NEW k \in Turn, Alone(k)', st'.trace = k, NEW l \in Turn, turn'[l] = "open"
        PROVE  l = k
    BY <1>1, <1>3, <1>a, <2>1 DEF Alone
  <2>2. \A k \in Turn, i \in DOMAIN ev' : ev'[i].by = k => turn'[k] # "new"
    BY <1>1, <1>a DEF TInv, TraceIsOwn
  <2>3. TurnsKeepApart'
    BY <1>m, <1>a DEF TInv, TraceIsOwn, TurnsKeepApart
  <2> QED
    BY <2>1, <2>2, <2>3 DEF TraceIsOwn
<1>6. Answers'
  <2>1. /\ \A k \in Turn : turn[k] = "done" => turn'[k] = "done"
        /\ \A k \in Turn : turn'[k] = "done" => turn[k] = "done"
        /\ \A k \in Turn : turn[k] # "new" => turn'[k] # "new"
    BY <1>1, <1>a
  <2> QED
    BY <2>1, <1>m, <1>g, <1>a, TurnData, AnswersKept
<1> QED
  BY <1>g, <1>4, <1>5, <1>6 DEF TInv

(* Text of a chat is streamed (llamaindex.py:212-215). *)
LEMMA DeltaOK ==
  ASSUME TInv, LlamaIndexTypeOK, NEW t \in Task, NEW j \in Turn, Delta(t, j)
  PROVE  TInv' /\ Grew({})
<1>a. /\ turn[j] = "open" /\ streamed' = streamed \cup {j}
      /\ st' = [st EXCEPT !.deltas = TRUE]
      /\ UNCHANGED <<ev, lost, turn, taker, mixed, rest>>
  BY DEF Delta, Taking, tvars
<1>b. /\ st'.trace = st.trace /\ st'.gen_logged = st.gen_logged /\ st'.deltas = TRUE
  BY <1>a DEF LlamaIndexTypeOK
<1>g. Grew({})
  BY <1>a, GrewNone
<1>1. StateIsOwn'
  <2>1. \A k : OfTurn(k, {"generation"})' = OfTurn(k, {"generation"})
    BY <1>a DEF OfTurn
  <2>2. \A k : Alone(k)' <=> Alone(k)
    BY <1>a DEF Alone
  <2> QED
    BY <1>a, <1>b, <2>1, <2>2 DEF TInv, StateIsOwn
<1>2. TraceIsOwn'
  BY <1>a, <1>b, <1>g, TraceKept
<1>3. Answers'
  BY <1>a, <1>g, TurnData, AnswersKept
<1> QED
  BY <1>g, <1>1, <1>2, <1>3 DEF TInv

(* The rest of a handler call: nobody is about to reset the _state of a    *)
(* turn that is alone (llamaindex.py:212-230, 298-326).                    *)
LEMMA ResumeOK ==
  ASSUME TInv, LlamaIndexTypeOK, NEW t \in Task, Resume(t)
  PROVE  TInv' /\ Grew({})
<1>a. /\ UNCHANGED <<ev, lost, turn, taker, mixed, streamed>>
      /\ rest' = [rest EXCEPT ![t] = Nothing]
      /\ st' = IF rest[t].after \in lost THEN st ELSE Finished(st, rest[t].what)
  BY DEF Resume, tvars
<1>t. /\ rest \in [Task -> [after : Id \cup {None}, what : Rest]]
      /\ st \in [trace : Turn \cup Id \cup {None}, gen_logged : BOOLEAN, deltas : BOOLEAN]
  BY DEF LlamaIndexTypeOK
<1>g. Grew({})
  BY <1>a, GrewNone
<1>b. /\ st'.trace \in {st.trace, None}
      /\ rest[t].what \notin {"query over", "chat over"} =>
           st'.trace = st.trace /\ st'.deltas = st.deltas
      /\ rest[t].what \notin {"query over", "chat over", "generated"} =>
           st'.gen_logged = st.gen_logged
      /\ rest[t].what = "generated" =>
           st'.gen_logged = IF rest[t].after \in lost THEN st.gen_logged ELSE TRUE
  BY <1>a, <1>t DEF Finished
<1>c. /\ rest'[t] = Nothing /\ Nothing.what = "nothing"
      /\ \A u \in Task : u # t => rest'[u] = rest[u]
  BY <1>a, <1>t DEF Nothing
<1>1. StateIsOwn'
  <2> SUFFICES ASSUME NEW k \in Turn, Alone(k), turn[k] = "open"
               PROVE  /\ \A l \in Turn : turn[l] = "open" => l = k
                      /\ st'.trace = k
                      /\ \A u \in Task : rest'[u].what \notin {"query over", "chat over"}
                      /\ \A u \in Task : rest'[u].what = "generated" =>
                           u = taker[k] /\ rest'[u].after \in OfTurn(k, {"generation"})'
                      /\ st'.gen_logged => OfTurn(k, {"generation"})' # {}
                      /\ ~st'.gen_logged => \A i \in OfTurn(k, {"generation"})' :
                           i \in lost \/ \E u \in Task :
                                           rest'[u] = [after |-> i, what |-> "generated"]
                      /\ k \in streamed => st'.deltas
    BY <1>a DEF StateIsOwn, Alone
  <2> DEFINE G == OfTurn(k, {"generation"})
  <2>1. /\ \A l \in Turn : turn[l] = "open" => l = k
        /\ st.trace = k
        /\ \A u \in Task : rest[u].what \notin {"query over", "chat over"}
        /\ \A u \in Task : rest[u].what = "generated" => u = taker[k] /\ rest[u].after \in G
        /\ st.gen_logged => G # {}
        /\ ~st.gen_logged => \A i \in G :
             i \in lost \/ \E u \in Task : rest[u] = [after |-> i, what |-> "generated"]
        /\ k \in streamed => st.deltas
    BY DEF TInv, StateIsOwn
  <2>2. G' = G
    BY <1>a DEF OfTurn
  <2> HIDE DEF G
  <2>3. st'.trace = st.trace /\ st'.deltas = st.deltas
    BY <1>b, <2>1
  <2>4. /\ \A u \in Task : rest'[u].what \notin {"query over", "chat over"}
        /\ \A u \in Task : rest'[u].what = "generated" => rest'[u] = rest[u]
    BY <1>c, <2>1
  <2>5. st'.gen_logged => G # {}
    BY <1>b, <2>1
  <2>6. ASSUME ~st'.gen_logged, NEW i \in G, i \notin lost
        PROVE  \E u \in Task : rest'[u] = [after |-> i, what |-> "generated"]
    <3>1. ~st.gen_logged
      BY <1>b, <2>1, <2>6
    <3>2. PICK u \in Task : rest[u] = [after |-> i, what |-> "generated"]
      BY <2>1, <2>6, <3>1
    <3>3. rest[u].after = i /\ rest[u].what = "generated"
      <4>1. /\ [after |-> i, what |-> "generated"].what = "generated"
            /\ [after |-> i, what |-> "generated"].after = i
        OBVIOUS
      <4> QED
        BY <3>2, <4>1
    <3>4. u # t
      BY <1>b, <2>6, <3>3
    <3> QED
      BY <1>c, <3>2, <3>4
  <2>7. \A u \in Task : rest'[u].what = "generated" => u = taker[k] /\ rest'[u].after \in G
    BY <2>1, <2>4
  <2> QED
    BY <2>1, <2>2, <2>3, <2>4, <2>5, <2>6, <2>7 DEF G
<1>2. TraceIsOwn'
  <2>1. st'.trace \in Turn => st'.trace = st.trace
    BY <1>b, TurnsApart
  <2> QED
    BY <1>a, <1>g, <2>1, TraceKept
<1>3. Answers'
  BY <1>a, <1>g, TurnData, AnswersKept
<1> QED
  BY <1>g, <1>1, <1>2, <1>3 DEF TInv

(* An event n of a handler call, and what is left of the call. *)
LeavesOf(t, n, by, stage, what) ==
  /\ Grew({n}) /\ n \in Id
  /\ ev'[n].by = by /\ ev'[n].stage = stage /\ ev'[n].trace = TraceNow
  /\ TraceNow \in Turn => TraceNow = st.trace
  /\ st.trace \in Turn => TraceNow = st.trace
  /\ what \in {"nothing", "generated", "chunking"} => st'.trace = TraceNow
  /\ st'.trace \in {TraceNow, None}
  /\ what # "chat over" => st'.deltas = st.deltas
  /\ st'.gen_logged = IF t \in OnLoop /\ what = "generated" THEN TRUE ELSE st.gen_logged
  /\ t \in OnLoop => rest' = rest
  /\ t \notin OnLoop => /\ rest'[t] = [after |-> n, what |-> what]
                        /\ \A u \in Task : u # t => rest'[u] = rest[u]

(* A handler call in a thread goes on after the write. *)
LEMMA InTurn ==
  ASSUME TracingInv, LlamaIndexTypeOK, NEW t \in Task, NEW by, NEW stage, NEW what,
         LogInTurn(t, by, stage, what), NEW n, n = NextId
  PROVE  LeavesOf(t, n, by, stage, what)
<1>1. lost' = lost
  BY SubmitKeeps DEF LogInTurn
<1>2. /\ Grew({n}) /\ n \in Id
      /\ ev'[n].by = by /\ ev'[n].stage = stage /\ ev'[n].trace = TraceNow
      /\ TraceNow \in Turn => TraceNow = st.trace
      /\ st.trace \in Turn => TraceNow = st.trace
  <2>1. /\ Len(ev) < MaxInTurns
        /\ ev' = Append(ev, [trace |-> TraceNow, parent |-> None, by |-> by,
                             stage |-> stage, status |-> "ok"])
    BY DEF LogInTurn
  <2> HIDE DEF LogInTurn
  <2>2. LoggedInTurn(n, by, stage)
    BY <1>1, <2>1, TurnLogs
  <2> QED
    BY <2>2 DEF LoggedInTurn
<1> DEFINE s == [st EXCEPT !.trace = TraceNow]
<1>t. /\ rest \in [Task -> [after : Id \cup {None}, what : Rest]]
      /\ st \in [trace : Turn \cup Id \cup {None}, gen_logged : BOOLEAN, deltas : BOOLEAN]
  BY DEF LlamaIndexTypeOK
<1>3. /\ s.trace = TraceNow /\ s.gen_logged = st.gen_logged /\ s.deltas = st.deltas
      /\ DOMAIN s = {"trace", "gen_logged", "deltas"}
  BY <1>t
<1>4. IF t \in OnLoop THEN st' = Finished(s, what) /\ rest' = rest
      ELSE st' = s /\ rest' = [rest EXCEPT ![t] = [after |-> n, what |-> what]]
  BY DEF LogInTurn
<1> HIDE DEF s
<1>5. CASE t \notin OnLoop
  BY <1>2, <1>3, <1>4, <1>5, <1>t DEF LeavesOf
<1>6. CASE t \in OnLoop
  <2>1. /\ what \in {"nothing", "generated", "chunking"} => st'.trace = s.trace
        /\ st'.trace \in {s.trace, None}
        /\ what # "chat over" => st'.deltas = s.deltas
        /\ st'.gen_logged = IF what = "generated" THEN TRUE ELSE s.gen_logged
    BY <1>3, <1>4, <1>6 DEF Finished
  <2> QED
    BY <2>1, <1>2, <1>3, <1>4, <1>6 DEF LeavesOf
<1> QED
  BY <1>5, <1>6

(* A stage of a turn is logged, or a wrapped postprocessor logs one        *)
(* (llamaindex.py:232-296, 341-363).                                       *)
LEMMA StageOK ==
  ASSUME TracingInv, TInv, LlamaIndexTypeOK, NEW t \in Task, NEW j \in Turn,
         StageEnd(t, j) \/ Postprocess(t, j), NEW n, n = NextId
  PROVE  TInv' /\ Grew({n}) /\ n \in Id /\ ev'[n].by = j
<1>a. turn[j] = "open" /\ rest[t] = Nothing /\ UNCHANGED <<turn, taker, mixed, streamed>>
  BY DEF StageEnd, Postprocess, Taking, Ready, livars
<1>1. /\ Grew({n}) /\ n \in Id /\ ev'[n].by = j /\ ev'[n].stage = "stage"
      /\ ev'[n].trace = TraceNow
      /\ TraceNow \in Turn => TraceNow = st.trace
      /\ st.trace \in Turn => TraceNow = st.trace
      /\ st'.gen_logged = st.gen_logged /\ st'.deltas = st.deltas
      /\ st'.trace \in {TraceNow, st.trace}
      /\ \A u \in Task : \/ rest'[u] = rest[u]
                         \/ rest[u] = Nothing /\ rest'[u] = [after |-> n, what |-> "nothing"]
  <2>1. CASE StageEnd(t, j)
    <3>1. LogInTurn(t, j, "stage", "nothing")
      BY <2>1 DEF StageEnd
    <3>2. LeavesOf(t, n, j, "stage", "nothing")
      BY <3>1, InTurn
    <3> QED
      BY <1>a, <3>2 DEF LeavesOf
  <2>2. CASE Postprocess(t, j)
    <3>1. lost' = lost
      BY <2>2, SubmitKeeps DEF Postprocess
    <3>2. UNCHANGED <<st, rest>> /\ Len(ev) < MaxInTurns
          /\ ev' = Append(ev, [trace |-> TraceNow, parent |-> None, by |-> j,
                               stage |-> "stage", status |-> "ok"])
      BY <2>2 DEF Postprocess, livars
    <3>3. LoggedInTurn(n, j, "stage")
      BY <3>1, <3>2, TurnLogs
    <3> QED
      BY <3>2, <3>3 DEF LoggedInTurn
  <2> QED
    BY <2>1, <2>2
<1>2. StateIsOwn'
  <2>1. [after |-> n, what |-> "nothing"].what = "nothing" /\ Nothing.what = "nothing"
    BY DEF Nothing
  <2>2. \A u \in Task : \/ rest'[u] = rest[u]
                        \/ /\ rest[u].what # "generated"
                           /\ rest'[u].what \notin {"generated", "query over", "chat over"}
    BY <1>1, <2>1
  <2>3. st.trace \in Turn => st'.trace = st.trace
    BY <1>1
  <2>4. \A i \in {n} : ev'[i].by \notin Turn \/ ev'[i].stage # "generation"
    BY <1>1
  <2> QED
    BY <1>1, <1>a, <2>2, <2>3, <2>4, StateKept
<1>3. TraceIsOwn'
  BY <1>1, <1>a, TraceKept
<1>4. Answers'
  BY <1>1, <1>a, TurnData, AnswersKept
<1> QED
  BY <1>1, <1>2, <1>3, <1>4 DEF TInv

(* A generation of a turn is logged; in a thread gen_logged is set after   *)
(* the write (llamaindex.py:268-296).                                      *)
LEMMA LlmEndOK ==
  ASSUME TracingInv, TInv, LlamaIndexTypeOK, NEW t \in Task, NEW j \in Turn,
         LlmEnd(t, j), NEW n, n = NextId
  PROVE  TInv' /\ Grew({n}) /\ n \in Id /\ ev'[n].by = j
<1>a. /\ turn[j] = "open" /\ taker[j] = t /\ rest[t] = Nothing
      /\ UNCHANGED <<turn, taker, mixed, streamed>>
      /\ LogInTurn(t, j, "generation", "generated")
  BY DEF LlmEnd, Taking, Ready
<1>1. /\ Grew({n}) /\ n \in Id /\ ev'[n].by = j /\ ev'[n].stage = "generation"
      /\ ev'[n].trace = TraceNow /\ st'.trace = TraceNow
      /\ TraceNow \in Turn => TraceNow = st.trace
      /\ st.trace \in Turn => TraceNow = st.trace
      /\ st'.deltas = st.deltas
      /\ st'.gen_logged = IF t \in OnLoop THEN TRUE ELSE st.gen_logged
      /\ t \in OnLoop => rest' = rest
      /\ t \notin OnLoop => /\ rest'[t] = [after |-> n, what |-> "generated"]
                            /\ \A u \in Task : u # t => rest'[u] = rest[u]
  <2>1. LeavesOf(t, n, j, "generation", "generated")
    BY <1>a, InTurn
  <2> QED
    BY <2>1 DEF LeavesOf
<1>2. StateIsOwn'
  <2> SUFFICES ASSUME NEW k \in Turn, Alone(k), turn[k] = "open"
               PROVE  /\ \A l \in Turn : turn[l] = "open" => l = k
                      /\ st'.trace = k
                      /\ \A u \in Task : rest'[u].what \notin {"query over", "chat over"}
                      /\ \A u \in Task : rest'[u].what = "generated" =>
                           u = taker[k] /\ rest'[u].after \in OfTurn(k, {"generation"})'
                      /\ st'.gen_logged => OfTurn(k, {"generation"})' # {}
                      /\ ~st'.gen_logged => \A i \in OfTurn(k, {"generation"})' :
                           i \in lost' \/ \E u \in Task :
                                            rest'[u] = [after |-> i, what |-> "generated"]
                      /\ k \in streamed => st'.deltas
    BY <1>a DEF StateIsOwn, Alone
  <2> DEFINE G == OfTurn(k, {"generation"})
  <2>1. /\ \A l \in Turn : turn[l] = "open" => l = k
        /\ st.trace = k
        /\ \A u \in Task : rest[u].what \notin {"query over", "chat over"}
        /\ \A u \in Task : rest[u].what = "generated" => u = taker[k] /\ rest[u].after \in G
        /\ ~st.gen_logged => \A i \in G :
             i \in lost \/ \E u \in Task : rest[u] = [after |-> i, what |-> "generated"]
        /\ k \in streamed => st.deltas
    BY DEF TInv, StateIsOwn
  <2>2. k = j
    BY <1>a, <2>1
  <2>3. G' = G \cup {n}
    <3>1. G' = G \cup {i \in {n} : ev'[i].by = k /\ ev'[i].stage \in {"generation"}}
      BY <1>1, OfTurnGrows
    <3> QED
      BY <1>1, <2>2, <3>1
  <2> HIDE DEF G
  <2>4. /\ [after |-> n, what |-> "generated"].what = "generated"
        /\ [after |-> n, what |-> "generated"].after = n
        /\ Nothing.what = "nothing"
    BY DEF Nothing
  <2>5. \A u \in Task : /\ rest'[u].what \notin {"query over", "chat over"}
                        /\ rest'[u].what = "generated" => u = taker[k] /\ rest'[u].after \in G'
    <3>1. CASE rest' = rest
      BY <3>1, <2>1, <2>3
    <3>2. CASE /\ rest'[t] = [after |-> n, what |-> "generated"]
               /\ \A u \in Task : u # t => rest'[u] = rest[u]
      <4>1. rest'[t].what = "generated" /\ rest'[t].after = n
        BY <2>4, <3>2
      <4>2. t = taker[k] /\ n \in G'
        BY <1>a, <2>2, <2>3
      <4> QED
        BY <3>2, <4>1, <4>2, <2>1, <2>3
    <3> QED
      BY <1>1, <3>1, <3>2
  <2>6. ASSUME ~st'.gen_logged, NEW i \in G', i \notin lost'
        PROVE  \E u \in Task : rest'[u] = [after |-> i, what |-> "generated"]
    <3>1. ~st.gen_logged /\ t \notin OnLoop
      BY <1>1, <2>6
    <3>2. CASE i = n
      BY <1>1, <3>1, <3>2
    <3>3. CASE i \in G
      <4>1. i \notin lost
        BY <1>1, <2>6 DEF Grew
      <4>2. PICK u \in Task : rest[u] = [after |-> i, what |-> "generated"]
        BY <2>1, <3>1, <3>3, <4>1
      <4>3. rest[u].what = "generated"
        <5>1. [after |-> i, what |-> "generated"].what = "generated"
          OBVIOUS
        <5> QED
          BY <4>2, <5>1
      <4>4. u # t
        BY <1>a, <2>4, <4>3
      <4> QED
        BY <1>1, <3>1, <4>2, <4>4
    <3> QED
      BY <2>3, <2>6, <3>2, <3>3
  <2>7. st'.trace = k /\ G' # {} /\ (k \in streamed => st'.deltas)
    BY <1>1, <2>1, <2>3
  <2> QED
    BY <2>1, <2>5, <2>6, <2>7 DEF G
<1>3. TraceIsOwn'
  BY <1>1, <1>a, TraceKept
<1>4. Answers'
  BY <1>1, <1>a, TurnData, AnswersKept
<1> QED
  BY <1>1, <1>2, <1>3, <1>4 DEF TInv

(* A query ends (llamaindex.py:218-222). *)
LEMMA QueryEndOK ==
  ASSUME TracingInv, TInv, LlamaIndexTypeOK, NEW t \in Task, NEW j \in Turn,
         QueryEnd(t, j), NEW n, n = NextId
  PROVE  TInv' /\ Grew({n}) /\ n \in Id /\ ev'[n].by = j
<1>a. /\ turn[j] = "open" /\ j \notin Chat /\ UNCHANGED <<mixed, streamed>>
      /\ turn' = [turn EXCEPT ![j] = "done"] /\ turn \in [Turn -> {"new", "open", "done"}]
      /\ LogInTurn(t, j, "boundary", "query over")
  BY DEF QueryEnd, Taking, LlamaIndexTypeOK
<1>b. /\ turn'[j] = "done"
      /\ \A k \in Turn : k # j => turn'[k] = turn[k]
  BY <1>a
<1>1. LeavesOf(t, n, j, "boundary", "query over")
  BY <1>a, InTurn
<1>2. StateIsOwn'
  BY <1>a, StateFreed
<1>3. TraceIsOwn'
  <2>1. st'.trace \in Turn => st'.trace = st.trace
    BY <1>1, TurnsApart DEF LeavesOf
  <2>2. \A i \in {n} : /\ ev'[i].by \in Turn /\ turn[ev'[i].by] = "open"
                       /\ ev'[i].trace \in Turn => ev'[i].trace = st.trace
                       /\ st.trace \in Turn => ev'[i].trace = st.trace
    BY <1>1, <1>a DEF LeavesOf
  <2>3. Grew({n})
    BY <1>1 DEF LeavesOf
  <2> QED
    BY <1>a, <1>b, <2>1, <2>2, <2>3, TraceKept
<1>4. Answers'
  <2>1. \A i \in {n} : ev'[i].by \in Turn /\ turn[ev'[i].by] = "open" /\ ev'[i].stage # "answer"
    BY <1>1, <1>a DEF LeavesOf
  <2>2. Grew({n})
    BY <1>1 DEF LeavesOf
  <2>3. \A k \in Chat : turn'[k] = "done" => turn[k] = "done"
    BY <1>a, <1>b, TurnData
  <2> QED
    BY <1>a, <1>b, <2>1, <2>2, <2>3, TurnData, AnswersKept
<1> QED
  BY <1>1, <1>2, <1>3, <1>4 DEF TInv, LeavesOf

(* A chat that is alone has its answer logged at its end if no model event *)
(* did: every generation of it was lost, since its task, which would go on *)
(* with one, is ready (llamaindex.py:223-230, 298-326).                    *)
LEMMA ChatAnswers ==
  ASSUME TInv, LlamaIndexTypeOK, NEW t \in Task, NEW j \in Turn, Taking(t, j), Alone(j)
  PROVE  /\ OfTurn(j, {"answer"}) = {}
         /\ st.trace = j
         /\ ~st.gen_logged => OfTurn(j, {"generation"}) \subseteq lost
         /\ st.gen_logged => OfTurn(j, {"generation"}) # {}
         /\ j \in streamed => st.deltas
<1>a. turn[j] = "open" /\ taker[j] = t /\ rest[t] = Nothing
  BY DEF Taking, Ready
<1>1. /\ st.trace = j
      /\ \A u \in Task : rest[u].what = "generated" => u = taker[j]
      /\ st.gen_logged => OfTurn(j, {"generation"}) # {}
      /\ ~st.gen_logged => \A i \in OfTurn(j, {"generation"}) :
           i \in lost \/ \E u \in Task : rest[u] = [after |-> i, what |-> "generated"]
      /\ j \in streamed => st.deltas
  BY <1>a DEF TInv, StateIsOwn
<1>2. ASSUME NEW i, NEW u \in Task PROVE rest[u] # [after |-> i, what |-> "generated"]
  <2>1. [after |-> i, what |-> "generated"].what = "generated" /\ Nothing.what = "nothing"
    BY DEF Nothing
  <2>2. rest[u].what # "generated"
    BY <1>a, <1>1, <2>1
  <2> QED
    BY <2>1, <2>2
<1>3. OfTurn(j, {"answer"}) = {}
  BY <1>a DEF TInv, Answers
<1> QED
  BY <1>1, <1>2, <1>3

(* A chat ends (llamaindex.py:223-230). *)
LEMMA ChatEndOK ==
  ASSUME TracingInv, TInv, LlamaIndexTypeOK, NEW t \in Task, NEW j \in Turn,
         ChatEnd(t, j), NEW n, n = NextId
  PROVE  TInv' /\ (Grew({}) \/ (Grew({n}) /\ n \in Id /\ ev'[n].by = j))
<1>a. /\ Taking(t, j) /\ turn[j] = "open" /\ j \in Chat /\ UNCHANGED <<mixed, streamed>>
      /\ turn' = [turn EXCEPT ![j] = "done"] /\ turn \in [Turn -> {"new", "open", "done"}]
      /\ \/ ~st.gen_logged /\ LogInTurn(t, j, "answer", "chat over")
         \/ /\ st.gen_logged \/ ~st.deltas
            /\ st' = Finished(st, "chat over")
            /\ UNCHANGED <<tvars, rest>>
  BY DEF ChatEnd, Taking, LlamaIndexTypeOK
<1>b. /\ turn'[j] = "done"
      /\ \A k \in Turn : k # j => turn'[k] = turn[k]
  BY <1>a
<1>1. StateIsOwn'
  BY <1>a, StateFreed
<1>2. \A k \in Turn : OfTurn(k, {"answer"}) # {} => turn[k] = "done"
  BY DEF TInv, Answers
<1>3. \A k \in Turn : k \in streamed' => turn'[k] # "new"
  BY <1>a, <1>b DEF TInv, Answers
<1>4. CASE ~st.gen_logged /\ LogInTurn(t, j, "answer", "chat over")
  <2>1. LeavesOf(t, n, j, "answer", "chat over")
    BY <1>4, InTurn
  <2>2. Grew({n}) /\ ev'[n].by = j /\ ev'[n].stage = "answer" /\ n \in Id
    BY <2>1 DEF LeavesOf
  <2>3. TraceIsOwn'
    <3>1. st'.trace \in Turn => st'.trace = st.trace
      BY <2>1, TurnsApart DEF LeavesOf
    <3>2. \A i \in {n} : /\ ev'[i].by \in Turn /\ turn[ev'[i].by] = "open"
                         /\ ev'[i].trace \in Turn => ev'[i].trace = st.trace
                         /\ st.trace \in Turn => ev'[i].trace = st.trace
      BY <2>1, <1>a DEF LeavesOf
    <3> QED
      BY <1>a, <1>b, <2>2, <3>1, <3>2, TraceKept
  <2>4. Answers'
    <3>1. ASSUME NEW k \in Turn, k # j, NEW stages
          PROVE  OfTurn(k, stages)' = OfTurn(k, stages)
      <4>1. \A i \in {n} : ~(ev'[i].by = k /\ ev'[i].stage \in stages)
        BY <2>2, <3>1
      <4> QED
        BY <2>2, <4>1, OfTurnSame
    <3>2. \A k \in Turn : turn'[k] # "done" => OfTurn(k, {"answer"})' = {}
      BY <1>2, <1>b, <3>1
    <3>3. ASSUME NEW k \in Chat \ mixed', k # j
          PROVE  /\ OfTurn(k, {"answer"})' # {} => OfTurn(k, {"generation"})' \subseteq lost'
                 /\ (k \in streamed' /\ turn'[k] = "done")
                      => OfTurn(k, {"answer", "generation"})' # {}
      <4>1. k \in Turn /\ k \in Chat \ mixed /\ turn'[k] = turn[k]
        BY <1>a, <1>b, <3>3, TurnData
      <4>2. /\ OfTurn(k, {"answer"})' = OfTurn(k, {"answer"})
            /\ OfTurn(k, {"generation"})' = OfTurn(k, {"generation"})
            /\ OfTurn(k, {"answer", "generation"})' = OfTurn(k, {"answer", "generation"})
        BY <3>1, <3>3, <4>1
      <4>3. lost \subseteq lost'
        BY <2>2 DEF Grew
      <4> QED
        BY <1>a, <4>1, <4>2, <4>3 DEF TInv, Answers, AnswerLoggedOnce
    <3>4. ASSUME j \notin mixed'
          PROVE  /\ OfTurn(j, {"generation"})' \subseteq lost'
                 /\ OfTurn(j, {"answer", "generation"})' # {}
      <4>1. Alone(j)
        BY <1>a, <3>4 DEF Alone
      <4>2. OfTurn(j, {"generation"}) \subseteq lost
        BY <1>a, <1>4, <4>1, ChatAnswers
      <4>3. OfTurn(j, {"generation"})' = OfTurn(j, {"generation"})
        <5>1. \A i \in {n} : ~(ev'[i].by = j /\ ev'[i].stage \in {"generation"})
          BY <2>2
        <5> QED
          BY <2>2, <5>1, OfTurnSame
      <4>4. n \in OfTurn(j, {"answer", "generation"})'
        BY <2>2 DEF OfTurn, Grew
      <4> QED
        BY <2>2, <4>2, <4>3, <4>4 DEF Grew
    <3> QED
      BY <1>3, <3>2, <3>3, <3>4 DEF Answers, AnswerLoggedOnce
  <2> QED
    BY <1>1, <2>2, <2>3, <2>4 DEF TInv
<1>5. CASE /\ st.gen_logged \/ ~st.deltas
           /\ st' = Finished(st, "chat over")
           /\ UNCHANGED <<tvars, rest>>
  <2>1. UNCHANGED <<ev, lost>> /\ st'.trace = None
    BY <1>5 DEF tvars, Finished, LlamaIndexTypeOK
  <2>2. Grew({})
    BY <2>1, GrewNone
  <2>3. TraceIsOwn'
    <3>1. st'.trace \in Turn => st'.trace = st.trace
      BY <2>1, TurnsApart
    <3> QED
      BY <1>a, <1>b, <2>2, <3>1, TraceKept
  <2>4. \A k, stages : OfTurn(k, stages)' = OfTurn(k, stages)
    BY <2>1 DEF OfTurn
  <2>5. Answers'
    <3>1. \A k \in Turn : turn'[k] # "done" => OfTurn(k, {"answer"})' = {}
      BY <1>2, <1>b, <2>4
    <3>2. ASSUME NEW k \in Chat \ mixed', k # j
          PROVE  /\ OfTurn(k, {"answer"})' # {} => OfTurn(k, {"generation"})' \subseteq lost'
                 /\ (k \in streamed' /\ turn'[k] = "done")
                      => OfTurn(k, {"answer", "generation"})' # {}
      <4>1. k \in Turn /\ k \in Chat \ mixed /\ turn'[k] = turn[k]
        BY <1>a, <1>b, <3>2, TurnData
      <4> QED
        BY <1>a, <2>1, <2>4, <4>1 DEF TInv, Answers, AnswerLoggedOnce
    <3>3. ASSUME j \notin mixed'
          PROVE  /\ OfTurn(j, {"answer"})' = {}
                 /\ j \in streamed' => OfTurn(j, {"answer", "generation"})' # {}
      <4>1. Alone(j)
        BY <1>a, <3>3 DEF Alone
      <4>2. /\ OfTurn(j, {"answer"}) = {}
            /\ st.gen_logged => OfTurn(j, {"generation"}) # {}
            /\ j \in streamed => st.deltas
        BY <1>a, <4>1, ChatAnswers
      <4>3. OfTurn(j, {"generation"}) \subseteq OfTurn(j, {"answer", "generation"})
        BY DEF OfTurn
      <4> QED
        BY <1>a, <1>5, <2>4, <4>2, <4>3
    <3> QED
      BY <1>3, <3>1, <3>2, <3>3 DEF Answers, AnswerLoggedOnce
  <2> QED
    BY <1>1, <2>2, <2>3, <2>5 DEF TInv
<1> QED
  BY <1>a, <1>4, <1>5

(* What ingestion logs, it logs in the trace of _state, if it has one, and *)
(* changes nothing else of it (llamaindex.py:252-267).                     *)
LEMMA IngestKeeps ==
  ASSUME TInv, LlamaIndexTypeOK, UNCHANGED <<turn, taker, mixed, streamed>>,
         st'.gen_logged = st.gen_logged, st'.deltas = st.deltas,
         st'.trace \in {TraceNow, st.trace},
         TraceNow \in Turn => TraceNow = st.trace,
         st.trace \in Turn => TraceNow = st.trace,
         \A u \in Task :
           \/ rest'[u] = rest[u]
           \/ /\ rest[u].what # "generated"
              /\ rest'[u].what \notin {"generated", "query over", "chat over"},
         NEW New, Grew(New),
         \A i \in New : ev'[i].by = "ingest" /\ ev'[i].trace = TraceNow
  PROVE  TInv'
<1>1. \A i \in New : ev'[i].by \notin Turn
  BY MakersApart
<1>2. StateIsOwn'
  BY <1>1, StateKept
<1>3. TraceIsOwn'
  BY <1>1, TraceKept
<1>4. Answers'
  BY <1>1, TurnData, AnswersKept
<1> QED
  BY <1>2, <1>3, <1>4 DEF TInv

(* A batch of embeddings ends. *)
LEMMA IngestEndOK ==
  ASSUME TracingInv, TInv, LlamaIndexTypeOK, NEW t \in Task, IngestEnd(t)
  PROVE  /\ TInv'
         /\ \E New \in SUBSET Id : Grew(New) /\ \A i \in New : ev'[i].by = "ingest"
<1>a. rest[t] = Nothing /\ UNCHANGED <<turn, taker, mixed, streamed>>
  BY DEF IngestEnd, Ready
<1>n. PICK n : n = NextId
  OBVIOUS
<1>1. CASE t \notin OnLoop
  <2>1. LeavesOf(t, n, "ingest", "embedding", "chunking")
    <3>1. LogInTurn(t, "ingest", "embedding", "chunking")
      BY <1>1 DEF IngestEnd
    <3> QED
      BY <1>n, <3>1, InTurn
  <2>2. /\ Grew({n}) /\ n \in Id /\ ev'[n].by = "ingest" /\ ev'[n].trace = TraceNow
        /\ st'.gen_logged = st.gen_logged /\ st'.deltas = st.deltas /\ st'.trace = TraceNow
        /\ TraceNow \in Turn => TraceNow = st.trace
        /\ st.trace \in Turn => TraceNow = st.trace
        /\ rest'[t] = [after |-> n, what |-> "chunking"]
        /\ \A u \in Task : u # t => rest'[u] = rest[u]
    BY <1>1, <2>1 DEF LeavesOf
  <2>3. [after |-> n, what |-> "chunking"].what = "chunking" /\ Nothing.what = "nothing"
    BY DEF Nothing
  <2>4. \A u \in Task : \/ rest'[u] = rest[u]
                        \/ /\ rest[u].what # "generated"
                           /\ rest'[u].what \notin {"generated", "query over", "chat over"}
    BY <1>a, <2>2, <2>3
  <2>5. \A i \in {n} : ev'[i].by = "ingest" /\ ev'[i].trace = TraceNow
    BY <2>2
  <2>6. TInv'
    BY <1>a, <2>2, <2>4, <2>5, IngestKeeps
  <2>7. {n} \in SUBSET Id
    BY <2>2
  <2> QED
    BY <2>2, <2>5, <2>6, <2>7
<1>2. CASE t \in OnLoop
  <2> DEFINE e1 == IngestEvent("embedding")
             e2 == IngestEvent("chunking")
  <2>1. /\ NextId < MaxInTurns /\ ev' = ev \o <<e1, e2>> /\ UNCHANGED <<lost, rest>>
        /\ st' = [st EXCEPT !.trace = TraceNow]
    BY <1>2 DEF IngestEnd
  <2>2. /\ e1.by = "ingest" /\ e1.trace = TraceNow
        /\ e2.by = "ingest" /\ e2.trace = TraceNow
    BY DEF IngestEvent
  <2> HIDE DEF e1, e2
  <2>3. /\ DOMAIN ev' = DOMAIN ev \cup {n, n + 1} /\ n \in Nat
        /\ n \notin DOMAIN ev /\ n + 1 \notin DOMAIN ev
        /\ \A i \in DOMAIN ev : ev'[i] = ev[i]
        /\ ev'[n] = e1 /\ ev'[n + 1] = e2
        /\ n \in Id /\ n + 1 \in Id
    <3>1. ev \in Seq(Record)
      BY DEF TracingInv
    <3>2. Len(ev) \in Nat /\ DOMAIN ev = 1..Len(ev) /\ n = Len(ev) + 1
      BY <3>1, <1>n DEF NextId
    <3>3. n \in Id /\ n + 1 \in Id
      BY <2>1, <3>2, <1>n, TurnBound, BoundAssumption DEF Id
    <3>4. /\ Len(<<e1, e2>>) = 2 /\ <<e1, e2>>[1] = e1 /\ <<e1, e2>>[2] = e2
          /\ <<e1, e2>> \in Seq({e1, e2})
      OBVIOUS
    <3>5. ev \in Seq(Record \cup {e1, e2}) /\ <<e1, e2>> \in Seq(Record \cup {e1, e2})
      BY <3>1
    <3>6. /\ Len(ev') = Len(ev) + 2 /\ DOMAIN ev' = 1..(Len(ev) + 2)
          /\ \A i \in 1..Len(ev) : ev'[i] = ev[i]
          /\ ev'[Len(ev) + 1] = e1 /\ ev'[Len(ev) + 2] = e2
      BY <2>1, <3>2, <3>4, <3>5
    <3> QED
      BY <3>2, <3>3, <3>6
  <2>4. Grew({n, n + 1})
    BY <2>1, <2>3 DEF Grew
  <2>5. \A i \in {n, n + 1} : ev'[i].by = "ingest" /\ ev'[i].trace = TraceNow
    BY <2>2, <2>3
  <2>6. /\ TraceNow \in Turn => TraceNow = st.trace
        /\ st.trace \in Turn => TraceNow = st.trace
    BY <1>n, <2>3, TurnsApart DEF TraceNow
  <2>7. st'.trace = TraceNow /\ st'.gen_logged = st.gen_logged /\ st'.deltas = st.deltas
    BY <2>1 DEF LlamaIndexTypeOK
  <2>8. TInv'
    BY <1>a, <2>1, <2>4, <2>5, <2>6, <2>7, IngestKeeps
  <2>9. {n, n + 1} \in SUBSET Id
    BY <2>3
  <2> QED
    BY <2>4, <2>5, <2>8, <2>9
<1> QED
  BY <1>1, <1>2

(* The rest of it in a thread. *)
LEMMA IngestRestOK ==
  ASSUME TracingInv, TInv, LlamaIndexTypeOK, NEW t \in Task, IngestRest(t)
  PROVE  /\ TInv'
         /\ \E New \in SUBSET Id : Grew(New) /\ \A i \in New : ev'[i].by = "ingest"
<1>a. /\ rest[t].what = "chunking" /\ UNCHANGED <<turn, taker, mixed, streamed>>
      /\ rest' = [rest EXCEPT ![t] = Nothing] /\ Nothing.what = "nothing"
  BY DEF IngestRest, Nothing
<1>1. \A u \in Task : \/ rest'[u] = rest[u]
                      \/ /\ rest[u].what # "generated"
                         /\ rest'[u].what \notin {"generated", "query over", "chat over"}
  BY <1>a DEF LlamaIndexTypeOK
<1>n. PICK n : n = NextId
  OBVIOUS
<1>2. CASE rest[t].after \in lost
  <2>1. UNCHANGED <<ev, lost, st>>
    BY <1>2 DEF IngestRest, tvars
  <2>2. Grew({}) /\ {} \in SUBSET Id
    BY <2>1, GrewNone
  <2>3. StateIsOwn'
    BY <1>1, <1>a, <2>1, <2>2, StateKept
  <2>4. TraceIsOwn'
    BY <1>a, <2>1, <2>2, TraceKept
  <2>5. Answers'
    BY <1>a, <2>1, <2>2, TurnData, AnswersKept
  <2> QED
    BY <2>2, <2>3, <2>4, <2>5 DEF TInv
<1>3. CASE rest[t].after \notin lost
  <2>1. /\ Len(ev) < MaxInTurns /\ Submit(t, NextId, TRUE)
        /\ ev' = Append(ev, [trace |-> TraceNow, parent |-> None, by |-> "ingest",
                             stage |-> "chunking", status |-> "ok"])
        /\ st' = [st EXCEPT !.trace = TraceNow]
    BY <1>3 DEF IngestRest, IngestEvent
  <2>2. lost' = lost
    BY <2>1, SubmitKeeps
  <2>3. /\ Grew({n}) /\ n \in Id /\ ev'[n].by = "ingest" /\ ev'[n].trace = TraceNow
        /\ TraceNow \in Turn => TraceNow = st.trace
        /\ st.trace \in Turn => TraceNow = st.trace
    <3>1. LoggedInTurn(n, "ingest", "chunking")
      BY <1>n, <2>1, <2>2, TurnLogs
    <3> QED
      BY <3>1 DEF LoggedInTurn
  <2>4. st'.trace = TraceNow /\ st'.gen_logged = st.gen_logged /\ st'.deltas = st.deltas
    BY <2>1 DEF LlamaIndexTypeOK
  <2>5. \A i \in {n} : ev'[i].by = "ingest" /\ ev'[i].trace = TraceNow
    BY <2>3
  <2>6. TInv'
    BY <1>1, <1>a, <2>3, <2>4, <2>5, IngestKeeps
  <2>7. {n} \in SUBSET Id
    BY <2>3
  <2> QED
    BY <2>3, <2>5, <2>6, <2>7
<1> QED
  BY <1>2, <1>3

(* A step of the LlamaIndex handler keeps the turns apart, and what it     *)
(* logs is in the name of a turn or of ingestion (llamaindex.py:188-363).  *)
LEMMA LlamaIndexKeeps ==
  ASSUME TracingInv, TInv, LlamaIndexTypeOK, NEW t \in Task, LlamaIndexStep(t)
  PROVE  /\ TInv'
         /\ \E New \in SUBSET Id :
              Grew(New) /\ \A i \in New : ev'[i].by \in Turn \cup {"ingest"}
<1> DEFINE Made == \E New \in SUBSET Id :
                     Grew(New) /\ \A i \in New : ev'[i].by \in Turn \cup {"ingest"}
<1>i. PICK n : n = NextId
  OBVIOUS
<1>n. ASSUME Grew({}) PROVE Made
  <2>1. {} \in SUBSET Id
    OBVIOUS
  <2> QED
    BY <1>n, <2>1
<1>o. ASSUME NEW j \in Turn, Grew({n}), n \in Id, ev'[n].by = j PROVE Made
  <2>1. {n} \in SUBSET Id
    BY <1>o
  <2>2. \A i \in {n} : ev'[i].by \in Turn \cup {"ingest"}
    BY <1>o
  <2> QED
    BY <1>o, <2>1, <2>2
<1>p. ASSUME \E New \in SUBSET Id : Grew(New) /\ \A i \in New : ev'[i].by = "ingest" PROVE Made
  BY <1>p
<1> HIDE DEF Made
<1>1. ASSUME NEW j \in Turn, TurnStart(t, j) \/ Delta(t, j) PROVE TInv' /\ Made
  BY <1>1, <1>n, TurnStartOK, DeltaOK
<1>2. ASSUME NEW j \in Turn, StageEnd(t, j) \/ Postprocess(t, j) PROVE TInv' /\ Made
  BY <1>2, <1>i, <1>o, StageOK
<1>3. ASSUME NEW j \in Turn, LlmEnd(t, j) PROVE TInv' /\ Made
  BY <1>3, <1>i, <1>o, LlmEndOK
<1>4. ASSUME NEW j \in Turn, QueryEnd(t, j) PROVE TInv' /\ Made
  BY <1>4, <1>i, <1>o, QueryEndOK
<1>5. ASSUME NEW j \in Turn, ChatEnd(t, j) PROVE TInv' /\ Made
  BY <1>5, <1>i, <1>n, <1>o, ChatEndOK
<1>6. ASSUME Resume(t) PROVE TInv' /\ Made
  BY <1>6, <1>n, ResumeOK
<1>7. ASSUME IngestEnd(t) PROVE TInv' /\ Made
  BY <1>7, <1>p, IngestEndOK
<1>8. ASSUME IngestRest(t) PROVE TInv' /\ Made
  BY <1>8, <1>p, IngestRestOK
<1>9. TInv' /\ Made
  BY <1>1, <1>2, <1>3, <1>4, <1>5, <1>6, <1>7, <1>8 DEF LlamaIndexStep
<1> QED
  BY <1>9 DEF Made

------------------------------------------------------------------------------
(* The three ways together. *)

(* It holds at the start. *)
LEMMA AdaptersStart == Init => AInv
<1> SUFFICES ASSUME Init PROVE AInv
  OBVIOUS
<1>1. /\ ev = <<>> /\ DOMAIN ev = {}
      /\ \A r \in Run : state[r] = "new"
      /\ \A h \in Handler : rootRun[h] = NoRun /\ traceId[h] = NoRun
      /\ \A t \in Task : closing[t] = None
      /\ \A k \in Turn : turn[k] = "new"
      /\ st.trace = None /\ streamed = {}
  BY DEF Init, TracingInit, LangChainInit, LlamaIndexInit
<1>2. WaysApart
  BY <1>1 DEF WaysApart
<1>3. QInv
  BY <1>1 DEF QInv, QueriesStarted, HandlersOwn, HandlersTrace, Boundaries, Over
<1>4. StateIsOwn
  BY <1>1 DEF StateIsOwn
<1>5. TraceIsOwn
  BY <1>1, TurnsApart DEF TraceIsOwn, TurnsKeepApart
<1>6. Answers
  <2>1. \A k, stages : OfTurn(k, stages) = {}
    BY <1>1 DEF OfTurn
  <2> QED
    BY <1>1, <2>1 DEF Answers, AnswerLoggedOnce
<1> QED
  BY <1>2, <1>3, <1>4, <1>5, <1>6 DEF AInv, TInv

(* A step keeps who makes events apart. *)
LEMMA WaysKept ==
  ASSUME WaysApart, way' = way, NEW New, Grew(New),
         way # "langchain" => \A i \in New : ev'[i].by \notin Run,
         way # "llamaindex" => \A i \in New : ev'[i].by \notin Turn /\ ev'[i].trace \notin Turn
  PROVE  WaysApart'
<1>1. \A i \in DOMAIN ev' : i \in New \/ /\ i \in DOMAIN ev /\ ev'[i].by = ev[i].by
                                         /\ ev'[i].trace = ev[i].trace
  BY DEF Grew
<1> QED
  BY <1>1 DEF WaysApart, FromRun

(* Every step keeps it. *)
LEMMA AdaptersStep == IInv /\ AInv /\ [Next]_vars => AInv'
<1> SUFFICES ASSUME IInv, AInv, [Next]_vars PROVE AInv'
  OBVIOUS
<1>i. /\ TracingInv /\ LangChainTypeOK /\ LlamaIndexTypeOK
      /\ WaysApart /\ QInv /\ TInv
  BY DEF IInv, AInv
<1>w. way' = way
  BY DEF Next, vars
<1>t. ASSUME way # "llamaindex", NEW j \in DOMAIN ev PROVE ev[j].trace \notin Turn
  BY <1>i, <1>t DEF WaysApart
<1>1. ASSUME UNCHANGED <<lcvars, livars>>, Grew({}) PROVE AInv'
  <2>1. WaysApart'
    BY <1>i, <1>w, <1>1, WaysKept
  <2>2. QInv'
    BY <1>i, <1>1, QueriesKept
  <2>3. TInv'
    BY <1>i, <1>1, TurnsKept
  <2> QED
    BY <2>1, <2>2, <2>3 DEF AInv
<1>2. CASE Store
  <2>1. PICK i \in Id : StoreStep(i)
    BY <1>2 DEF Store
  <2>2. ev' = ev /\ lost \subseteq lost'
    BY <2>1 DEF StoreStep, Write, WriteFails
  <2> QED
    BY <1>1, <1>2, <2>2, GrewNone DEF Store
<1>3. ASSUME NEW t \in Task, Manual(t) PROVE AInv'
  <2>1. TaskStep(t) /\ UNCHANGED <<lcvars, livars>> /\ way = "manual"
    BY <1>3 DEF Manual
  <2>2. PICK New \in SUBSET Id :
          /\ Grew(New)
          /\ \A i \in New : /\ ev'[i].by = t
                            /\ \/ ev'[i].trace \in Id
                               \/ \E j \in DOMAIN ev : ev'[i].trace = ev[j].trace
    BY <1>i, <2>1, TaskGrows
  <2>3. \A i \in New : /\ ev'[i].by \notin Run /\ ev'[i].by \notin Turn
                       /\ ev'[i].trace \notin Turn
    BY <1>t, <2>1, <2>2, RunsApart, TurnData, TurnsApart
  <2>4. WaysApart'
    BY <1>i, <1>w, <2>2, <2>3, WaysKept
  <2>5. QInv'
    BY <1>i, <2>1, <2>2, <2>3, QueriesKept
  <2>6. TInv'
    BY <1>i, <2>1, <2>2, <2>3, TurnsKept
  <2> QED
    BY <2>4, <2>5, <2>6 DEF AInv
<1>4. ASSUME NEW t \in Task, Program(t) PROVE AInv'
  <2>1. ev' = ev /\ lost' = lost /\ UNCHANGED <<lcvars, livars>>
    BY <1>4 DEF Program, Spawn, Writes
  <2> QED
    BY <1>1, <2>1, GrewNone
<1>5. ASSUME NEW t \in Task, LangChainStep(t), UNCHANGED livars, way = "langchain" PROVE AInv'
  <2>1. QInv'
    BY <1>i, <1>5, LangChainKeeps
  <2>2. PICK New \in SUBSET Id :
          /\ Grew(New)
          /\ \A i \in New :
               \/ ev'[i].by \in Run /\ ev'[i].trace \in Run
               \/ /\ ev'[i].by = t
                  /\ \/ ev'[i].trace \in Id
                     \/ \E j \in DOMAIN ev : ev'[i].trace = ev[j].trace
    BY <1>i, <1>5, LangChainKeeps
  <2>3. \A i \in New : ev'[i].by \notin Turn /\ ev'[i].trace \notin Turn
    BY <1>t, <1>5, <2>2, MakersApart, TurnData, TurnsApart
  <2>4. WaysApart'
    BY <1>i, <1>w, <1>5, <2>2, <2>3, WaysKept
  <2>5. TInv'
    BY <1>i, <1>5, <2>2, <2>3, TurnsKept
  <2> QED
    BY <2>1, <2>4, <2>5 DEF AInv
<1>6. ASSUME NEW t \in Task, LlamaIndexStep(t), UNCHANGED lcvars, way = "llamaindex"
      PROVE  AInv'
  <2>1. TInv'
    BY <1>i, <1>6, LlamaIndexKeeps
  <2>2. PICK New \in SUBSET Id : Grew(New) /\ \A i \in New : ev'[i].by \in Turn \cup {"ingest"}
    BY <1>i, <1>6, LlamaIndexKeeps
  <2>3. \A i \in New : ev'[i].by \notin Run
    BY <2>2, MakersApart
  <2>4. WaysApart'
    BY <1>i, <1>w, <1>6, <2>2, <2>3, WaysKept
  <2>5. QInv'
    BY <1>i, <1>6, <2>2, <2>3, QueriesKept
  <2> QED
    BY <2>1, <2>4, <2>5 DEF AInv
<1>7. CASE UNCHANGED vars
  <2>1. UNCHANGED <<ev, lost, lcvars, livars>>
    BY <1>7 DEF vars, tvars
  <2> QED
    BY <1>1, <2>1, GrewNone
<1> QED
  BY <1>2, <1>3, <1>4, <1>5, <1>6, <1>7 DEF Next, LangChain, LlamaIndex

(* The invariant of the adapters holds in every state.                     *)
THEOREM AdaptersInductive == Spec => []AInv
<1> QED
  BY AdaptersStart, AdaptersStep, InstrumentedInductive, PTL DEF Spec

(* The events of a LangChain query are one trace and no other query's are  *)
(* in it, although queries overlap, chains nest, runs fail and writes fail *)
(* (langchain.py:92-131).                                                  *)
THEOREM QueriesApart == Spec => []QueriesKeepApart
<1>1. IInv /\ AInv => QueriesKeepApart
  <2> SUFFICES ASSUME IInv, AInv, NEW i \in DOMAIN ev, NEW j \in DOMAIN ev,
                      FromRun(i), FromRun(j)
               PROVE  (ev[i].trace = ev[j].trace) <=> (QueryOf[ev[i].by] = QueryOf[ev[j].by])
    BY DEF QueriesKeepApart
  <2> DEFINE q == ev[i].by
             r == ev[j].by
  <2>1. /\ q \in Run /\ state[q] # "new" /\ ev[i].trace = traceId[HandlerOf[q]]
        /\ ev[i].trace # NoRun
        /\ r \in Run /\ state[r] # "new" /\ ev[j].trace = traceId[HandlerOf[r]]
    BY DEF AInv, QInv, HandlersTrace, FromRun
  <2> HIDE DEF q, r
  <2>2. HandlerOf[q] \in Handler /\ HandlerOf[r] \in Handler
    BY <2>1, RunData
  <2>3. ASSUME ev[i].trace = ev[j].trace PROVE QueryOf[q] = QueryOf[r]
    <3>1. HandlerOf[q] = HandlerOf[r]
      <4>1. HandlerOf[traceId[HandlerOf[q]]] = HandlerOf[q]
        BY <2>1, <2>2 DEF AInv, QInv, HandlersOwn
      <4>2. HandlerOf[traceId[HandlerOf[r]]] = HandlerOf[r]
        BY <2>1, <2>2, <2>3 DEF AInv, QInv, HandlersOwn
      <4>3. traceId[HandlerOf[q]] = traceId[HandlerOf[r]]
        BY <2>1, <2>3
      <4> QED
        BY <4>1, <4>2, <4>3
    <3> QED
      BY <2>1, <3>1, FreshHandlers
  <2>4. ASSUME QueryOf[q] = QueryOf[r] PROVE ev[i].trace = ev[j].trace
    <3>1. HandlerOf[q] = HandlerOf[r]
      BY <2>1, <2>4 DEF AInv, QInv, QueriesStarted
    <3> QED
      BY <2>1, <3>1
  <2> QED
    BY <2>3, <2>4 DEF q, r
<1> QED
  BY <1>1, AdaptersInductive, InstrumentedInductive, PTL

(* A query that is a chain logs one boundary, with the status of the       *)
(* chain, and nothing else logs one (langchain.py:105-125).                *)
THEOREM OneBoundary == Spec => []OneBoundaryPerQuery
<1>1. IInv /\ AInv => OneBoundaryPerQuery
  <2> SUFFICES ASSUME IInv, AInv, NEW r \in Run, KindOf[r] = "chain",
                      NEW B, B = {i \in DOMAIN ev : ev[i].by = r /\ ev[i].stage = "boundary"}
               PROVE  IF QueryOf[r] = r /\ state[r] \in {"ended", "failed"}
                      THEN \E i \in Id : B = {i} /\ ev[i].status = IF state[r] = "ended"
                                                                  THEN "ok" ELSE "error"
                      ELSE B = {}
    BY DEF OneBoundaryPerQuery
  <2>1. B = {i \in DOMAIN ev : Boundary(i, r)}
    BY DEF Boundary
  <2>2. CASE QueryOf[r] = r /\ Over(r)
    <3>1. PICK i \in DOMAIN ev : Boundary(i, r)
      BY <2>2 DEF AInv, QInv, Boundaries
    <3>2. B = {i}
      BY <2>1, <3>1 DEF AInv, QInv, Boundaries
    <3>3. i \in Id
      <4>1. ev \in Seq(Record) /\ Len(ev) <= MaxEvents
        BY DEF IInv, TracingInv, TracingTypeOK
      <4> QED
        BY <4>1, <3>1, BoundAssumption DEF Id
    <3>4. ev[i].status = IF state[r] = "ended" THEN "ok" ELSE "error"
      BY <3>1 DEF AInv, QInv, Boundaries, Outcome
    <3> QED
      BY <2>2, <3>2, <3>3, <3>4 DEF Over
  <2>3. CASE ~(QueryOf[r] = r /\ Over(r))
    <3>1. B = {}
      BY <2>1, <2>3 DEF AInv, QInv, Boundaries
    <3> QED
      BY <2>3, <3>1 DEF Over
  <2> QED
    BY <2>2, <2>3
<1> QED
  BY <1>1, AdaptersInductive, InstrumentedInductive, PTL

(* A LlamaIndex turn that no other overlaps has a trace of its own, with   *)
(* nothing in it but its events and what was ingested meanwhile, whatever  *)
(* other turns left in the one _state (llamaindex.py:191-211).             *)
THEOREM TurnsOwnTrace == Spec => []TurnsKeepApart
<1>1. AInv => TurnsKeepApart
  BY DEF AInv, TInv, TraceIsOwn
<1> QED
  BY <1>1, AdaptersInductive, PTL

(* The answer of a chat that no other turn overlaps is logged once, and    *)
(* not lost if text of it was streamed (llamaindex.py:212-230, 298-326).   *)
THEOREM AnswersOnce == Spec => []AnswerLoggedOnce
<1>1. AInv => AnswerLoggedOnce
  BY DEF AInv, TInv, Answers
<1> QED
  BY <1>1, AdaptersInductive, PTL

(* Every step only adds to the events. *)
LEMMA StepGrows == IInv /\ AInv /\ [Next]_vars => \E New : Grew(New)
<1> SUFFICES ASSUME IInv, AInv, [Next]_vars PROVE \E New : Grew(New)
  OBVIOUS
<1>i. /\ TracingInv /\ LlamaIndexTypeOK /\ QInv /\ TInv
  BY DEF IInv, AInv
<1>1. ASSUME ev' = ev, lost \subseteq lost' PROVE \E New : Grew(New)
  BY <1>1, GrewNone
<1>2. CASE Store
  <2>1. PICK i \in Id : StoreStep(i)
    BY <1>2 DEF Store
  <2> QED
    BY <1>1, <2>1 DEF StoreStep, Write, WriteFails
<1>3. ASSUME NEW t \in Task, TaskStep(t) PROVE \E New : Grew(New)
  BY <1>i, <1>3, TaskGrows
<1>4. ASSUME NEW t \in Task, Program(t) PROVE \E New : Grew(New)
  BY <1>3, <1>4 DEF Program, TaskStep
<1>5. ASSUME NEW t \in Task, LangChainStep(t) PROVE \E New : Grew(New)
  BY <1>i, <1>5, LangChainKeeps
<1>6. ASSUME NEW t \in Task, LlamaIndexStep(t) PROVE \E New : Grew(New)
  BY <1>i, <1>6, LlamaIndexKeeps
<1>7. CASE UNCHANGED vars
  <2>1. ev' = ev /\ lost' = lost
    BY <1>7 DEF vars, tvars
  <2> QED
    BY <1>1, <2>1
<1> QED
  BY <1>2, <1>3, <1>4, <1>5, <1>6, <1>7 DEF Next, Manual, LangChain, LlamaIndex

(* An event stays what it was made: nothing moves it to another trace, and *)
(* when it was handed over its status is for good, although the block and  *)
(* the store keep a reference to it (tracing.py:55-62, client.py:28-36).   *)
THEOREM EventsForGood ==
  Spec => [][\A i \in DOMAIN ev :
               /\ i \in DOMAIN ev'
               /\ ev'[i].by = ev[i].by /\ ev'[i].trace = ev[i].trace
               /\ i \in Stored \cup pending \cup lost => ev'[i].status = ev[i].status]_vars
<1> DEFINE Kept == \A i \in DOMAIN ev :
                     /\ i \in DOMAIN ev'
                     /\ ev'[i].by = ev[i].by /\ ev'[i].trace = ev[i].trace
                     /\ i \in Stored \cup pending \cup lost => ev'[i].status = ev[i].status
<1>1. IInv /\ AInv /\ [Next]_vars => Kept
  <2> SUFFICES ASSUME IInv, AInv, [Next]_vars, NEW i \in DOMAIN ev
               PROVE  /\ i \in DOMAIN ev'
                      /\ ev'[i].by = ev[i].by /\ ev'[i].trace = ev[i].trace
                      /\ i \in Stored \cup pending \cup lost => ev'[i].status = ev[i].status
    OBVIOUS
  <2>1. PICK New : Grew(New)
    BY StepGrows
  <2>2. i \in Stored \cup pending \cup lost => ev[i].status # "open"
    BY DEF IInv, TracingInv, HandedOver
  <2> QED
    BY <2>1, <2>2 DEF Grew
<1> QED
  BY <1>1, InstrumentedInductive, AdaptersInductive, PTL DEF Spec
==============================================================================
