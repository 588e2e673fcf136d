---------------------------- MODULE ExplorerProofs ----------------------------
(***************************************************************************)
(* The dashboard's queries, replays and evaluations for any projects,      *)
(* pipelines' events, threads and number of requests: the views of cost    *)
(* and of chunks agree, replays change neither the context that the next   *)
(* replay gets nor the answer that is judged, and the metrics of lists in  *)
(* which no chunk is twice measure what they are for.                      *)
(***************************************************************************)
EXTENDS Explorer, DataInduction

Tables == <<events, traces, chunks, hits>>

TablesFinite ==
  /\ IsFiniteSet(events) /\ IsFiniteSet(hits)
  /\ IsFiniteSet(chunks) /\ IsFiniteSet(DOMAIN traces)

(* A trace's row has the project of all its events.                        *)
TracesFit ==
  /\ \A tr \in DOMAIN traces :
       DOMAIN traces[tr] = {"project", "query"} /\ traces[tr].project \in Project
  /\ \A e \in events :
       e.cost \in Nat /\ e.trace \in DOMAIN traces /\ e.project = traces[e.trace].project

(* A hit is in its trace's project, where its chunk is registered.         *)
HitsFit ==
  \A h \in hits :
    /\ h.trace \in DOMAIN traces /\ h.project = traces[h.trace].project
    /\ \E c \in chunks : c.project = h.project /\ c.hash = h.hash

(* Pipelines' traces and events are from before Now0.  A replay is an      *)
(* event that started at the tick of its request, and no other event did.  *)
Asked == Now0..(now - 1)

EventsDated ==
  /\ now \in Now0..(Now0 + MaxRequests)
  /\ \A e \in events :
       \/ e \in PipelineEvent
       \/ e.replayed /\ e.stage = "generation" /\ e.start \in Asked /\ e.prompt # NoText
  /\ \A e, f \in events : e.start = f.start => e = f
  /\ \A tr \in DOMAIN traces :
       \/ tr \in Asked
       \/ \E e \in events : e \in PipelineEvent /\ e.trace = tr

(* A trace's pipeline logged a prompt. *)
Prompted(tr) ==
  \E f \in EventsOf(tr) :
    ~f.replayed /\ f.stage \in {"context_assembly", "generation"} /\ f.prompt # NoText

(* What a pipeline's trace is replayed with is its pipeline's prompt or    *)
(* its query.                                                              *)
PromptKnown(tr, prompt) == tr < Now0 => Prompted(tr) \/ prompt = traces[tr].query

(* A replay is of a trace of its project, or begins one.                   *)
Generating(w) ==
  LET r == req[w] IN
  /\ r.start \in Asked /\ r.prompt # NoText
  /\ \A e \in events : e.start # r.start
  /\ \A v \in Worker : v # w /\ req[v].step = "generating" => req[v].start # r.start
  /\ \/ /\ r.trace \in DOMAIN traces /\ r.project = traces[r.trace].project
        /\ PromptKnown(r.trace, r.prompt)
     \/ r.trace = r.start /\ r.trace \notin DOMAIN traces /\ r.project \in Project

(* An answer is one that its trace has.                                    *)
AnswerOf(tr, answer) == answer # NoText /\ \E e \in EventsOf(tr) : e.response = answer

Judging(w) ==
  LET r == req[w] IN
  /\ DOMAIN r = {"step", "trace", "answer", "faithfulness", "answer_relevance"}
  /\ r.trace \in DOMAIN traces
  /\ r.faithfulness \/ r.answer_relevance => AnswerOf(r.trace, r.answer)

Requests ==
  /\ DOMAIN req = Worker
  /\ \A w \in Worker :
       /\ req[w].step \in {"free", "generating", "judging", "storing"}
       /\ req[w].step = "generating" => Generating(w)
       /\ req[w].step \in {"judging", "storing"} => Judging(w)

ReplaysFit == \A e \in events : e.replayed => PromptKnown(e.trace, e.prompt)

ScoresFit ==
  \A s \in DOMAIN scores :
    s[1] \in DOMAIN traces /\ (scores[s].judged => AnswerOf(s[1], scores[s].answer))

TruthFits ==
  \A tr \in DOMAIN truth : truth[tr].project \in Project /\ IsFiniteSet(truth[tr].relevant)

IInv ==
  /\ TablesFinite /\ TracesFit /\ HitsFit /\ EventsDated
  /\ Requests /\ ReplaysFit /\ ScoresFit /\ TruthFits

------------------------------------------------------------------------------
(* Events in the order of their start. *)

Ordered(E) ==
  /\ IsFiniteSet(E) /\ \A e \in E : e.start \in Int
  /\ \A e, f \in E : e.start = f.start => e = f

(* The place of an event is after those of all that started before it.     *)
Earlier(E, e) == Cardinality({f \in E : f.start < e.start})

(* ORDER BY start_time lists every event once, by its start (db.py:337).   *)
LEMMA InOrder ==
  ASSUME NEW E, Ordered(E)
  PROVE  /\ Cardinality(E) \in Nat /\ DOMAIN ByStart(E) = 1..Cardinality(E)
         /\ \A i \in 1..Cardinality(E) :
              ByStart(E)[i] \in E /\ Earlier(E, ByStart(E)[i]) = i - 1
         /\ \A e \in E : /\ Earlier(E, e) + 1 \in 1..Cardinality(E)
                         /\ ByStart(E)[Earlier(E, e) + 1] = e
         /\ \A i, j \in 1..Cardinality(E) :
              i < j <=> ByStart(E)[i].start < ByStart(E)[j].start
<1> DEFINE num == [e \in E |-> e.start]
           n == Cardinality(E)
<1>1. \A e \in E : Rank(E, num, e) = Earlier(E, e)
  <2> SUFFICES ASSUME NEW e \in E
               PROVE  {f \in E : num[f] < num[e]} = {f \in E : f.start < e.start}
    BY DEF Rank, Earlier
  <2> QED
    OBVIOUS
<1>2. /\ n \in Nat
      /\ \A e \in E : Rank(E, num, e) \in 0..(n - 1)
      /\ \A e, f \in E : num[f] < num[e] <=> Rank(E, num, f) < Rank(E, num, e)
      /\ \A e, f \in E : Rank(E, num, f) = Rank(E, num, e) => e = f
      /\ \A i \in 0..(n - 1) : \E e \in E : Rank(E, num, e) = i
  <2>1. IsFiniteSet(E) /\ (\A e \in E : num[e] \in Int)
        /\ \A e, f \in E : num[e] = num[f] => e = f
    BY DEF Ordered
  <2> HIDE DEF num
  <2> QED
    BY <2>1, Ranks
<1>3. ByStart(E) = [i \in 1..n |-> CHOOSE e \in E : Earlier(E, e) = i - 1]
  BY DEF ByStart, Earlier
<1>4. ASSUME NEW i \in 1..n PROVE ByStart(E)[i] \in E /\ Earlier(E, ByStart(E)[i]) = i - 1
  <2>1. i - 1 \in 0..(n - 1)
    BY <1>2
  <2>2. \E e \in E : Earlier(E, e) = i - 1
    <3> HIDE DEF num, n
    <3> QED
      BY <1>1, <1>2, <2>1
  <2> QED
    BY <1>3, <2>2
<1>5. ASSUME NEW e \in E
      PROVE  Earlier(E, e) + 1 \in 1..n /\ ByStart(E)[Earlier(E, e) + 1] = e
  <2>1. Earlier(E, e) \in 0..(n - 1)
    BY <1>1, <1>2
  <2>2. Earlier(E, e) + 1 \in 1..n /\ Earlier(E, e) + 1 - 1 = Earlier(E, e)
    BY <1>2, <2>1
  <2>3. \A f \in E : Earlier(E, f) = Earlier(E, e) => f = e
    BY <1>1, <1>2
  <2> DEFINE i == Earlier(E, e) + 1
             f == ByStart(E)[i]
  <2>4. f \in E /\ Earlier(E, f) = i - 1
    BY <1>4, <2>2
  <2>5. Earlier(E, f) = Earlier(E, e)
    <3>1. i - 1 = Earlier(E, e)
      BY <2>1
    <3> HIDE DEF f, i
    <3> QED
      BY <2>4, <3>1
  <2>6. f = e
    <3> HIDE DEF f, i
    <3> QED
      BY <2>3, <2>4, <2>5
  <2> QED
    BY <2>2, <2>6
<1>6. ASSUME NEW i \in 1..n, NEW j \in 1..n
      PROVE  i < j <=> ByStart(E)[i].start < ByStart(E)[j].start
  <2> DEFINE e == ByStart(E)[i]
             f == ByStart(E)[j]
  <2>1. e \in E /\ f \in E /\ Earlier(E, e) = i - 1 /\ Earlier(E, f) = j - 1
    BY <1>4
  <2>2. e.start < f.start <=> Earlier(E, e) < Earlier(E, f)
    <3> HIDE DEF e, f
    <3>1. num[e] = e.start /\ num[f] = f.start
      BY <2>1
    <3>2. Rank(E, num, e) = Earlier(E, e) /\ Rank(E, num, f) = Earlier(E, f)
      BY <1>1, <2>1
    <3> HIDE DEF num
    <3>3. num[e] < num[f] <=> Rank(E, num, e) < Rank(E, num, f)
      BY <1>2, <2>1
    <3> QED
      BY <3>1, <3>2, <3>3
  <2>3. i < j <=> Earlier(E, e) < Earlier(E, f)
    <3>1. i \in Int /\ j \in Int
      BY <1>2
    <3> HIDE DEF e, f
    <3>2. i < j <=> i - 1 < j - 1
      BY <3>1
    <3> QED
      BY <2>1, <3>2
  <2> QED
    BY <2>2, <2>3
<1> QED
  BY <1>2, <1>3, <1>4, <1>5, <1>6

(* The context after each of n events. *)
NoContext == [prompt |-> NoText, system |-> NoText]

Contexts(seq, n, ctx) ==
  ctx[0] = NoContext /\ \A i \in 1..n : ctx[i] = Add(ctx[i - 1], seq[i])

(* The loop over a trace's events goes through contexts (db.py:511-520).   *)
LEMMA ContextsExist ==
  ASSUME NEW E, Ordered(E)
  PROVE  \E ctx : Contexts(ByStart(E), Cardinality(E), ctx)
                  /\ GenerationContext(E) = ctx[Cardinality(E)]
<1> DEFINE n == Cardinality(E)
           seq == ByStart(E)
           V == [prompt : {NoText} \cup {e.prompt : e \in E},
                 system : {NoText} \cup {e.system : e \in E}]
           op == [i \in 1..n |-> [v \in V |-> Add(v, seq[i])]]
           Iterates(g) == g = [s \in SUBSET (1..n) |->
                           IF s = {} THEN NoContext ELSE Add(g[s \ {Max(s)}], seq[Max(s)])]
<1>1. n \in Nat /\ DOMAIN seq = 1..n /\ \A i \in 1..n : seq[i] \in E
  BY InOrder
<1>2. NoContext \in V
  BY DEF NoContext
<1>3. op \in [1..n -> [V -> V]]
  <2> SUFFICES ASSUME NEW i \in 1..n, NEW v \in V PROVE Add(v, seq[i]) \in V
    OBVIOUS
  <2>1. seq[i].prompt \in {e.prompt : e \in E} /\ seq[i].system \in {e.system : e \in E}
    BY <1>1
  <2> HIDE DEF seq
  <2> QED
    BY <2>1 DEF Add, Either
<1>4. PICK g \in [SUBSET (1..n) -> V] : Folds(n, NoContext, op, g)
  <2> HIDE DEF n, V, op
  <2> QED
    BY <1>1, <1>2, <1>3, FoldsExist
<1>5. ASSUME NEW s \in SUBSET (1..n), s # {}
      PROVE  Max(s) \in 1..n /\ g[s \ {Max(s)}] \in V
  <2>1. s \in SUBSET Int
    OBVIOUS
  <2>2. IsFiniteSet(s)
    <3>1. IsFiniteSet(1..n)
      BY <1>1, FS_Interval
    <3> HIDE DEF n
    <3> QED
      BY <3>1, FS_Subset
  <2>3. Max(s) \in s
    BY <1>5, <2>1, <2>2, Extremes
  <2> HIDE DEF n, V
  <2> QED
    BY <2>3
<1>6. Iterates(g)
  <2>1. ASSUME NEW s \in SUBSET (1..n)
        PROVE  g[s] = IF s = {} THEN NoContext ELSE Add(g[s \ {Max(s)}], seq[Max(s)])
    <3>1. CASE s = {}
      BY <1>4, <3>1 DEF Folds
    <3>2. CASE s # {}
      <4>1. g[s] = op[Max(s)][g[s \ {Max(s)}]]
        BY <1>4, <3>2 DEF Folds
      <4>2. op[Max(s)][g[s \ {Max(s)}]] = Add(g[s \ {Max(s)}], seq[Max(s)])
        <5> HIDE DEF n, V, seq
        <5> QED
          BY <1>5, <3>2
      <4> HIDE DEF op
      <4> QED
        BY <3>2, <4>1, <4>2
    <3> QED
      BY <3>1, <3>2
  <2> HIDE DEF n, V, seq
  <2> QED
    BY <2>1
<1> DEFINE iter == CHOOSE h : Iterates(h)
<1>7. Iterates(iter)
  <2> HIDE DEF Iterates
  <2> QED
    BY <1>6
<1>8. GenerationContext(E) = iter[1..n]
  BY <1>1 DEF GenerationContext, FoldLeft, MapThenFoldSet, NoContext
<1> DEFINE ctx == [i \in 0..n |-> iter[1..i]]
<1>9. ctx[0] = NoContext
  <2>1. 1..0 = {} /\ 0 \in 0..n
    BY <1>1
  <2> HIDE DEF n, seq
  <2> QED
    BY <1>7, <2>1
<1>10. ASSUME NEW i \in 1..n PROVE ctx[i] = Add(ctx[i - 1], seq[i])
  <2>1. /\ i \in Nat \ {0} /\ 1..i \in SUBSET (1..n) /\ i - 1 \in 0..n /\ i \in 0..n
    BY <1>1
  <2>2. iter[1..i] = Add(iter[(1..i) \ {Max(1..i)}], seq[Max(1..i)])
    <3>1. 1..i # {}
      BY <2>1
    <3> HIDE DEF n, seq, iter
    <3> QED
      BY <1>7, <2>1, <3>1
  <2>3. iter[1..i] = Add(iter[1..(i - 1)], seq[i])
    <3> HIDE DEF n, seq, iter
    <3> QED
      BY <2>1, <2>2, UpTo
  <2> HIDE DEF n, seq, iter
  <2> QED
    BY <2>1, <2>3
<1>11. ctx[n] = iter[1..n]
  BY <1>1
<1>12. Contexts(seq, n, ctx) /\ GenerationContext(E) = ctx[n]
  <2> HIDE DEF n, seq, iter, ctx
  <2> QED
    BY <1>8, <1>9, <1>10, <1>11 DEF Contexts
<1> HIDE DEF ctx
<1> QED
  BY <1>12

------------------------------------------------------------------------------
(* Ingest. *)

(* An event that may be ingested: of its trace's project, if there is one. *)
Fits(e) ==
  /\ e.project \in Project /\ e.cost \in Nat /\ e.items \in Seq(ToSet(e.items))
  /\ e.trace \in DOMAIN traces => e.project = traces[e.trace].project

(* What no ingest does to the tables: nothing goes, a trace keeps its      *)
(* project, and its query once it has one.                                 *)
Kept ==
  /\ events \subseteq events' /\ hits \subseteq hits' /\ chunks \subseteq chunks'
  /\ DOMAIN traces \subseteq DOMAIN traces'
  /\ \A tr \in DOMAIN traces :
       /\ traces'[tr].project = traces[tr].project
       /\ traces[tr].query # NoText => traces'[tr].query = traces[tr].query

(* The row of an event's trace is made or filled in (db.py:160-201).       *)
LEMMA RowsMerged ==
  ASSUME TracesFit, NEW e, Fits(e)
  PROVE  /\ DOMAIN NewTraces(e) = DOMAIN traces \cup {e.trace}
         /\ \A tr \in DOMAIN traces :
              /\ NewTraces(e)[tr].project = traces[tr].project
              /\ traces[tr].query # NoText => NewTraces(e)[tr].query = traces[tr].query
         /\ NewTraces(e)[e.trace].project = e.project
         /\ \A tr \in DOMAIN NewTraces(e) :
              /\ DOMAIN NewTraces(e)[tr] = {"project", "query"}
              /\ NewTraces(e)[tr].project \in Project
<1> DEFINE row == IF e.trace \in DOMAIN traces
                  THEN [traces[e.trace] EXCEPT !.query = Either(@, e.query)]
                  ELSE [project |-> e.project, query |-> e.query]
<1>1. NewTraces(e) = [tr \in {e.trace} \cup DOMAIN traces |->
                        IF tr = e.trace THEN row ELSE traces[tr]]
  BY DEF NewTraces, Upsert
<1>2. /\ DOMAIN row = {"project", "query"} /\ row.project = e.project
      /\ e.trace \in DOMAIN traces /\ traces[e.trace].query # NoText
           => row.query = traces[e.trace].query
  <2>1. CASE e.trace \in DOMAIN traces
    BY <2>1 DEF TracesFit, Fits, Either
  <2>2. CASE e.trace \notin DOMAIN traces
    BY <2>2
  <2> QED
    BY <2>1, <2>2
<1> HIDE DEF row
<1>3. DOMAIN NewTraces(e) = DOMAIN traces \cup {e.trace}
  BY <1>1
<1>4. \A tr \in DOMAIN NewTraces(e) : NewTraces(e)[tr] = IF tr = e.trace THEN row ELSE traces[tr]
  BY <1>1
<1> QED
  BY <1>2, <1>3, <1>4 DEF TracesFit, Fits

(* An event's chunks and hits are finitely many, and each hit has its      *)
(* chunk (db.py:216-260).                                                  *)
LEMMA NewHitsFit ==
  ASSUME NEW e, Fits(e)
  PROVE  /\ IsFiniteSet(NewChunks(e)) /\ IsFiniteSet(NewHits(e))
         /\ \A h \in NewHits(e) :
              /\ h.trace = e.trace /\ h.project = e.project
              /\ \E c \in NewChunks(e) : c.project = e.project /\ c.hash = h.hash
<1> DEFINE D == DOMAIN e.items
           C == [i \in D |-> [project |-> e.project, hash |-> e.items[i].hash,
                              source |-> e.items[i].source]]
           H == [i \in D |-> [event |-> e.id, rank |-> i, trace |-> e.trace,
                              project |-> e.project, hash |-> e.items[i].hash]]
<1>1. IsFiniteSet(D)
  <2>1. Len(e.items) \in Nat /\ D = 1..Len(e.items)
    BY DEF Fits
  <2> HIDE DEF D
  <2> QED
    BY <2>1, FS_Interval
<1>2. NewChunks(e) = IF e.stage \notin ChunkStages THEN {} ELSE {C[i] : i \in D}
  BY DEF NewChunks
<1>3. NewHits(e) = IF e.stage \notin {"retrieval", "fusion"} THEN {} ELSE {H[i] : i \in D}
  BY DEF NewHits
<1>4. IsFiniteSet({C[i] : i \in D}) /\ IsFiniteSet({H[i] : i \in D})
  <2> HIDE DEF C, H, D
  <2> QED
    BY <1>1, Images
<1>5. IsFiniteSet(NewChunks(e)) /\ IsFiniteSet(NewHits(e))
  <2> HIDE DEF C, H, D
  <2> QED
    BY <1>2, <1>3, <1>4, FS_EmptySet
<1>6. ASSUME NEW h \in NewHits(e)
      PROVE  /\ h.trace = e.trace /\ h.project = e.project
             /\ \E c \in NewChunks(e) : c.project = e.project /\ c.hash = h.hash
  <2>1. e.stage \in {"retrieval", "fusion"} /\ e.stage \in ChunkStages
    BY <1>3, <1>6 DEF ChunkStages
  <2>2. PICK i \in D : h = H[i]
    BY <1>3, <1>6, <2>1
  <2>3. C[i] \in NewChunks(e) /\ C[i].project = e.project /\ C[i].hash = h.hash
    BY <1>2, <2>1, <2>2
  <2> QED
    BY <2>2, <2>3
<1> QED
  BY <1>5, <1>6

(* The tables stay linked (db.py:146-260).                                 *)
LEMMA IngestFits ==
  ASSUME TablesFinite, TracesFit, HitsFit, NEW e, Fits(e), Ingest(e)
  PROVE  /\ TablesFinite' /\ TracesFit' /\ HitsFit' /\ Kept
         /\ events' = events \cup {e} /\ DOMAIN traces' = DOMAIN traces \cup {e.trace}
<1>1. /\ DOMAIN traces' = DOMAIN traces \cup {e.trace}
      /\ \A tr \in DOMAIN traces :
           /\ traces'[tr].project = traces[tr].project
           /\ traces[tr].query # NoText => traces'[tr].query = traces[tr].query
      /\ traces'[e.trace].project = e.project
      /\ \A tr \in DOMAIN traces' :
           DOMAIN traces'[tr] = {"project", "query"} /\ traces'[tr].project \in Project
  BY RowsMerged DEF Ingest
<1>2. events' = events \cup {e} /\ chunks' = chunks \cup NewChunks(e) /\ hits' = hits \cup NewHits(e)
  BY DEF Ingest
<1>3. Kept
  BY <1>1, <1>2 DEF Kept
<1>4. TablesFinite'
  <2>1. IsFiniteSet(NewChunks(e)) /\ IsFiniteSet(NewHits(e))
    BY NewHitsFit
  <2>2. IsFiniteSet(chunks \cup NewChunks(e)) /\ IsFiniteSet(hits \cup NewHits(e))
    BY <2>1, FS_Union DEF TablesFinite
  <2>3. IsFiniteSet(events \cup {e}) /\ IsFiniteSet(DOMAIN traces \cup {e.trace})
    BY FS_AddElement DEF TablesFinite
  <2> QED
    BY <1>1, <1>2, <2>2, <2>3 DEF TablesFinite
<1>5. TracesFit'
  BY <1>1, <1>2 DEF TracesFit, Fits
<1>6. HitsFit'
  <2> SUFFICES ASSUME NEW h \in hits'
               PROVE  /\ h.trace \in DOMAIN traces' /\ h.project = traces'[h.trace].project
                      /\ \E c \in chunks' : c.project = h.project /\ c.hash = h.hash
    BY DEF HitsFit
  <2>1. CASE h \in hits
    BY <1>1, <1>2, <2>1 DEF HitsFit
  <2>2. CASE h \in NewHits(e)
    BY <1>1, <1>2, <2>2, NewHitsFit
  <2> QED
    BY <1>2, <2>1, <2>2
<1> QED
  BY <1>1, <1>2, <1>3, <1>4, <1>5, <1>6

(* What is known of a trace stays known. *)
LEMMA KnownStays ==
  ASSUME Kept, NEW tr
  PROVE  /\ Prompted(tr) => Prompted(tr)'
         /\ \A answer : AnswerOf(tr, answer) => AnswerOf(tr, answer)'
         /\ \A prompt : tr \in DOMAIN traces /\ prompt # NoText /\ PromptKnown(tr, prompt)
                          => PromptKnown(tr, prompt)'
BY DEF Kept, Prompted, AnswerOf, PromptKnown, EventsOf

------------------------------------------------------------------------------
(* What a context and a judged answer are taken from. *)

(* A set of stored events has an order. *)
LEMMA EventsOrdered ==
  ASSUME TablesFinite, EventsDated, NEW E \in SUBSET events
  PROVE  Ordered(E)
<1>1. IsFiniteSet(E)
  BY FS_Subset DEF TablesFinite
<1>2. now \in Nat /\ Now0 \in Nat
  BY DataAssumption, BoundAssumption DEF EventsDated
<1>3. \A e \in E : e.start \in Int
  BY <1>2, DataAssumption DEF EventsDated, Asked
<1> QED
  BY <1>1, <1>3 DEF EventsDated, Ordered

(* A context's prompt is one of the events' (db.py:511-520).               *)
LEMMA ContextPrompt ==
  ASSUME NEW E, Ordered(E), GenerationContext(E).prompt # NoText
  PROVE  \E e \in E : /\ e.stage \in {"context_assembly", "generation"}
                      /\ e.prompt = GenerationContext(E).prompt
<1> DEFINE n == Cardinality(E)
           seq == ByStart(E)
           From(prompt) == \/ prompt = NoText
                           \/ \E e \in E : /\ e.stage \in {"context_assembly", "generation"}
                                           /\ e.prompt = prompt
           Fine(c) == DOMAIN c = {"prompt", "system"} /\ From(c.prompt)
<1>1. PICK ctx : Contexts(seq, n, ctx) /\ GenerationContext(E) = ctx[n]
  BY ContextsExist
<1>2. n \in Nat /\ \A i \in 1..n : seq[i] \in E
  BY InOrder
<1> DEFINE Good == {i \in Nat : i <= n => Fine(ctx[i])}
<1>3. 0 \in Good
  BY <1>1 DEF Contexts, NoContext
<1>4. ASSUME NEW i \in Nat, i \in Good PROVE i + 1 \in Good
  <2> SUFFICES ASSUME i + 1 <= n PROVE Fine(ctx[i + 1])
    OBVIOUS
  <2> DEFINE e == seq[i + 1]
             c == ctx[i]
  <2>1. i + 1 \in 1..n /\ i + 1 - 1 = i /\ i <= n
    BY <1>2
  <2>2. e \in E /\ ctx[i + 1] = Add(c, e)
    BY <1>1, <1>2, <2>1 DEF Contexts
  <2>3. Fine(c)
    BY <1>4, <2>1
  <2>4. Fine(Add(c, e))
    <3> HIDE DEF e, c, n, seq
    <3> QED
      BY <2>2, <2>3 DEF Add, Either
  <2> QED
    BY <2>2, <2>4
<1>5. n \in Good
  <2> HIDE DEF Good
  <2> QED
    BY <1>2, <1>3, <1>4, NatInduction0
<1> QED
  BY <1>1, <1>2, <1>5

(* The answer that is judged is the first one there is (eval.py:166-170).  *)
LEMMA JudgedAnswer ==
  ASSUME NEW E, Ordered(E)
  PROVE  LET all == {e \in E : e.stage = "generation" /\ e.response # NoText}
             answer == Judged(ByStart(E)).answer
         IN  /\ all = {} => answer = NoText
             /\ all # {} => \E e \in all : answer = e.response /\ \A f \in all : e.start <= f.start
<1> DEFINE all == {e \in E : e.stage = "generation" /\ e.response # NoText}
           n == Cardinality(E)
           seq == ByStart(E)
           A == Answers(seq)
           answer == Judged(seq).answer
<1>1. /\ n \in Nat /\ DOMAIN seq = 1..n
      /\ \A i \in 1..n : seq[i] \in E
      /\ \A e \in E : Earlier(E, e) + 1 \in 1..n /\ seq[Earlier(E, e) + 1] = e
      /\ \A i, j \in 1..n : i < j <=> seq[i].start < seq[j].start
  BY InOrder
<1>2. A = {i \in 1..n : seq[i] \in all}
  <2> HIDE DEF seq, n
  <2> QED
    BY <1>1 DEF Answers
<1>3. \A e \in all : \E i \in A : seq[i] = e
  <2> HIDE DEF A, seq, n
  <2> QED
    BY <1>1, <1>2
<1>4. CASE all = {}
  <2>1. A = {}
    BY <1>2, <1>4
  <2>2. answer = NoText
    <3> HIDE DEF A, seq
    <3> QED
      BY <2>1 DEF Judged, A
  <2> QED
    BY <1>4, <2>2
<1>5. CASE all # {}
  <2>1. A # {} /\ A \in SUBSET Int /\ IsFiniteSet(A)
    <3>1. IsFiniteSet(1..n)
      BY <1>1, FS_Interval
    <3>2. A \in SUBSET (1..n) /\ A # {}
      <4> HIDE DEF n, seq, A, all
      <4> QED
        BY <1>2, <1>3, <1>5
    <3>3. A \in SUBSET Int
      <4> HIDE DEF n, seq, A, all
      <4> QED
        BY <3>2
    <3> HIDE DEF n, seq, A, all
    <3> QED
      BY <3>1, <3>2, <3>3, FS_Subset
  <2> DEFINE k == Min(A)
  <2>2. k \in A /\ \A i \in A : k <= i
    <3> HIDE DEF A
    <3> QED
      BY <2>1, Extremes
  <2>3. answer = seq[k].response
    BY <2>1 DEF Judged
  <2>4. k \in 1..n /\ seq[k] \in all
    <3> HIDE DEF A, k, seq, n, all
    <3> QED
      BY <1>2, <2>2
  <2>5. ASSUME NEW f \in all PROVE seq[k].start <= f.start
    <3>1. PICK i \in A : seq[i] = f
      BY <1>3
    <3>2. i \in 1..n /\ k <= i /\ ~(i < k)
      <4> HIDE DEF A, k, seq, n, all
      <4> QED
        BY <1>2, <2>2, <2>4, <1>1
    <3>3. ~(f.start < seq[k].start)
      <4> HIDE DEF A, k, seq, n, all
      <4> QED
        BY <1>1, <2>4, <3>1, <3>2
    <3>4. f.start \in Int /\ seq[k].start \in Int
      <4>1. f \in E /\ seq[k] \in E
        BY <2>4
      <4> HIDE DEF A, k, seq, n, all
      <4> QED
        BY <4>1 DEF Ordered
    <3> HIDE DEF A, k, seq, n, all
    <3> QED
      BY <3>3, <3>4
  <2> HIDE DEF A, k, seq, n, all, answer
  <2>6. \E e \in all : answer = e.response /\ \A f \in all : e.start <= f.start
    BY <2>3, <2>4, <2>5
  <2> QED
    BY <1>5, <2>6 DEF all, answer, seq
<1> QED
  BY <1>4, <1>5

------------------------------------------------------------------------------
(* Every action keeps the invariant. *)

(* What a request does not touch stays as it is. *)
LEMMA TablesStay ==
  ASSUME IInv, UNCHANGED Tables
  PROVE  TablesFinite' /\ TracesFit' /\ HitsFit' /\ ReplaysFit' /\ Kept
<1>1. TablesFinite' /\ TracesFit' /\ HitsFit'
  BY DEF IInv, Tables, TablesFinite, TracesFit, HitsFit
<1>2. ReplaysFit'
  BY DEF IInv, Tables, ReplaysFit, PromptKnown, Prompted, EventsOf
<1>3. Kept
  BY DEF Tables, Kept
<1> QED
  BY <1>1, <1>2, <1>3

(* Scores and requests under way find what they were based on. *)
LEMMA ScoresStay ==
  ASSUME ScoresFit, Kept, UNCHANGED scores PROVE ScoresFit'
<1> SUFFICES ASSUME NEW s \in DOMAIN scores
             PROVE  /\ s[1] \in DOMAIN traces'
                    /\ scores[s].judged => AnswerOf(s[1], scores[s].answer)'
  BY DEF ScoresFit
<1>1. s[1] \in DOMAIN traces'
  BY DEF ScoresFit, Kept
<1>2. scores[s].judged => AnswerOf(s[1], scores[s].answer)
  BY DEF ScoresFit
<1>3. ASSUME NEW tr, NEW answer, AnswerOf(tr, answer)
      PROVE  answer # NoText /\ \E e \in {f \in events' : f.trace = tr} : e.response = answer
  BY <1>3 DEF AnswerOf, EventsOf, Kept
<1>4. scores[s].judged => AnswerOf(s[1], scores[s].answer)'
  BY <1>2, <1>3 DEF AnswerOf, EventsOf
<1> QED
  BY <1>1, <1>4

(* What an evaluation read stays true (eval.py:152-173).                   *)
LEMMA JudgingStays ==
  ASSUME NEW w \in Worker, Judging(w), Kept, req'[w] = req[w] PROVE Judging(w)'
<1> DEFINE r == req[w]
<1>1. r.trace \in DOMAIN traces'
  BY DEF Judging, Kept
<1>2. AnswerOf(r.trace, r.answer) =>
        r.answer # NoText /\ \E e \in {f \in events' : f.trace = r.trace} : e.response = r.answer
  BY DEF AnswerOf, EventsOf, Kept
<1> QED
  BY <1>1, <1>2 DEF Judging, AnswerOf, EventsOf

(* Nothing was logged or asked yet. *)
LEMMA InitOK == Init => IInv
<1> SUFFICES ASSUME Init PROVE IInv
  OBVIOUS
<1>1. DOMAIN traces = {} /\ DOMAIN truth = {} /\ DOMAIN scores = {}
  BY DEF Init
<1>2. TablesFinite
  BY <1>1, FS_EmptySet DEF Init, TablesFinite
<1>3. EventsDated
  BY <1>1, DataAssumption, BoundAssumption DEF Init, EventsDated
<1>4. Requests
  BY DEF Init, Requests, Free
<1> QED
  BY <1>1, <1>2, <1>3, <1>4
     DEF Init, IInv, TracesFit, HitsFit, ReplaysFit, ScoresFit, TruthFits

(* A pipeline's event is stored, however late (api.py:45-49).              *)
LEMMA LogOK == ASSUME IInv, NEW e \in PipelineEvent, PipelineLogs(e) PROVE IInv'
<1>0. TablesFinite /\ TracesFit /\ HitsFit /\ EventsDated /\ now \in Nat /\ Now0 \in Nat
      /\ UNCHANGED <<truth, scores, req, now>> /\ Ingest(e) /\ e \notin events
  BY DataAssumption, BoundAssumption DEF IInv, PipelineLogs, EventsDated
<1>d. e.start \in 0..(Now0 - 1) /\ e.trace \in 0..(Now0 - 1) /\ e.trace \notin Asked
      /\ e.start \notin Asked /\ ~e.replayed
  BY <1>0, DataAssumption DEF Asked
<1>1. Fits(e)
  <2>1. e.project \in Project /\ e.cost \in Nat /\ e.items \in Seq(ToSet(e.items))
    BY DataAssumption
  <2>2. ASSUME e.trace \in DOMAIN traces PROVE e.project = traces[e.trace].project
    <3>1. PICK f \in events : f \in PipelineEvent /\ f.trace = e.trace
      BY <1>0, <1>d, <2>2 DEF EventsDated
    <3>2. f.project = traces[f.trace].project
      BY <1>0 DEF TracesFit
    <3> QED
      BY <3>1, <3>2, DataAssumption
  <2> QED
    BY <2>1, <2>2 DEF Fits
<1>2. /\ TablesFinite' /\ TracesFit' /\ HitsFit' /\ Kept
      /\ events' = events \cup {e} /\ DOMAIN traces' = DOMAIN traces \cup {e.trace}
  BY <1>0, <1>1, IngestFits
<1>3. EventsDated'
  <2>1. \A f \in events' : \/ f \in PipelineEvent
                           \/ f.replayed /\ f.stage = "generation" /\ f.start \in Asked
                              /\ f.prompt # NoText
    BY <1>0, <1>2 DEF EventsDated
  <2>2. \A f \in events : f.start # e.start
    <3> SUFFICES ASSUME NEW f \in events, f.start = e.start PROVE FALSE
      OBVIOUS
    <3>1. f \in PipelineEvent
      BY <1>0, <1>d DEF EventsDated
    <3>2. f.id = e.id
      BY <3>1, DataAssumption
    <3> QED
      BY <3>2 DEF PipelineLogs
  <2>3. \A f, g \in events' : f.start = g.start => f = g
    BY <1>0, <1>2, <2>2 DEF EventsDated
  <2>4. \A tr \in DOMAIN traces' :
          tr \in Asked \/ \E f \in events' : f \in PipelineEvent /\ f.trace = tr
    BY <1>0, <1>2 DEF EventsDated
  <2> QED
    BY <1>0, <2>1, <2>3, <2>4 DEF EventsDated, Asked
<1>4. Requests'
  <2> SUFFICES ASSUME NEW w \in Worker
               PROVE  /\ req[w].step = "generating" => Generating(w)'
                      /\ req[w].step \in {"judging", "storing"} => Judging(w)'
    BY <1>0 DEF IInv, Requests
  <2>1. ASSUME req[w].step = "generating" PROVE Generating(w)'
    <3> DEFINE r == req[w]
    <3>1. Generating(w)
      BY <2>1 DEF IInv, Requests
    <3>2. r.start \in Asked /\ r.prompt # NoText /\ r.start # e.start /\ r.start # e.trace
          /\ \A f \in events' : f.start # r.start
      BY <1>2, <1>d, <3>1 DEF Generating
    <3>3. \/ /\ r.trace \in DOMAIN traces' /\ r.project = traces'[r.trace].project
             /\ PromptKnown(r.trace, r.prompt)'
          \/ r.trace = r.start /\ r.trace \notin DOMAIN traces' /\ r.project \in Project
      <4>1. CASE r.trace \in DOMAIN traces /\ r.project = traces[r.trace].project
                 /\ PromptKnown(r.trace, r.prompt)
        <5>1. r.trace \in DOMAIN traces' /\ r.project = traces'[r.trace].project
          BY <1>2, <4>1 DEF Kept
        <5>2. PromptKnown(req[w].trace, req[w].prompt)'
          BY <1>0, <1>2, <4>1, <3>2 DEF Kept, PromptKnown, Prompted, EventsOf
        <5> QED
          BY <1>0, <5>1, <5>2
      <4>2. CASE r.trace = r.start /\ r.trace \notin DOMAIN traces /\ r.project \in Project
        BY <1>2, <3>2, <4>2
      <4> QED
        BY <3>1, <4>1, <4>2 DEF Generating
    <3>4. req' = req /\ now' = now
      BY <1>0
    <3> QED
      BY <3>1, <3>2, <3>3, <3>4 DEF Generating, Asked
  <2>2. ASSUME req[w].step \in {"judging", "storing"} PROVE Judging(w)'
    BY <1>0, <1>2, <2>2, JudgingStays DEF IInv, Requests
  <2> QED
    BY <2>1, <2>2
<1>5. ReplaysFit'
  <2> SUFFICES ASSUME NEW f \in events', f.replayed PROVE PromptKnown(f.trace, f.prompt)'
    BY DEF ReplaysFit
  <2>1. f \in events
    BY <1>2, <1>d
  <2>2. f.prompt # NoText /\ PromptKnown(f.trace, f.prompt) /\ f.trace \in DOMAIN traces
    BY <1>0, <2>1, DataAssumption DEF IInv, ReplaysFit, EventsDated, TracesFit
  <2> QED
    BY <1>2, <2>2 DEF Kept, PromptKnown, Prompted, EventsOf
<1>6. ScoresFit' /\ TruthFits'
  BY <1>0, <1>2, ScoresStay DEF IInv, TruthFits
<1> QED
  BY <1>2, <1>3, <1>4, <1>5, <1>6 DEF IInv

(* A ground truth has a project (api.py:51-54). *)
LEMMA TruthOK == ASSUME IInv, NEW g \in GroundTruth, SetGroundTruth(g) PROVE IInv'
<1>0. UNCHANGED <<events, traces, chunks, hits, scores, req, now>>
  BY DEF SetGroundTruth
<1>1. TablesFinite' /\ TracesFit' /\ HitsFit' /\ ReplaysFit' /\ Kept
  BY <1>0, TablesStay DEF Tables
<1>2. TruthFits'
  BY DataAssumption DEF SetGroundTruth, Upsert, IInv, TruthFits
<1>3. ScoresFit'
  BY <1>0, <1>1, ScoresStay DEF IInv
<1>4. EventsDated'
  BY <1>0 DEF IInv, EventsDated, Asked
<1>5. Requests'
  BY <1>0 DEF IInv, Requests, Generating, Judging, Asked, PromptKnown, Prompted, AnswerOf, EventsOf
<1> QED
  BY <1>1, <1>2, <1>3, <1>4, <1>5 DEF IInv

(* When a request begins, the clock ticks and all else stays (api.py:133). *)
LEMMA BeginsKeeps ==
  ASSUME IInv, NEW w \in Worker, NEW r, Begins(w, r)
  PROVE  /\ TablesFinite' /\ TracesFit' /\ HitsFit' /\ ReplaysFit' /\ EventsDated'
         /\ ScoresFit' /\ TruthFits'
         /\ now \in Nat /\ now \in Asked' /\ Asked \subseteq Asked' /\ now \notin Asked
         /\ DOMAIN req' = Worker /\ req'[w] = r /\ \A v \in Worker \ {w} : req'[v] = req[v]
         /\ \A v \in Worker \ {w} : req[v].step \in {"judging", "storing"} => Judging(v)'
         /\ \A v \in Worker \ {w} :
              req[v].step = "generating" /\ (r.step = "generating" => r.start = now)
                => Generating(v)'
<1>0. /\ UNCHANGED Tables /\ UNCHANGED <<truth, scores>> /\ now' = now + 1
      /\ now < Now0 + MaxRequests
  BY DEF Begins, Tables
<1>1. TablesFinite' /\ TracesFit' /\ HitsFit' /\ ReplaysFit' /\ Kept
  BY <1>0, TablesStay
<1>2. /\ now \in Nat /\ Now0 \in Nat /\ now \in Asked' /\ Asked \subseteq Asked'
      /\ now \notin Asked /\ now' \in Now0..(Now0 + MaxRequests)
  BY <1>0, DataAssumption, BoundAssumption DEF IInv, EventsDated, Asked
<1>3. EventsDated'
  <2>1. events' = events /\ traces' = traces
    BY <1>0 DEF Tables
  <2> QED
    BY <1>2, <2>1 DEF IInv, EventsDated
<1>4. DOMAIN req' = Worker /\ req'[w] = r /\ \A v \in Worker \ {w} : req'[v] = req[v]
  BY DEF Begins, IInv, Requests
<1>5. ScoresFit' /\ TruthFits'
  BY <1>0, <1>1, ScoresStay DEF IInv, TruthFits
<1>6. ASSUME NEW v \in Worker \ {w}, req[v].step \in {"judging", "storing"} PROVE Judging(v)'
  BY <1>1, <1>4, <1>6, JudgingStays DEF IInv, Requests
<1>7. ASSUME NEW v \in Worker \ {w}, req[v].step = "generating",
             r.step = "generating" => r.start = now
      PROVE  Generating(v)'
  <2>1. Generating(v)
    BY <1>7 DEF IInv, Requests
  <2>2. events' = events /\ traces' = traces /\ req'[v] = req[v]
    BY <1>0, <1>4 DEF Tables
  <2>3. req[v].start \in Asked' /\ req[v].start # now
    BY <1>2, <2>1 DEF Generating
  <2>4. \A u \in Worker : u # v /\ req'[u].step = "generating" => req'[u].start # req[v].start
    <3> SUFFICES ASSUME NEW u \in Worker, u # v, req'[u].step = "generating"
                 PROVE  req'[u].start # req[v].start
      OBVIOUS
    <3>1. CASE u = w
      BY <1>4, <1>7, <2>3, <3>1
    <3>2. CASE u # w
      BY <1>4, <2>1, <3>2 DEF Generating
    <3> QED
      BY <3>1, <3>2
  <2> QED
    BY <2>1, <2>2, <2>3, <2>4 DEF Generating, PromptKnown, Prompted, EventsOf
<1> QED
  BY <1>1, <1>2, <1>3, <1>4, <1>5, <1>6, <1>7

(* A replay begins, of a trace in the trace's project or of its own.       *)
LEMMA ReplayOK ==
  ASSUME IInv, NEW w \in Worker, NEW project, NEW trace, NEW prompt, NEW system,
         Begins(w, Replay(project, trace, prompt, system)), prompt # NoText,
         \/ /\ trace \in DOMAIN traces /\ project = traces[trace].project
            /\ PromptKnown(trace, prompt)
         \/ trace = now /\ project \in Project
  PROVE  IInv'
<1> DEFINE r == Replay(project, trace, prompt, system)
<1>1. /\ TablesFinite' /\ TracesFit' /\ HitsFit' /\ ReplaysFit' /\ EventsDated'
      /\ ScoresFit' /\ TruthFits'
      /\ now \in Nat /\ now \in Asked' /\ Asked \subseteq Asked' /\ now \notin Asked
      /\ DOMAIN req' = Worker /\ req'[w] = r /\ \A v \in Worker \ {w} : req'[v] = req[v]
      /\ \A v \in Worker \ {w} : req[v].step \in {"judging", "storing"} => Judging(v)'
      /\ \A v \in Worker \ {w} :
           req[v].step = "generating" /\ (r.step = "generating" => r.start = now)
             => Generating(v)'
  <2> HIDE DEF r
  <2> QED
    BY BeginsKeeps DEF r
<1>2. /\ r.step = "generating" /\ r.start = now /\ r.trace = trace /\ r.project = project
      /\ r.prompt = prompt
  BY DEF Replay
<1> HIDE DEF r
<1>3. events' = events /\ traces' = traces
  BY DEF Begins
<1>4. now \notin DOMAIN traces /\ \A e \in events : e.start # now
  <2>1. \A e \in PipelineEvent : e.trace < Now0 /\ e.start < Now0
    BY DataAssumption
  <2>2. Now0 \in Nat /\ Now0 <= now
    BY DataAssumption, BoundAssumption DEF IInv, EventsDated
  <2> QED
    BY <1>1, <2>1, <2>2 DEF IInv, EventsDated
<1>5. Generating(w)'
  <2>1. \A v \in Worker : v # w /\ req'[v].step = "generating" => req'[v].start # now
    BY <1>1 DEF IInv, Requests, Generating
  <2> QED
    BY <1>1, <1>2, <1>3, <1>4, <2>1 DEF Generating, PromptKnown, Prompted, EventsOf
<1>6. Requests'
  BY <1>1, <1>2, <1>5 DEF IInv, Requests
<1> QED
  BY <1>1, <1>6 DEF IInv

(* A trace is replayed with a prompt of its pipeline or its query          *)
(* (api.py:139-158).                                                       *)
LEMMA ReplayTraceOK ==
  ASSUME IInv, NEW w \in Worker, NEW tr \in DOMAIN traces, ReplayTrace(w, tr) PROVE IInv'
<1> DEFINE ctx == GenerationContext(EventsOf(tr))
           prompt == Either(ctx.prompt, traces[tr].query)
<1>1. prompt # NoText /\ Begins(w, Replay(traces[tr].project, tr, prompt, ctx.system))
  BY DEF ReplayTrace
<1>2. PromptKnown(tr, prompt)
  <2>1. CASE ctx.prompt = NoText
    BY <2>1 DEF PromptKnown, Either
  <2>2. CASE ctx.prompt # NoText
    <3>1. Ordered(EventsOf(tr))
      <4>1. EventsOf(tr) \in SUBSET events
        BY DEF EventsOf
      <4> QED
        BY <4>1, EventsOrdered DEF IInv
    <3>2. PICK e \in EventsOf(tr) : /\ e.stage \in {"context_assembly", "generation"}
                                    /\ e.prompt = ctx.prompt
      BY <2>2, <3>1, ContextPrompt
    <3>3. e \in events /\ e.trace = tr /\ prompt = e.prompt /\ e.prompt # NoText
      <4> HIDE DEF ctx
      <4> QED
        BY <2>2, <3>2 DEF EventsOf, Either
    <3>4. CASE e.replayed
      <4>1. PromptKnown(tr, e.prompt)
        BY <3>3, <3>4 DEF IInv, ReplaysFit
      <4> HIDE DEF prompt
      <4> QED
        BY <3>3, <4>1
    <3>5. CASE ~e.replayed
      <4>1. Prompted(tr)
        BY <3>2, <3>3, <3>5 DEF Prompted
      <4> QED
        BY <4>1 DEF PromptKnown
    <3> QED
      BY <3>4, <3>5
  <2> QED
    BY <2>1, <2>2
<1> HIDE DEF prompt, ctx
<1> QED
  BY <1>1, <1>2, ReplayOK

(* A prompt without a trace begins one (api.py:139-158).                   *)
LEMMA PromptOK ==
  ASSUME IInv, NEW w \in Worker, NEW p \in Project, GeneratePrompt(w, p) PROVE IInv'
BY ReplayOK, DataAssumption DEF GeneratePrompt

(* An evaluation reads an answer of its trace (eval.py:166-173).           *)
LEMMA EvalOK ==
  ASSUME IInv, NEW w \in Worker, NEW tr \in DOMAIN traces, EvalReads(w, tr) PROVE IInv'
<1> DEFINE j == Judged(GetTrace(tr).events)
           r == [step |-> "judging", trace |-> tr, answer |-> j.answer,
                 faithfulness |-> j.answer # NoText /\ j.chunks # <<>>,
                 answer_relevance |-> j.answer # NoText /\ traces[tr].query # NoText]
<1>1. Begins(w, r)
  BY DEF EvalReads
<1>2. r.faithfulness \/ r.answer_relevance => AnswerOf(tr, r.answer)
  <2> SUFFICES ASSUME j.answer # NoText PROVE AnswerOf(tr, j.answer)
    OBVIOUS
  <2>1. Ordered(EventsOf(tr))
    <3>1. EventsOf(tr) \in SUBSET events
      BY DEF EventsOf
    <3> QED
      BY <3>1, EventsOrdered DEF IInv
  <2>2. j = Judged(ByStart(EventsOf(tr)))
    BY DEF GetTrace
  <2>3. \E e \in EventsOf(tr) : j.answer = e.response
    <3> HIDE DEF j
    <3> QED
      BY <2>1, <2>2, JudgedAnswer
  <2> HIDE DEF j
  <2> QED
    BY <2>3 DEF AnswerOf
<1>3. /\ r.step = "judging" /\ r.trace = tr
      /\ DOMAIN r = {"step", "trace", "answer", "faithfulness", "answer_relevance"}
  OBVIOUS
<1> HIDE DEF r, j
<1>4. /\ TablesFinite' /\ TracesFit' /\ HitsFit' /\ ReplaysFit' /\ EventsDated'
      /\ ScoresFit' /\ TruthFits'
      /\ DOMAIN req' = Worker /\ req'[w] = r /\ \A v \in Worker \ {w} : req'[v] = req[v]
      /\ \A v \in Worker \ {w} : req[v].step \in {"judging", "storing"} => Judging(v)'
      /\ \A v \in Worker \ {w} : req[v].step = "generating" => Generating(v)'
  BY <1>1, <1>3, BeginsKeeps
<1>5. Judging(w)'
  <2>1. events' = events /\ traces' = traces
    BY <1>1 DEF Begins
  <2> QED
    BY <1>2, <1>3, <1>4, <2>1 DEF Judging, AnswerOf, EventsOf
<1>6. Requests'
  BY <1>3, <1>4, <1>5 DEF IInv, Requests
<1> QED
  BY <1>4, <1>6 DEF IInv

(* The answer is logged, in the project of its trace (api.py:163-194).     *)
LEMMA GeneratedOK == ASSUME IInv, NEW w \in Worker, Generated(w) PROVE IInv'
<1> DEFINE r == req[w]
           e == [id |-> r.start, trace |-> r.trace, project |-> r.project,
                 stage |-> "generation", start |-> r.start, day |-> "later", query |-> NoText,
                 items |-> <<>>, before |-> <<>>, prompt |-> r.prompt, system |-> r.system,
                 response |-> "replayed", model |-> "replayer", cost |-> 1, replayed |-> TRUE]
<1>0. /\ TablesFinite /\ TracesFit /\ HitsFit /\ EventsDated /\ Generating(w)
      /\ now \in Nat /\ Now0 \in Nat /\ UNCHANGED <<truth, scores, now>> /\ Ingest(e)
      /\ DOMAIN req' = Worker /\ req'[w] = Free /\ \A v \in Worker \ {w} : req'[v] = req[v]
  BY DataAssumption, BoundAssumption DEF IInv, EventsDated, Generated, Requests
<1>e. /\ e.trace = r.trace /\ e.project = r.project /\ e.start = r.start /\ e.prompt = r.prompt
      /\ e.cost = 1 /\ e.items = <<>> /\ e.replayed /\ e.stage = "generation"
  OBVIOUS
<1> HIDE DEF e
<1>g. /\ r.start \in Asked /\ r.prompt # NoText
      /\ \A f \in events : f.start # r.start
      /\ \A v \in Worker \ {w} : req[v].step = "generating" => req[v].start # r.start
      /\ \/ /\ r.trace \in DOMAIN traces /\ r.project = traces[r.trace].project
            /\ PromptKnown(r.trace, r.prompt)
         \/ r.trace = r.start /\ r.trace \notin DOMAIN traces /\ r.project \in Project
  BY <1>0 DEF Generating
<1>1. Fits(e)
  <2>1. e.items \in Seq(ToSet(e.items))
    BY <1>e
  <2>2. e.project \in Project
    BY <1>0, <1>e, <1>g DEF TracesFit
  <2> QED
    BY <1>e, <1>g, <2>1, <2>2 DEF Fits
<1>2. /\ TablesFinite' /\ TracesFit' /\ HitsFit' /\ Kept
      /\ events' = events \cup {e} /\ DOMAIN traces' = DOMAIN traces \cup {r.trace}
  <2>1. /\ TablesFinite' /\ TracesFit' /\ HitsFit' /\ Kept
        /\ events' = events \cup {e} /\ DOMAIN traces' = DOMAIN traces \cup {e.trace}
    BY <1>0, <1>1, IngestFits
  <2> QED
    BY <1>e, <2>1
<1>3. EventsDated'
  <2>1. \A f \in events' : \/ f \in PipelineEvent
                           \/ f.replayed /\ f.stage = "generation" /\ f.start \in Asked
                              /\ f.prompt # NoText
    BY <1>0, <1>2, <1>e, <1>g DEF EventsDated
  <2>2. \A f, g \in events' : f.start = g.start => f = g
    BY <1>0, <1>2, <1>e, <1>g DEF EventsDated
  <2>3. \A tr \in DOMAIN traces' :
          tr \in Asked \/ \E f \in events' : f \in PipelineEvent /\ f.trace = tr
    BY <1>0, <1>2, <1>g DEF EventsDated
  <2> QED
    BY <1>0, <2>1, <2>2, <2>3 DEF EventsDated, Asked
<1>4. Requests'
  <2>0. Free.step = "free"
    BY DEF Free
  <2> SUFFICES ASSUME NEW v \in Worker \ {w}
               PROVE  /\ req[v].step = "generating" => Generating(v)'
                      /\ req[v].step \in {"judging", "storing"} => Judging(v)'
    BY <1>0, <2>0 DEF IInv, Requests
  <2>1. ASSUME req[v].step = "generating" PROVE Generating(v)'
    <3> DEFINE s == req[v]
    <3>1. Generating(v)
      BY <2>1 DEF IInv, Requests
    <3>2. /\ s.start \in Asked /\ s.prompt # NoText /\ s.start # r.start
          /\ \A f \in events' : f.start # s.start
      BY <1>2, <1>e, <1>g, <2>1, <3>1 DEF Generating
    <3>3. \A u \in Worker : u # v /\ req'[u].step = "generating" => req'[u].start # s.start
      BY <1>0, <2>0, <3>1 DEF Generating
    <3>4. \/ /\ s.trace \in DOMAIN traces' /\ s.project = traces'[s.trace].project
             /\ PromptKnown(req[v].trace, req[v].prompt)'
          \/ s.trace = s.start /\ s.trace \notin DOMAIN traces' /\ s.project \in Project
      <4>1. CASE s.trace \in DOMAIN traces /\ s.project = traces[s.trace].project
                 /\ PromptKnown(s.trace, s.prompt)
        <5>1. s.trace \in DOMAIN traces' /\ s.project = traces'[s.trace].project
          BY <1>2, <4>1 DEF Kept
        <5>2. PromptKnown(req[v].trace, req[v].prompt)'
          BY <1>0, <1>2, <4>1, <3>2 DEF Kept, PromptKnown, Prompted, EventsOf
        <5> QED
          BY <5>1, <5>2
      <4>2. CASE s.trace = s.start /\ s.trace \notin DOMAIN traces /\ s.project \in Project
        BY <1>2, <1>g, <3>2, <4>2
      <4> QED
        BY <3>1, <4>1, <4>2 DEF Generating
    <3>5. req'[v] = s /\ now' = now
      BY <1>0
    <3> QED
      BY <3>2, <3>3, <3>4, <3>5 DEF Generating, Asked, PromptKnown
  <2>2. ASSUME req[v].step \in {"judging", "storing"} PROVE Judging(v)'
    BY <1>0, <1>2, <2>2, JudgingStays DEF IInv, Requests
  <2> QED
    BY <2>1, <2>2
<1>5. ReplaysFit'
  <2> SUFFICES ASSUME NEW f \in events', f.replayed PROVE PromptKnown(f.trace, f.prompt)'
    BY DEF ReplaysFit
  <2>1. CASE f \in events
    <3>1. f.prompt # NoText /\ PromptKnown(f.trace, f.prompt) /\ f.trace \in DOMAIN traces
      BY <1>0, <2>1, DataAssumption DEF IInv, ReplaysFit, EventsDated, TracesFit
    <3> QED
      BY <1>2, <3>1 DEF Kept, PromptKnown, Prompted, EventsOf
  <2>2. CASE f = e
    <3>1. f.trace = r.trace /\ f.prompt = r.prompt
      BY <1>e, <2>2
    <3>2. CASE r.trace \in DOMAIN traces /\ PromptKnown(r.trace, r.prompt)
      BY <1>2, <1>g, <3>1, <3>2 DEF Kept, PromptKnown, Prompted, EventsOf
    <3>3. CASE r.trace = r.start
      BY <1>0, <1>g, <3>1, <3>3 DEF PromptKnown, Asked
    <3> QED
      BY <1>g, <3>2, <3>3
  <2> QED
    BY <1>2, <2>1, <2>2
<1>6. ScoresFit' /\ TruthFits'
  BY <1>0, <1>2, ScoresStay DEF IInv, TruthFits
<1> QED
  BY <1>2, <1>3, <1>4, <1>5, <1>6 DEF IInv

(* A request that goes on, and touches no more than scores, with r for     *)
(* what its thread does then.                                              *)
Goes(w, r) ==
  /\ req[w].step # "free"
  /\ req' = [req EXCEPT ![w] = r]
  /\ UNCHANGED <<events, traces, chunks, hits, truth, now>>

(* It leaves the invariant true (api.py:159-162, 198-223).                 *)
LEMMA GoesOK ==
  ASSUME IInv, NEW w \in Worker, NEW r, Goes(w, r), ScoresFit',
         r = Free \/ (r.step = "storing" /\ Judging(w)')
  PROVE  IInv'
<1>1. TablesFinite' /\ TracesFit' /\ HitsFit' /\ ReplaysFit' /\ Kept
  BY TablesStay DEF Goes, Tables
<1>2. EventsDated' /\ TruthFits'
  BY DEF Goes, IInv, EventsDated, TruthFits, Asked
<1>3. DOMAIN req' = Worker /\ req'[w] = r /\ \A v \in Worker \ {w} : req'[v] = req[v]
  BY DEF Goes, IInv, Requests
<1>4. r.step \in {"free", "storing"}
  BY DEF Free
<1>5. ASSUME NEW v \in Worker \ {w}, req[v].step = "generating" PROVE Generating(v)'
  <2>1. Generating(v) /\ events' = events /\ traces' = traces /\ now' = now
    BY <1>5 DEF Goes, IInv, Requests
  <2>2. \A u \in Worker : u # v /\ req'[u].step = "generating" => req'[u].start # req[v].start
    BY <1>3, <1>4, <2>1 DEF Generating
  <2> QED
    BY <1>3, <2>1, <2>2 DEF Generating, Asked, PromptKnown, Prompted, EventsOf
<1>6. ASSUME NEW v \in Worker \ {w}, req[v].step \in {"judging", "storing"} PROVE Judging(v)'
  BY <1>1, <1>3, <1>6, JudgingStays DEF IInv, Requests
<1>7. Requests'
  BY <1>3, <1>4, <1>5, <1>6 DEF IInv, Requests, Free
<1> QED
  BY <1>1, <1>2, <1>7 DEF IInv

(* A failed request leaves nothing behind (api.py:159-162).                *)
LEMMA FailsOK == ASSUME IInv, NEW w \in Worker, ModelFails(w) PROVE IInv'
<1>1. Goes(w, Free) /\ UNCHANGED scores /\ UNCHANGED Tables
  BY DEF ModelFails, Goes, Tables
<1>2. ScoresFit'
  BY <1>1, TablesStay, ScoresStay DEF IInv
<1> QED
  BY <1>1, <1>2, GoesOK

(* A score is of an answer of its trace (db.py:523-534).                   *)
LEMMA ScoreFits ==
  ASSUME IInv, NEW w \in Worker, req[w].step \in {"judging", "storing"},
         NEW metric \in {"faithfulness", "answer_relevance"}, SetEvalScore(w, metric),
         UNCHANGED Tables
  PROVE  ScoresFit'
<1> DEFINE r == req[w]
           key == <<r.trace, metric>>
           row == [answer |-> r.answer, judged |-> r[metric]]
<1>1. r.trace \in DOMAIN traces /\ (r[metric] => AnswerOf(r.trace, r.answer))
  BY DEF IInv, Requests, Judging
<1>2. DOMAIN scores' = {key} \cup DOMAIN scores
      /\ \A s \in DOMAIN scores' : scores'[s] = IF s = key THEN row ELSE scores[s]
  BY DEF SetEvalScore, Upsert
<1>3. key[1] = r.trace /\ row.answer = r.answer /\ row.judged = r[metric]
  OBVIOUS
<1> HIDE DEF key, row
<1>4. ASSUME NEW s \in DOMAIN scores'
      PROVE  s[1] \in DOMAIN traces /\ (scores'[s].judged => AnswerOf(s[1], scores'[s].answer))
  <2>1. CASE s = key
    BY <1>1, <1>2, <1>3, <2>1
  <2>2. CASE s # key
    BY <1>2, <2>2 DEF IInv, ScoresFit
  <2> QED
    BY <2>1, <2>2
<1>5. events' = events /\ traces' = traces
  BY DEF Tables
<1> QED
  BY <1>4, <1>5 DEF ScoresFit, AnswerOf, EventsOf

(* The first score is stored; the request has another (api.py:218-222).    *)
LEMMA FaithfulnessOK == ASSUME IInv, NEW w \in Worker, StoreFaithfulness(w) PROVE IInv'
<1> DEFINE r == [req[w] EXCEPT !.step = "storing"]
<1>1. req[w].step = "judging" /\ Goes(w, r) /\ UNCHANGED Tables
      /\ SetEvalScore(w, "faithfulness")
  BY DEF StoreFaithfulness, Goes, Tables
<1>2. ScoresFit'
  BY <1>1, ScoreFits
<1>3. Judging(w)
  BY <1>1 DEF IInv, Requests
<1>4. /\ r.step = "storing" /\ DOMAIN r = DOMAIN req[w] /\ r.trace = req[w].trace
      /\ r.answer = req[w].answer /\ r.faithfulness = req[w].faithfulness
      /\ r.answer_relevance = req[w].answer_relevance
  BY <1>3 DEF Judging
<1>5. req'[w] = r /\ events' = events /\ traces' = traces
  BY <1>1 DEF Goes, IInv, Requests
<1> HIDE DEF r
<1>6. Judging(w)'
  BY <1>3, <1>4, <1>5 DEF Judging, AnswerOf, EventsOf
<1> QED
  BY <1>1, <1>2, <1>4, <1>6, GoesOK

(* The second score is stored (api.py:218-222).                            *)
LEMMA RelevanceOK == ASSUME IInv, NEW w \in Worker, StoreRelevance(w) PROVE IInv'
<1>1. req[w].step = "storing" /\ Goes(w, Free) /\ UNCHANGED Tables
      /\ SetEvalScore(w, "answer_relevance")
  BY DEF StoreRelevance, Goes, Tables
<1>2. ScoresFit'
  BY <1>1, ScoreFits
<1> QED
  BY <1>1, <1>2, GoesOK

(* Every step keeps the invariant (api.py:39-231).                         *)
LEMMA StepOK == IInv /\ [Next]_vars => IInv'
<1> SUFFICES ASSUME IInv, [Next]_vars PROVE IInv'
  OBVIOUS
<1>1. ASSUME NEW e \in PipelineEvent, PipelineLogs(e) PROVE IInv'
  BY <1>1, LogOK
<1>2. ASSUME NEW g \in GroundTruth, SetGroundTruth(g) PROVE IInv'
  BY <1>2, TruthOK
<1>3. ASSUME NEW w \in Worker, NEW tr \in DOMAIN traces, ReplayTrace(w, tr) PROVE IInv'
  BY <1>3, ReplayTraceOK
<1>4. ASSUME NEW w \in Worker, NEW tr \in DOMAIN traces, EvalReads(w, tr) PROVE IInv'
  BY <1>4, EvalOK
<1>5. ASSUME NEW w \in Worker, NEW p \in Project, GeneratePrompt(w, p) PROVE IInv'
  BY <1>5, PromptOK
<1>6. ASSUME NEW w \in Worker, Generated(w) PROVE IInv'
  BY <1>6, GeneratedOK
<1>7. ASSUME NEW w \in Worker,
             ModelFails(w) \/ StoreFaithfulness(w) \/ StoreRelevance(w)
      PROVE  IInv'
  BY <1>7, FailsOK, FaithfulnessOK, RelevanceOK
<1>8. CASE UNCHANGED vars
  <2>1. TablesFinite' /\ TracesFit' /\ HitsFit' /\ ReplaysFit' /\ Kept
    BY <1>8, TablesStay DEF vars, Tables
  <2>2. EventsDated' /\ TruthFits'
    BY <1>8 DEF vars, IInv, EventsDated, TruthFits, Asked
  <2>3. ScoresFit'
    BY <1>8, <2>1, ScoresStay DEF vars, IInv
  <2>4. Requests'
    BY <1>8 DEF vars, IInv, Requests, Generating, Judging, Asked, PromptKnown, Prompted,
                AnswerOf, EventsOf
  <2> QED
    BY <2>1, <2>2, <2>3, <2>4 DEF IInv
<1> QED
  BY <1>1, <1>2, <1>3, <1>4, <1>5, <1>6, <1>7, <1>8 DEF Next, WorkerStep

------------------------------------------------------------------------------
(* The views. *)

(* A set of events has a cost, as a sum over them. *)
Cost == [e \in events |-> e.cost]

(* A query's SUM is that sum (db.py:286-290).                              *)
LEMMA CostIs ==
  ASSUME TablesFinite, TracesFit, NEW E \in SUBSET events
  PROVE  /\ IsFiniteSet(E) /\ SumCost(E) = SumFunctionOnSet(Cost, E)
         /\ \A e \in E : Cost[e] \in Nat
<1> DEFINE f == [e \in E |-> e.cost]
<1>1. IsFiniteSet(E)
  BY FS_Subset DEF TablesFinite
<1>2. \A e \in E : f[e] = Cost[e] /\ Cost[e] \in Nat
  BY DEF Cost, TracesFit
<1>3. SumCost(E) = SumFunctionOnSet(f, E)
  BY DEF SumCost, SumFunction
<1>4. SumFunctionOnSet(f, E) = SumFunctionOnSet(Cost, E)
  <2> HIDE DEF f
  <2> QED
    BY <1>1, <1>2, SumSame
<1> QED
  BY <1>1, <1>2, <1>3, <1>4

(* GROUP BY adds up to the total (db.py:286-330, 428-456).                 *)
LEMMA CostByKey ==
  ASSUME TablesFinite, TracesFit, NEW E \in SUBSET events, NEW key, NEW K, IsFiniteSet(K),
         \A e \in E : key[e] \in K
  PROVE  SumCost(E) = SumFunction([k \in K |-> SumCost({e \in E : key[e] = k})])
<1> DEFINE Part(k) == {e \in E : key[e] = k}
<1>1. /\ IsFiniteSet(E) /\ SumCost(E) = SumFunctionOnSet(Cost, E)
      /\ \A e \in E : Cost[e] \in Nat
  BY CostIs
<1>2. SumFunctionOnSet(Cost, E) = SumFunction([k \in K |-> SumFunctionOnSet(Cost, Part(k))])
  BY <1>1, SumParts
<1>3. ASSUME NEW k \in K PROVE SumFunctionOnSet(Cost, Part(k)) = SumCost(Part(k))
  <2>1. Part(k) \in SUBSET events
    OBVIOUS
  <2> HIDE DEF Part
  <2> QED
    BY <2>1, CostIs
<1>4. [k \in K |-> SumFunctionOnSet(Cost, Part(k))] = [k \in K |-> SumCost(Part(k))]
  <2> HIDE DEF Part
  <2> QED
    BY <1>3
<1> QED
  BY <1>1, <1>2, <1>4

(* COUNT with GROUP BY adds up to the count of all (db.py:314, 357-399).   *)
LEMMA CountByKey ==
  ASSUME NEW S, IsFiniteSet(S), NEW key, NEW K, IsFiniteSet(K), \A x \in S : key[x] \in K
  PROVE  Cardinality(S) = SumFunction([k \in K |-> Cardinality({x \in S : key[x] = k})])
<1> DEFINE Part(k) == {x \in S : key[x] = k}
           one == [x \in S |-> 1]
<1>1. \A x \in S : one[x] = 1 /\ one[x] \in Nat
  OBVIOUS
<1> HIDE DEF one
<1>2. SumFunctionOnSet(one, S) = SumFunction([k \in K |-> SumFunctionOnSet(one, Part(k))])
  BY <1>1, SumParts
<1>3. SumFunctionOnSet(one, S) = Cardinality(S)
  BY <1>1, SumOnes
<1>4. ASSUME NEW k \in K PROVE SumFunctionOnSet(one, Part(k)) = Cardinality(Part(k))
  <2>1. Part(k) \in SUBSET S
    OBVIOUS
  <2> HIDE DEF Part
  <2>2. IsFiniteSet(Part(k)) /\ \A x \in Part(k) : one[x] = 1
    BY <1>1, <2>1, FS_Subset
  <2> QED
    BY <2>2, SumOnes
<1>5. [k \in K |-> SumFunctionOnSet(one, Part(k))] = [k \in K |-> Cardinality(Part(k))]
  <2> HIDE DEF Part
  <2> QED
    BY <1>4
<1> QED
  BY <1>2, <1>3, <1>5

(* The cost of a project by trace, by model, by day and with embeddings.   *)
LEMMA CostsAgree == ASSUME TablesFinite, TracesFit PROVE ViewsAgreeOnCost
<1> SUFFICES ASSUME NEW p \in Project
             PROVE  LET total == CostSummary(p).total
                        listed == ListTraces(p)
                        embedded == SumCost({e \in events : e.project = p /\ e.stage = "embedding"})
                    IN /\ total = SumFunction([tr \in DOMAIN listed |-> listed[tr].cost])
                       /\ total = SumFunction(CostSummary(p).by_model)
                       /\ total = SumFunction(CostSummary(p).by_day)
                       /\ ProjectCost(p) = total + embedded
  BY DEF ViewsAgreeOnCost
<1> DEFINE G == Generations(p)
           M == {e \in events : e.project = p /\ e.stage = "embedding"}
           listed == ListTraces(p)
<1>1. G \in SUBSET events /\ IsFiniteSet(G) /\ CostSummary(p).total = SumCost(G)
  <2>1. G \in SUBSET events
    BY DEF Generations
  <2> QED
    BY <2>1, CostIs DEF CostSummary
<1>2. SumCost(G) = SumFunction([tr \in DOMAIN listed |-> listed[tr].cost])
  <2> DEFINE key == [e \in G |-> e.trace]
             K == TracesOf(p)
             Of(tr) == {e \in EventsOf(tr) : e.stage = "generation"}
  <2>1. IsFiniteSet(K)
    <3>1. K \in SUBSET DOMAIN traces
      BY DEF TracesOf
    <3> HIDE DEF K
    <3> QED
      BY <3>1, FS_Subset DEF TablesFinite
  <2>2. \A e \in G : key[e] \in K
    BY DEF Generations, TracesOf, TracesFit
  <2>3. SumCost(G) = SumFunction([tr \in K |-> SumCost({e \in G : key[e] = tr})])
    <3> HIDE DEF key, K, G
    <3> QED
      BY <1>1, <2>1, <2>2, CostByKey
  <2>4. ASSUME NEW tr \in K PROVE {e \in G : key[e] = tr} = Of(tr)
    BY DEF Generations, EventsOf, TracesOf, TracesFit
  <2>5. DOMAIN listed = K /\ \A tr \in K : listed[tr].cost = SumCost(Of(tr))
    BY DEF ListTraces
  <2>6. [tr \in K |-> SumCost({e \in G : key[e] = tr})] = [tr \in DOMAIN listed |-> listed[tr].cost]
    <3> HIDE DEF key, K, G, Of, listed
    <3> QED
      BY <2>4, <2>5
  <2> QED
    BY <2>3, <2>6
<1>3. SumCost(G) = SumFunction(CostSummary(p).by_model)
  <2> DEFINE key == [e \in G |-> e.model]
             K == {key[e] : e \in G}
  <2>1. IsFiniteSet(K)
    <3> HIDE DEF key, G
    <3> QED
      BY <1>1, Images
  <2>2. \A e \in G : key[e] \in K
    OBVIOUS
  <2>3. SumCost(G) = SumFunction([k \in K |-> SumCost({e \in G : key[e] = k})])
    <3> HIDE DEF key, K, G
    <3> QED
      BY <1>1, <2>1, <2>2, CostByKey
  <2>4. CostSummary(p).by_model = [k \in {e.model : e \in G} |-> SumCost({e \in G : e.model = k})]
    BY DEF CostSummary
  <2>5. K = {e.model : e \in G}
    OBVIOUS
  <2>6. ASSUME NEW k PROVE {e \in G : key[e] = k} = {e \in G : e.model = k}
    OBVIOUS
  <2>7. [k \in K |-> SumCost({e \in G : key[e] = k})]
          = [k \in K |-> SumCost({e \in G : e.model = k})]
    <3> HIDE DEF key, K, G
    <3> QED
      BY <2>6
  <2>8. CostSummary(p).by_model = [k \in K |-> SumCost({e \in G : e.model = k})]
    <3> HIDE DEF key, K, G
    <3> QED
      BY <2>4, <2>5
  <2> HIDE DEF key, K, G
  <2> QED
    BY <2>3, <2>7, <2>8
<1>4. SumCost(G) = SumFunction(CostSummary(p).by_day)
  <2> DEFINE key == [e \in G |-> e.day]
             K == {key[e] : e \in G}
  <2>1. IsFiniteSet(K)
    <3> HIDE DEF key, G
    <3> QED
      BY <1>1, Images
  <2>2. \A e \in G : key[e] \in K
    OBVIOUS
  <2>3. SumCost(G) = SumFunction([k \in K |-> SumCost({e \in G : key[e] = k})])
    <3> HIDE DEF key, K, G
    <3> QED
      BY <1>1, <2>1, <2>2, CostByKey
  <2>4. CostSummary(p).by_day = [k \in {e.day : e \in G} |-> SumCost({e \in G : e.day = k})]
    BY DEF CostSummary
  <2>5. K = {e.day : e \in G}
    OBVIOUS
  <2>6. ASSUME NEW k PROVE {e \in G : key[e] = k} = {e \in G : e.day = k}
    OBVIOUS
  <2>7. [k \in K |-> SumCost({e \in G : key[e] = k})]
          = [k \in K |-> SumCost({e \in G : e.day = k})]
    <3> HIDE DEF key, K, G
    <3> QED
      BY <2>6
  <2>8. CostSummary(p).by_day = [k \in K |-> SumCost({e \in G : e.day = k})]
    <3> HIDE DEF key, K, G
    <3> QED
      BY <2>4, <2>5
  <2> HIDE DEF key, K, G
  <2> QED
    BY <2>3, <2>7, <2>8
<1>5. ProjectCost(p) = SumCost(G) + SumCost(M)
  <2> DEFINE U == {e \in events : e.project = p /\ e.stage \in {"generation", "embedding"}}
  <2>1. U = G \cup M /\ G \cap M = {} /\ M \in SUBSET events /\ U \in SUBSET events
    BY DEF Generations
  <2>2. ProjectCost(p) = SumCost(U)
    BY DEF ProjectCost
  <2> HIDE DEF U, M, G
  <2>3. /\ SumCost(U) = SumFunctionOnSet(Cost, U) /\ SumCost(G) = SumFunctionOnSet(Cost, G)
        /\ SumCost(M) = SumFunctionOnSet(Cost, M)
    BY <1>1, <2>1, CostIs
  <2>4. IsFiniteSet(events) /\ \A e \in events : Cost[e] \in Nat
    BY DEF TablesFinite, TracesFit, Cost
  <2>5. SumFunctionOnSet(Cost, G \cup M) = SumFunctionOnSet(Cost, G) + SumFunctionOnSet(Cost, M)
    BY <1>1, <2>1, <2>4, SumUnion
  <2> QED
    BY <2>1, <2>2, <2>3, <2>5
<1> HIDE DEF G, M
<1> QED
  BY <1>1, <1>2, <1>3, <1>4, <1>5 DEF M

(* The chunks of a project, retrieved and unused, and the hits of it.      *)
LEMMA ChunksPartition == ASSUME TablesFinite, TracesFit, HitsFit PROVE ChunkViewsPartition
<1> SUFFICES ASSUME NEW p \in Project
             PROVE  LET top    == {row.hash : row \in TopView(p)}
                        unused == {c.hash : c \in UnusedView(p)}
                    IN /\ top \cap unused = {}
                       /\ top \cup unused = {c.hash : c \in ChunksOf(p)}
                       /\ \A row \in DuplicatesView(p) : row.hash \in unused <=> row.retrievals = 0
                       /\ SumFunction([hash \in top |-> Cardinality(HitsOf(p, hash))])
                            = SumFunction([tr \in TracesOf(p) |-> ListTraces(p)[tr].chunks])
  BY DEF ChunkViewsPartition
<1> DEFINE top    == {row.hash : row \in TopView(p)}
           unused == {c.hash : c \in UnusedView(p)}
           H      == {h \in hits : h.project = p}
<1>1. top = {c.hash : c \in {d \in ChunksOf(p) : HitsOf(p, d.hash) # {}}}
  <2> DEFINE D == {d \in ChunksOf(p) : HitsOf(p, d.hash) # {}}
             Row(c) == [hash |-> c.hash,
                        retrievals |-> Cardinality(Copies(p, c.hash) \X HitsOf(p, c.hash))]
  <2>1. TopView(p) = {Row(c) : c \in D}
    BY DEF TopView
  <2>2. \A c : Row(c).hash = c.hash
    OBVIOUS
  <2> HIDE DEF D, Row
  <2>3. top = {c.hash : c \in D}
    BY <2>1, <2>2
  <2> QED
    BY <2>3 DEF D
<1>2. unused = {c.hash : c \in {d \in ChunksOf(p) : HitsOf(p, d.hash) = {}}}
  BY DEF UnusedView
<1> HIDE DEF top, unused
<1>3. top \cap unused = {}
  BY <1>1, <1>2
<1>4. top \cup unused = {c.hash : c \in ChunksOf(p)}
  BY <1>1, <1>2
<1>5. ASSUME NEW row \in DuplicatesView(p) PROVE row.hash \in unused <=> row.retrievals = 0
  <2>1. PICK c \in ChunksOf(p) : row.hash = c.hash /\ row.retrievals = Cardinality(HitsOf(p, c.hash))
    BY <1>5 DEF DuplicatesView
  <2>2. HitsOf(p, c.hash) \in SUBSET hits
    BY DEF HitsOf
  <2>3. Cardinality(HitsOf(p, c.hash)) = 0 <=> HitsOf(p, c.hash) = {}
    BY <2>2, Smaller DEF TablesFinite
  <2> QED
    BY <1>2, <2>1, <2>3
<1>6. IsFiniteSet(H)
  BY FS_Subset DEF TablesFinite
<1>7. Cardinality(H) = SumFunction([hash \in top |-> Cardinality(HitsOf(p, hash))])
  <2> DEFINE key == [h \in H |-> h.hash]
             hash == [c \in chunks |-> c.hash]
  <2>1. IsFiniteSet(top)
    <3>1. IsFiniteSet({hash[c] : c \in chunks})
      <4> HIDE DEF hash
      <4> QED
        BY Images DEF TablesFinite
    <3>2. top \in SUBSET {hash[c] : c \in chunks}
      BY <1>1 DEF ChunksOf
    <3> HIDE DEF hash
    <3> QED
      BY <3>1, <3>2, FS_Subset
  <2>2. \A h \in H : key[h] \in top
    BY <1>1 DEF HitsFit, ChunksOf, HitsOf
  <2>3. \A k : {h \in H : key[h] = k} = HitsOf(p, k)
    BY DEF HitsOf
  <2>4. Cardinality(H) = SumFunction([k \in top |-> Cardinality({h \in H : key[h] = k})])
    <3> HIDE DEF key, H
    <3> QED
      BY <1>6, <2>1, <2>2, CountByKey
  <2> HIDE DEF key, H
  <2> QED
    BY <2>3, <2>4
<1>8. Cardinality(H) = SumFunction([tr \in TracesOf(p) |-> ListTraces(p)[tr].chunks])
  <2> DEFINE key == [h \in H |-> h.trace]
             K == TracesOf(p)
  <2>1. IsFiniteSet(K)
    <3>1. K \in SUBSET DOMAIN traces
      BY DEF TracesOf
    <3> HIDE DEF K
    <3> QED
      BY <3>1, FS_Subset DEF TablesFinite
  <2>2. \A h \in H : key[h] \in K
    BY DEF HitsFit, TracesOf
  <2>3. ASSUME NEW tr \in K PROVE {h \in H : key[h] = tr} = {h \in hits : h.trace = tr}
    BY DEF HitsFit, TracesOf
  <2>4. \A tr \in K : ListTraces(p)[tr].chunks = Cardinality({h \in hits : h.trace = tr})
    BY DEF ListTraces
  <2>5. Cardinality(H) = SumFunction([k \in K |-> Cardinality({h \in H : key[h] = k})])
    <3> HIDE DEF key, H, K
    <3> QED
      BY <1>6, <2>1, <2>2, CountByKey
  <2>6. [k \in K |-> Cardinality({h \in H : key[h] = k})] = [tr \in K |-> ListTraces(p)[tr].chunks]
    <3> HIDE DEF key, H, K
    <3> QED
      BY <2>3, <2>4
  <2> QED
    BY <2>5, <2>6
<1> QED
  BY <1>3, <1>4, <1>5, <1>7, <1>8 DEF top, unused

------------------------------------------------------------------------------
(* Replays and evaluations. *)

(* If all of O started before the rest, O is listed first and as ever.     *)
LEMMA Prefix ==
  ASSUME NEW E, Ordered(E), NEW O \in SUBSET E,
         \A e \in O : \A f \in E \ O : e.start < f.start
  PROVE  /\ Ordered(O) /\ Cardinality(O) <= Cardinality(E)
         /\ \A i \in 1..Cardinality(O) : ByStart(E)[i] = ByStart(O)[i]
         /\ \A i \in 1..Cardinality(E) : i > Cardinality(O) => ByStart(E)[i] \in E \ O
<1> DEFINE n == Cardinality(E)
           m == Cardinality(O)
<1>1. Ordered(O) /\ m <= n
  BY FS_Subset DEF Ordered
<1>2. /\ n \in Nat
      /\ \A i \in 1..n : ByStart(E)[i] \in E /\ Earlier(E, ByStart(E)[i]) = i - 1
      /\ \A e \in E : Earlier(E, e) + 1 \in 1..n /\ ByStart(E)[Earlier(E, e) + 1] = e
  BY InOrder
<1>3. /\ m \in Nat
      /\ \A i \in 1..m : ByStart(O)[i] \in O /\ Earlier(O, ByStart(O)[i]) = i - 1
      /\ \A e \in O : Earlier(O, e) + 1 \in 1..m
  BY <1>1, InOrder
<1>4. ASSUME NEW e \in O PROVE Earlier(E, e) = Earlier(O, e)
  <2>1. {f \in E : f.start < e.start} = {f \in O : f.start < e.start}
    BY DEF Ordered
  <2> QED
    BY <2>1 DEF Earlier
<1> HIDE DEF n, m
<1>5. ASSUME NEW i \in 1..m PROVE ByStart(E)[i] = ByStart(O)[i]
  <2> DEFINE e == ByStart(O)[i]
  <2>1. e \in O /\ Earlier(E, e) = i - 1
    BY <1>3, <1>4
  <2>2. ByStart(E)[Earlier(E, e) + 1] = e
    BY <1>2, <2>1
  <2>3. Earlier(E, e) + 1 = i
    BY <1>3, <2>1
  <2> QED
    BY <2>2, <2>3
<1>6. ASSUME NEW i \in 1..n, i > m PROVE ByStart(E)[i] \in E \ O
  <2> DEFINE e == ByStart(E)[i]
  <2>1. e \in E /\ Earlier(E, e) = i - 1
    BY <1>2
  <2>2. ASSUME e \in O PROVE FALSE
    <3>1. i - 1 + 1 \in 1..m
      <4> HIDE DEF e
      <4> QED
        BY <1>3, <1>4, <2>1, <2>2
    <3> QED
      BY <1>2, <1>3, <1>6, <3>1
  <2> QED
    BY <2>1, <2>2
<1> QED
  BY <1>1, <1>5, <1>6 DEF n, m

Whole(ctx) == DOMAIN ctx = {"prompt", "system"}

Prompts(e) == e.stage \in {"context_assembly", "generation"} /\ e.prompt # NoText

(* A prompt once found is not lost, and a generation adds no more than a   *)
(* prompt that is missing (db.py:513-519).                                 *)
LEMMA AddKeeps ==
  ASSUME NEW ctx, Whole(ctx), NEW e
  PROVE  /\ Whole(Add(ctx, e))
         /\ ctx.prompt # NoText \/ Prompts(e) => Add(ctx, e).prompt # NoText
         /\ e.stage = "generation" =>
              /\ Add(ctx, e).system = ctx.system
              /\ Add(ctx, e).prompt = IF ctx.prompt # NoText THEN ctx.prompt ELSE e.prompt
BY DEF Whole, Prompts, Add, Either

(* A trace with a prompt has a context with a prompt (db.py:511-520).      *)
LEMMA ContextHasPrompt ==
  ASSUME NEW E, Ordered(E), NEW e \in E, Prompts(e)
  PROVE  GenerationContext(E).prompt # NoText
<1> DEFINE n == Cardinality(E)
           seq == ByStart(E)
           k == Earlier(E, e) + 1
<1>1. PICK ctx : Contexts(seq, n, ctx) /\ GenerationContext(E) = ctx[n]
  BY ContextsExist
<1>2. n \in Nat /\ k \in 1..n /\ seq[k] = e
  BY InOrder
<1> HIDE DEF n, seq, k
<1> DEFINE Good == {i \in Nat : i <= n => Whole(ctx[i]) /\ (k <= i => ctx[i].prompt # NoText)}
<1>3. 0 \in Good
  BY <1>1, <1>2 DEF Contexts, NoContext, Whole
<1>4. ASSUME NEW i \in Nat, i \in Good PROVE i + 1 \in Good
  <2> SUFFICES ASSUME i + 1 <= n
               PROVE  Whole(ctx[i + 1]) /\ (k <= i + 1 => ctx[i + 1].prompt # NoText)
    OBVIOUS
  <2>1. i + 1 \in 1..n /\ i + 1 - 1 = i /\ i <= n /\ (k <= i + 1 => k <= i \/ k = i + 1)
    BY <1>2
  <2>2. ctx[i + 1] = Add(ctx[i], seq[i + 1])
    BY <1>1, <2>1 DEF Contexts
  <2>3. Whole(ctx[i]) /\ (k <= i => ctx[i].prompt # NoText)
    BY <1>4, <2>1
  <2> DEFINE c == ctx[i]
             f == seq[i + 1]
  <2>4. /\ Whole(Add(c, f))
        /\ c.prompt # NoText \/ Prompts(f) => Add(c, f).prompt # NoText
    BY <2>3, AddKeeps
  <2>5. k <= i + 1 => c.prompt # NoText \/ Prompts(f)
    BY <1>2, <2>1, <2>3
  <2> QED
    BY <2>2, <2>4, <2>5
<1>5. n \in Good
  <2> HIDE DEF Good
  <2> QED
    BY <1>2, <1>3, <1>4, NatInduction0
<1> QED
  BY <1>1, <1>2, <1>5

(* What generations that come last do to the context: no more than fill in *)
(* a missing prompt with one of theirs.                                    *)
LEMMA ReplaysAdd ==
  ASSUME NEW E, Ordered(E), NEW O \in SUBSET E,
         \A e \in O : \A f \in E \ O : e.start < f.start,
         \A f \in E \ O : f.stage = "generation"
  PROVE  LET all == GenerationContext(E)
             own == GenerationContext(O)
         IN  /\ all.system = own.system
             /\ IF own.prompt # NoText THEN all.prompt = own.prompt
                ELSE all.prompt \in {NoText} \cup {f.prompt : f \in E \ O}
<1> DEFINE n == Cardinality(E)
           m == Cardinality(O)
           seq == ByStart(E)
           sub == ByStart(O)
           all == GenerationContext(E)
           own == GenerationContext(O)
<1>0. /\ Ordered(O) /\ m <= n
      /\ \A i \in 1..m : seq[i] = sub[i]
      /\ \A i \in 1..n : i > m => seq[i] \in E \ O
  BY Prefix
<1>1. PICK ctx : Contexts(seq, n, ctx) /\ all = ctx[n]
  BY ContextsExist
<1>2. PICK sup : Contexts(sub, m, sup) /\ own = sup[m]
  BY <1>0, ContextsExist
<1>3. n \in Nat /\ m \in Nat
  BY <1>0, InOrder
<1> HIDE DEF n, m, seq, sub, all, own
<1> DEFINE Same == {i \in Nat : i <= m => Whole(ctx[i]) /\ ctx[i] = sup[i]}
<1>4. 0 \in Same
  BY <1>1, <1>2 DEF Contexts, NoContext, Whole
<1>5. ASSUME NEW i \in Nat, i \in Same PROVE i + 1 \in Same
  <2> SUFFICES ASSUME i + 1 <= m PROVE Whole(ctx[i + 1]) /\ ctx[i + 1] = sup[i + 1]
    OBVIOUS
  <2>1. i + 1 \in 1..m /\ i + 1 \in 1..n /\ i + 1 - 1 = i /\ i <= m
    BY <1>0, <1>3
  <2>2. ctx[i + 1] = Add(ctx[i], seq[i + 1]) /\ sup[i + 1] = Add(sup[i], sub[i + 1])
    BY <1>1, <1>2, <2>1 DEF Contexts
  <2>3. Whole(ctx[i]) /\ ctx[i] = sup[i] /\ seq[i + 1] = sub[i + 1]
    BY <1>0, <1>5, <2>1
  <2> QED
    BY <2>2, <2>3, AddKeeps
<1>6. Whole(ctx[m]) /\ ctx[m] = own
  <2>1. m \in Same
    <3> HIDE DEF Same
    <3> QED
      BY <1>3, <1>4, <1>5, NatInduction0
  <2> QED
    BY <1>2, <1>3, <2>1
<1> DEFINE Fine(c) == /\ Whole(c) /\ c.system = own.system
                      /\ IF own.prompt # NoText THEN c.prompt = own.prompt
                         ELSE c.prompt \in {NoText} \cup {f.prompt : f \in E \ O}
           After == {i \in Nat : m + i <= n => Fine(ctx[m + i])}
<1>7. 0 \in After
  BY <1>3, <1>6
<1>8. ASSUME NEW i \in Nat, i \in After PROVE i + 1 \in After
  <2> SUFFICES ASSUME m + (i + 1) <= n PROVE Fine(ctx[m + (i + 1)])
    OBVIOUS
  <2> DEFINE k == m + (i + 1)
  <2>1. k \in 1..n /\ k > m /\ k - 1 = m + i /\ m + i <= n
    BY <1>3
  <2> HIDE DEF k
  <2>2. ctx[k] = Add(ctx[m + i], seq[k]) /\ seq[k] \in E \ O
    BY <1>0, <1>1, <2>1 DEF Contexts
  <2>3. Fine(ctx[m + i])
    BY <1>8, <2>1
  <2> DEFINE c == ctx[m + i]
             f == seq[k]
  <2>4. Fine(c) /\ f \in E \ O /\ ctx[k] = Add(c, f)
    BY <2>2, <2>3
  <2> HIDE DEF c, f
  <2>5. /\ Whole(Add(c, f)) /\ Add(c, f).system = c.system
        /\ Add(c, f).prompt = IF c.prompt # NoText THEN c.prompt ELSE f.prompt
    BY <2>4, AddKeeps
  <2>6. f.prompt \in {g.prompt : g \in E \ O}
    BY <2>4
  <2>7. Fine(Add(c, f))
    BY <2>4, <2>5, <2>6
  <2>8. Fine(ctx[k])
    BY <2>4, <2>7
  <2> QED
    BY <2>8 DEF k
<1>9. Fine(all)
  <2>1. Nat \subseteq After
    <3> HIDE DEF After
    <3> QED
      BY <1>7, <1>8, NatInduction0
  <2> DEFINE j == n - m
  <2>2. j \in Nat /\ m + j = n /\ m + j <= n
    BY <1>0, <1>3
  <2> HIDE DEF j, Fine
  <2>3. Fine(ctx[m + j])
    BY <2>1, <2>2
  <2> QED
    BY <1>1, <2>2, <2>3
<1> QED
  BY <1>9 DEF all, own

(* A trace's replays are generations that come after its pipeline's events. *)
LEMMA ReplaysComeLast ==
  ASSUME IInv, NEW e \in events
  PROVE  /\ ~e.replayed => e.start < Now0
         /\ e.replayed => Now0 <= e.start /\ e.stage = "generation"
         /\ e.start \in Int
<1>1. now \in Nat /\ Now0 \in Nat
  BY DataAssumption, BoundAssumption DEF IInv, EventsDated
<1>2. e \in PipelineEvent \/ (e.replayed /\ e.stage = "generation" /\ e.start \in Asked)
  BY DEF IInv, EventsDated
<1>3. e \in PipelineEvent => ~e.replayed /\ e.start \in 0..(Now0 - 1)
  BY DataAssumption
<1> QED
  BY <1>1, <1>2, <1>3 DEF Asked

(* The context of a replay is the pipeline's (db.py:503-521).              *)
LEMMA ContextKept == ASSUME IInv PROVE ReplaysKeepContext
<1> SUFFICES ASSUME NEW tr \in DOMAIN traces, tr < Now0
             PROVE  LET all == GenerationContext(EventsOf(tr))
                        own == GenerationContext({e \in EventsOf(tr) : ~e.replayed})
                    IN /\ all.system = own.system
                       /\ IF own.prompt # NoText THEN all.prompt = own.prompt
                          ELSE all.prompt \in {NoText, traces[tr].query}
  BY DEF ReplaysKeepContext
<1> DEFINE E == EventsOf(tr)
           O == {e \in E : ~e.replayed}
           all == GenerationContext(E)
           own == GenerationContext(O)
<1>1. E \in SUBSET events /\ O \in SUBSET E /\ O \in SUBSET events
  BY DEF EventsOf
<1>2. Ordered(E) /\ Ordered(O)
  <2> HIDE DEF E, O
  <2> QED
    BY <1>1, EventsOrdered DEF IInv
<1>3. \A f \in E \ O : f \in events /\ f.replayed /\ f.trace = tr
  BY DEF EventsOf
<1>4. \A e \in O : e \in events /\ ~e.replayed
  BY DEF EventsOf
<1>5. \A e \in O : \A f \in E \ O : e.start < f.start
  <2> SUFFICES ASSUME NEW e \in O, NEW f \in E \ O PROVE e.start < f.start
    OBVIOUS
  <2>1. e.start < Now0 /\ Now0 <= f.start /\ e.start \in Int /\ f.start \in Int /\ Now0 \in Int
    <3> HIDE DEF E, O
    <3> QED
      BY <1>3, <1>4, ReplaysComeLast, DataAssumption
  <2> HIDE DEF E, O
  <2> QED
    BY <2>1
<1>6. \A f \in E \ O : f.stage = "generation"
  <2> HIDE DEF E, O
  <2> QED
    BY <1>3, ReplaysComeLast
<1>7. /\ all.system = own.system
      /\ IF own.prompt # NoText THEN all.prompt = own.prompt
         ELSE all.prompt \in {NoText} \cup {f.prompt : f \in E \ O}
  <2> HIDE DEF E, O
  <2> QED
    BY <1>1, <1>2, <1>5, <1>6, ReplaysAdd
<1>8. ASSUME own.prompt = NoText, NEW f \in E \ O PROVE f.prompt = traces[tr].query
  <2>1. PromptKnown(tr, f.prompt)
    <3> HIDE DEF E, O
    <3> QED
      BY <1>3 DEF IInv, ReplaysFit
  <2>2. ~Prompted(tr)
    <3> SUFFICES ASSUME NEW e \in EventsOf(tr), ~e.replayed, Prompts(e) PROVE FALSE
      BY DEF Prompted, Prompts
    <3>1. e \in O
      OBVIOUS
    <3> HIDE DEF O
    <3> QED
      BY <1>2, <1>8, <3>1, ContextHasPrompt
  <2> QED
    BY <2>1, <2>2 DEF PromptKnown
<1> HIDE DEF E, O
<1>9. own.prompt = NoText => all.prompt \in {NoText, traces[tr].query}
  <2> HIDE DEF all, own
  <2> QED
    BY <1>7, <1>8
<1> QED
  BY <1>7, <1>9 DEF E, O

(* An evaluation judges the pipeline's answer, if it has one, and a score  *)
(* is of an answer of its trace (eval.py:166-173, api.py:218-222).         *)
LEMMA AnswersJudged == ASSUME IInv PROVE JudgesPipelineAnswer
<1> SUFFICES ASSUME NEW tr \in DOMAIN traces
             PROVE  LET own == {e.response : e \in {f \in EventsOf(tr) :
                                                     f.stage = "generation" /\ ~f.replayed}}
                    IN /\ own \ {NoText} # {} => Judged(GetTrace(tr).events).answer \in own
                       /\ \A s \in DOMAIN scores : (s[1] = tr /\ scores[s].judged) =>
                            \E e \in EventsOf(tr) : e.response = scores[s].answer /\ e.response # NoText
  BY DEF JudgesPipelineAnswer
<1> DEFINE E == EventsOf(tr)
           Gen == {f \in E : f.stage = "generation" /\ ~f.replayed}
           own == {e.response : e \in Gen}
           evs == GetTrace(tr).events
<1>1. evs = ByStart(E)
  BY DEF GetTrace
<1>2. Ordered(E)
  <2>1. E \in SUBSET events
    BY DEF EventsOf
  <2> HIDE DEF E
  <2> QED
    BY <2>1, EventsOrdered DEF IInv
<1>3. ASSUME own \ {NoText} # {} PROVE Judged(evs).answer \in own
  <2> DEFINE ans == {e \in E : e.stage = "generation" /\ e.response # NoText}
  <2>1. PICK f \in Gen : f.response # NoText
    BY <1>3
  <2>2. f \in ans
    BY <2>1
  <2>3. PICK e \in ans : Judged(evs).answer = e.response /\ \A g \in ans : e.start <= g.start
    <3> HIDE DEF evs
    <3> QED
      BY <1>1, <1>2, <2>2, JudgedAnswer
  <2>4. e \in events /\ f \in events /\ ~f.replayed
    BY DEF EventsOf
  <2>5. e.start <= f.start
    BY <2>2, <2>3
  <2> HIDE DEF ans
  <2>6. ~e.replayed
    BY <2>4, <2>5, ReplaysComeLast, DataAssumption
  <2>7. e \in Gen
    BY <2>6 DEF ans
  <2> HIDE DEF evs, Gen
  <2> QED
    BY <2>3, <2>7
<1>4. ASSUME NEW s \in DOMAIN scores, s[1] = tr, scores[s].judged
      PROVE  \E e \in EventsOf(tr) : e.response = scores[s].answer /\ e.response # NoText
  BY <1>4 DEF IInv, ScoresFit, AnswerOf
<1> QED
  BY <1>3, <1>4

------------------------------------------------------------------------------
(* The theorems. *)

(* IInv holds: whatever the pipelines log and in whatever order, and       *)
(* however replays and evaluations overlap with it and with each other,    *)
(* the tables refer to each other, no two events are started together, and *)
(* what a replay was started with is still its trace's.                    *)
THEOREM ExplorerInductive == Spec => []IInv
BY InitOK, StepOK, PTL DEF Spec

(* Every row of a table belongs to a trace that is there, and every hit to *)
(* a chunk that is there (db.py:145-270).                                  *)
THEOREM ExplorerTypes == Spec => []TypeOK
<1>1. IInv => TypeOK
  <2> SUFFICES ASSUME IInv PROVE TypeOK
    OBVIOUS
  <2>1. \A e \in events : e \in PipelineEvent \/ e.replayed
    BY DEF IInv, EventsDated
  <2>2. \A tr \in DOMAIN traces : traces[tr].project \in Project
    BY DEF IInv, TracesFit
  <2>3. \A e \in events : e.project \in Project /\ e.trace \in DOMAIN traces
    BY DEF IInv, TracesFit
  <2>4. \A h \in hits : /\ h.trace \in DOMAIN traces
                        /\ \E c \in chunks : c.project = h.project /\ c.hash = h.hash
    BY DEF IInv, HitsFit
  <2>5. \A s \in DOMAIN scores : s[1] \in DOMAIN traces
    BY DEF IInv, ScoresFit
  <2>6. \A w \in Worker : req[w].step \in {"free", "generating", "judging", "storing"}
    BY DEF IInv, Requests
  <2> QED
    BY <2>1, <2>2, <2>3, <2>4, <2>5, <2>6 DEF TypeOK, IInv, EventsDated, TruthFits
<1> QED
  BY <1>1, ExplorerInductive, PTL

(* The traces, the models and the days of a project add up to the same     *)
(* cost, and the list of projects adds the embeddings, for any number of   *)
(* events and any costs (db.py:286-290, 308-309, 428-456, api.py:153).     *)
THEOREM CostViewsAgree == Spec => []ViewsAgreeOnCost
<1>1. IInv => ViewsAgreeOnCost
  BY CostsAgree DEF IInv
<1> QED
  BY <1>1, ExplorerInductive, PTL

(* Top and unused split a project's chunks, and the hits that its chunks   *)
(* count are the hits that its traces count (db.py:314, 357-399).          *)
THEOREM ChunkViewsSplit == Spec => []ChunkViewsPartition
<1>1. IInv => ChunkViewsPartition
  BY ChunksPartition DEF IInv
<1> QED
  BY <1>1, ExplorerInductive, PTL

(* However often a trace was replayed, and however late its pipeline's     *)
(* events arrived, the context of the next replay is its pipeline's        *)
(* (db.py:503-521).                                                        *)
THEOREM ReplaysDoNotFeedBack == Spec => []ReplaysKeepContext
<1>1. IInv => ReplaysKeepContext
  BY ContextKept
<1> QED
  BY <1>1, ExplorerInductive, PTL

(* A judge gets the pipeline's answer, never a replay's, if the pipeline   *)
(* stored one, and no score is of an answer that its trace does not have   *)
(* (eval.py:166-173, api.py:218-222).                                      *)
THEOREM PipelineAnswerJudged == Spec => []JudgesPipelineAnswer
<1>1. IInv => JudgesPipelineAnswer
  BY AnswersJudged
<1> QED
  BY <1>1, ExplorerInductive, PTL

(* An ingest takes nothing away (db.py:160-260).                           *)
LEMMA IngestKeeps == ASSUME TracesFit, NEW e, Ingest(e) PROVE Kept
<1>1. events \subseteq events' /\ chunks \subseteq chunks' /\ hits \subseteq hits'
  BY DEF Ingest
<1>2. ASSUME NEW tr \in DOMAIN traces
      PROVE  /\ tr \in DOMAIN traces' /\ traces'[tr].project = traces[tr].project
             /\ traces[tr].query # NoText => traces'[tr].query = traces[tr].query
  <2> DEFINE q == Either(traces[e.trace].query, e.query)
             row == [traces[e.trace] EXCEPT !.query = q]
  <2>1. tr \in DOMAIN traces' /\ (tr # e.trace => traces'[tr] = traces[tr])
    BY DEF Ingest, NewTraces, Upsert
  <2>2. CASE tr = e.trace
    <3>1. traces'[tr] = row
      BY <2>2 DEF Ingest, NewTraces, Upsert
    <3>2. row.project = traces[tr].project /\ row.query = q
      BY <2>2 DEF TracesFit
    <3>3. traces[tr].query # NoText => q = traces[tr].query
      BY <2>2 DEF Either
    <3> QED
      BY <2>1, <3>1, <3>2, <3>3
  <2> QED
    BY <2>1, <2>2
<1> QED
  BY <1>1, <1>2 DEF Kept

(* No later event, replay or evaluation takes away what the dashboard can  *)
(* show of a trace: its events, chunks and hits stay, and so do its        *)
(* project and the first query it was given (db.py:160-260).               *)
THEOREM NothingForgotten == Spec => [][Kept]_vars
<1>1. IInv /\ [Next]_vars => [Kept]_vars
  <2> SUFFICES ASSUME IInv, [Next]_vars PROVE [Kept]_vars
    OBVIOUS
  <2>1. TracesFit /\ (UNCHANGED Tables => Kept)
    BY TablesStay DEF IInv
  <2>2. ASSUME NEW e \in PipelineEvent, PipelineLogs(e) PROVE Kept
    BY <2>1, <2>2, IngestKeeps DEF PipelineLogs
  <2>3. ASSUME NEW w \in Worker, Generated(w) PROVE Kept
    BY <2>1, <2>3, IngestKeeps DEF Generated
  <2>4. ASSUME NEW g \in GroundTruth, SetGroundTruth(g) PROVE Kept
    BY <2>1, <2>4 DEF SetGroundTruth, Tables
  <2>5. ASSUME NEW w \in Worker, NEW r, Begins(w, r) PROVE Kept
    BY <2>1, <2>5 DEF Begins, Tables
  <2>6. ASSUME NEW w \in Worker,
               \/ \E tr \in DOMAIN traces : ReplayTrace(w, tr) \/ EvalReads(w, tr)
               \/ \E p \in Project : GeneratePrompt(w, p)
        PROVE  Kept
    BY <2>5, <2>6 DEF ReplayTrace, EvalReads, GeneratePrompt
  <2>7. ASSUME NEW w \in Worker,
               ModelFails(w) \/ StoreFaithfulness(w) \/ StoreRelevance(w)
        PROVE  Kept
    BY <2>1, <2>7 DEF ModelFails, StoreFaithfulness, StoreRelevance, Tables
  <2>8. CASE UNCHANGED vars
    BY <2>8
  <2> QED
    BY <2>2, <2>3, <2>4, <2>6, <2>7, <2>8 DEF Next, WorkerStep
<1> QED
  BY <1>1, ExplorerInductive, PTL DEF Spec

------------------------------------------------------------------------------
(* The metrics.                                                            *)

(* A list in which no chunk is twice. *)
NoneTwice(list) == list \in Seq(ToSet(list)) /\ IsInjective(list)

(* A metric that is not None. *)
Fraction == [num : Nat, den : Nat \ {0}]

(* The gains of places add up. *)
LEMMA GainsAdd ==
  ASSUME NEW n \in Nat, n <= Len(Gain), NEW H \in SUBSET (1..n)
  PROVE  /\ IsFiniteSet(H) /\ Cardinality(H) \in 0..n /\ GainOf(H) \in Nat
         /\ H = {} => GainOf(H) = 0
         /\ \A x \in H : GainOf(H) = Gain[x] + GainOf(H \ {x})
         /\ \A x \in H : Gain[x] \in Nat \ {0}
<1>1. IsFiniteSet(1..n) /\ Cardinality(1..n) = n
  BY FS_Interval
<1>2. IsFiniteSet(H) /\ Cardinality(H) \in 0..n
  <2>1. IsFiniteSet(H) /\ Cardinality(H) <= Cardinality(1..n) /\ Cardinality(H) \in Nat
    <3> DEFINE I == 1..n
    <3> HIDE DEF I
    <3> QED
      BY <1>1, FS_Subset, FS_CardinalityType DEF I
  <2> QED
    BY <1>1, <2>1
<1>3. \A x \in H : Gain[x] \in Nat \ {0}
  BY GainAssumption
<1>4. \A S : GainOf(S) = SumFunctionOnSet(Gain, S)
  BY DEF GainOf, MapThenSumSet, SumFunctionOnSet, FoldFunctionOnSet
<1>5. \A x \in H : Gain[x] \in Nat
  BY <1>3
<1>6. GainOf(H) \in Nat
  BY <1>2, <1>4, <1>5, SumNat
<1>7. \A x \in H : GainOf(H) = Gain[x] + GainOf(H \ {x})
  <2>1. \A x \in H : SumFunctionOnSet(Gain, H) = Gain[x] + SumFunctionOnSet(Gain, H \ {x})
    BY <1>2, <1>5, SumRemove
  <2> QED
    BY <1>4, <2>1
<1>8. H = {} => GainOf(H) = 0
  BY <1>4, SumEmpty
<1> QED
  BY <1>2, <1>3, <1>6, <1>7, <1>8

(* No places gain more than as many of the first.                          *)
LEMMA GainBound ==
  ASSUME NEW n \in Nat, n <= Len(Gain), NEW H \in SUBSET (1..n)
  PROVE  /\ GainOf(H) <= GainOf(1..Cardinality(H))
         /\ GainOf(H) = GainOf(1..Cardinality(H)) => H = 1..Cardinality(H)
<1> DEFINE I == 1..n
           Bound(S, h) == /\ GainOf(S) <= GainOf(1..h)
                          /\ GainOf(S) = GainOf(1..h) => S = 1..h
           Good == {h \in Nat : \A S \in SUBSET I : Cardinality(S) = h => Bound(S, h)}
<1>1. 0 \in Good
  <2> SUFFICES ASSUME NEW S \in SUBSET I, Cardinality(S) = 0 PROVE Bound(S, 0)
    OBVIOUS
  <2>1. S = {}
    BY GainsAdd, FS_EmptySet
  <2>2. 1..0 = {} /\ {} \in SUBSET I
    OBVIOUS
  <2>3. GainOf({}) = 0
    BY <2>2, GainsAdd
  <2> QED
    BY <2>1, <2>2, <2>3
<1>2. ASSUME NEW h \in Nat, h \in Good PROVE h + 1 \in Good
  <2> SUFFICES ASSUME NEW S \in SUBSET I, Cardinality(S) = h + 1 PROVE Bound(S, h + 1)
    OBVIOUS
  <2> DEFINE x == Max(S)
             T == S \ {x}
  <2>1. IsFiniteSet(S) /\ S # {} /\ h + 1 \in 0..n
    BY GainsAdd, FS_EmptySet
  <2>2. x \in S /\ \A y \in S : y <= x
    <3>1. S \in SUBSET Int
      OBVIOUS
    <3> HIDE DEF I
    <3> QED
      BY <2>1, <3>1, Extremes
  <2> HIDE DEF x
  <2>3. x \in 1..n /\ S \subseteq 1..x
    BY <2>2
  <2>4. h + 1 <= x
    <3> DEFINE X == 1..x
    <3>1. IsFiniteSet(X) /\ Cardinality(X) = x
      BY <2>3, FS_Interval
    <3>2. Cardinality(S) <= Cardinality(X)
      <4>1. S \in SUBSET X
        BY <2>3
      <4> HIDE DEF X
      <4> QED
        BY <3>1, <4>1, FS_Subset
    <3> QED
      BY <3>1, <3>2
  <2>5. T \in SUBSET I /\ Cardinality(T) = h
    <3>1. Cardinality(T) = Cardinality(S) - 1
      <4> HIDE DEF I
      <4> QED
        BY <2>1, <2>2, Smaller
    <3>2. T \in SUBSET I
      OBVIOUS
    <3> HIDE DEF T, I
    <3> QED
      BY <3>1, <3>2
  <2> DEFINE g == GainOf(T)
             k == GainOf(1..h)
             s == GainOf(S)
             o == GainOf(1..(h + 1))
             a == Gain[x]
             b == Gain[h + 1]
  <2>6. s = a + g
    BY <2>2, GainsAdd
  <2>7. o = b + k
    <3>1. h + 1 \in 1..(h + 1) /\ (1..(h + 1)) \ {h + 1} = 1..h /\ 1..(h + 1) \in SUBSET I
      BY <2>1
    <3> DEFINE J == 1..(h + 1)
    <3>2. J \in SUBSET (1..n) /\ h + 1 \in J /\ J \ {h + 1} = 1..h
      BY <3>1
    <3> HIDE DEF J
    <3>3. GainOf(J) = Gain[h + 1] + GainOf(J \ {h + 1})
      BY <3>2, GainsAdd
    <3> QED
      BY <3>2, <3>3 DEF J
  <2>8. g <= k /\ (g = k => T = 1..h)
    BY <1>2, <2>5
  <2>9. /\ a \in Nat /\ b \in Nat /\ g \in Nat /\ k \in Nat
        /\ a <= b /\ (a = b => x = h + 1)
    <3>1. h + 1 \in DOMAIN Gain /\ x \in DOMAIN Gain
      BY <2>1, <2>3, GainAssumption
    <3>2. a \in Nat /\ b \in Nat /\ (h + 1 < x => b > a)
      BY <3>1, GainAssumption
    <3>3. g \in Nat
      BY <2>5, GainsAdd
    <3>4. k \in Nat
      <4>1. 1..h \in SUBSET (1..n)
        BY <2>1
      <4> HIDE DEF I
      <4> QED
        BY <4>1, GainsAdd
    <3> QED
      BY <2>3, <2>4, <3>1, <3>2, <3>3, <3>4
  <2> HIDE DEF a, b, g, k, s, o
  <2>10. s <= o /\ (s = o => a = b /\ g = k)
    BY <2>6, <2>7, <2>8, <2>9
  <2>11. x = h + 1 /\ T = 1..h => S = 1..(h + 1)
    <3>1. S = T \cup {x}
      BY <2>2
    <3>2. (1..h) \cup {h + 1} = 1..(h + 1)
      OBVIOUS
    <3> HIDE DEF T
    <3> QED
      BY <3>1, <3>2
  <2> QED
    BY <2>8, <2>9, <2>10, <2>11 DEF s, o
<1>3. Cardinality(H) \in Nat
  BY GainsAdd
<1>4. Cardinality(H) \in Good
  <2> HIDE DEF Good
  <2> QED
    BY <1>1, <1>2, <1>3, NatInduction0
<1> QED
  BY <1>4

(* More of the first places gain more.                                     *)
LEMMA GainGrows ==
  ASSUME NEW n \in Nat, n <= Len(Gain)
  PROVE  /\ \A h \in 0..n : GainOf(1..h) \in Nat
         /\ \A h, b \in 0..n : h < b => GainOf(1..h) < GainOf(1..b)
<1> DEFINE G(h) == GainOf(1..h)
<1>1. ASSUME NEW h \in 0..n PROVE G(h) \in Nat
  <2>1. 1..h \in SUBSET (1..n)
    OBVIOUS
  <2> QED
    BY <2>1, GainsAdd
<1>2. ASSUME NEW h \in Nat, h + 1 <= n PROVE G(h) < G(h + 1)
  <2> DEFINE J == 1..(h + 1)
  <2>1. J \in SUBSET (1..n) /\ h + 1 \in J /\ J \ {h + 1} = 1..h /\ h \in 0..n
    BY <1>2
  <2> HIDE DEF J
  <2>2. GainOf(J) = Gain[h + 1] + GainOf(J \ {h + 1}) /\ Gain[h + 1] \in Nat \ {0}
    BY <2>1, GainsAdd
  <2>3. GainOf(J) = Gain[h + 1] + G(h) /\ Gain[h + 1] \in Nat \ {0} /\ G(h) \in Nat
    BY <1>1, <2>1, <2>2
  <2> HIDE DEF G
  <2> QED
    BY <2>3 DEF J, G
<1> HIDE DEF G
<1> DEFINE Good == {d \in Nat : \A h \in Nat : h + (d + 1) <= n => G(h) < G(h + (d + 1))}
<1>3. 0 \in Good
  BY <1>2
<1>4. ASSUME NEW d \in Nat, d \in Good PROVE d + 1 \in Good
  <2> SUFFICES ASSUME NEW h \in Nat, h + (d + 2) <= n PROVE G(h) < G(h + (d + 2))
    OBVIOUS
  <2> DEFINE m == h + (d + 1)
  <2>1. G(h) < G(m)
    BY <1>4
  <2>2. m \in Nat /\ m + 1 = h + (d + 2) /\ m + 1 <= n /\ h \in 0..n /\ m \in 0..n /\ m + 1 \in 0..n
    OBVIOUS
  <2> HIDE DEF m
  <2>3. G(m) < G(m + 1)
    BY <1>2, <2>2
  <2>4. G(h) \in Nat /\ G(m) \in Nat /\ G(m + 1) \in Nat
    BY <1>1, <2>2 DEF G
  <2>5. G(h) < G(m + 1)
    BY <2>1, <2>3, <2>4
  <2> QED
    BY <2>2, <2>5
<1>5. ASSUME NEW h \in 0..n, NEW b \in 0..n, h < b PROVE G(h) < G(b)
  <2> DEFINE d == b - h - 1
  <2>1. d \in Nat /\ h + (d + 1) = b /\ h + (d + 1) <= n
    BY <1>5
  <2> HIDE DEF d
  <2>2. d \in Good
    <3> HIDE DEF Good
    <3> QED
      BY <1>3, <1>4, <2>1, NatInduction0
  <2> QED
    BY <2>1, <2>2
<1> QED
  BY <1>1, <1>5 DEF G

------------------------------------------------------------------------------
(* Rankings. *)

(* The first k of a list (metrics.py:14, 25, 41).                          *)
LEMMA TopIs ==
  ASSUME NEW ranked, NoneTwice(ranked), NEW k \in Nat
  PROVE  LET t == IF k < Len(ranked) THEN k ELSE Len(ranked)
             top == Top(ranked, k)
         IN  /\ Len(ranked) \in Nat /\ DOMAIN ranked = 1..Len(ranked)
             /\ t \in Nat /\ t <= k /\ t <= Len(ranked)
             /\ Len(top) = t /\ DOMAIN top = 1..t
             /\ \A i \in 1..t : top[i] = ranked[i]
             /\ \A i, j \in 1..Len(ranked) : ranked[i] = ranked[j] => i = j
             /\ top = <<>> <=> t = 0
<1> DEFINE t == IF k < Len(ranked) THEN k ELSE Len(ranked)
           top == Top(ranked, k)
<1>1. ranked \in Seq(ToSet(ranked)) /\ IsInjective(ranked)
  BY DEF NoneTwice
<1>2. Len(ranked) \in Nat /\ DOMAIN ranked = 1..Len(ranked)
  BY <1>1
<1>3. t \in Nat /\ t <= k /\ t <= Len(ranked)
  BY <1>2
<1>4. top = SubSeq(ranked, 1, t)
  BY DEF Top
<1> HIDE DEF t, top
<1>5. Len(top) = t /\ DOMAIN top = 1..t /\ \A i \in 1..t : top[i] = ranked[i]
  BY <1>1, <1>2, <1>3, <1>4
<1>6. top \in Seq(ToSet(ranked))
  BY <1>1, <1>2, <1>3, <1>4
<1>7. top = <<>> <=> t = 0
  BY <1>3, <1>5, <1>6
<1>8. \A i, j \in 1..Len(ranked) : ranked[i] = ranked[j] => i = j
  BY <1>1, <1>2 DEF IsInjective
<1> QED
  BY <1>2, <1>3, <1>5, <1>7, <1>8 DEF t, top

(* The hits of a list are as many as the relevant chunks that it has.      *)
LEMMA HitsMany ==
  ASSUME NEW n \in Nat, NEW list, DOMAIN list = 1..n,
         \A i, j \in 1..n : list[i] = list[j] => i = j,
         NEW rel, IsFiniteSet(rel)
  PROVE  /\ HitsIn(list, rel) \in SUBSET (1..n)
         /\ IsFiniteSet(HitsIn(list, rel))
         /\ Cardinality(HitsIn(list, rel)) \in 0..n
         /\ Cardinality(HitsIn(list, rel)) = Cardinality(rel \cap ToSet(list))
         /\ Cardinality(HitsIn(list, rel)) <= Cardinality(rel)
         /\ Cardinality(HitsIn(list, rel)) = Cardinality(rel) <=> rel \subseteq ToSet(list)
<1> DEFINE H == HitsIn(list, rel)
           I == 1..n
           R == rel \cap ToSet(list)
<1>1. H \in SUBSET I /\ R \in SUBSET rel
  BY DEF HitsIn
<1>2. IsFiniteSet(I) /\ Cardinality(I) = n
  BY FS_Interval
<1>3. R = {list[i] : i \in H}
  BY DEF HitsIn, ToSet
<1>4. \A i, j \in H : list[i] = list[j] => i = j
  BY <1>1
<1>5. rel \subseteq ToSet(list) <=> R = rel
  OBVIOUS
<1> HIDE DEF H, I, R
<1>6. IsFiniteSet(H) /\ Cardinality(H) <= n /\ Cardinality(H) \in Nat
  BY <1>1, <1>2, FS_Subset, FS_CardinalityType
<1>7. Cardinality(H) = Cardinality(R)
  BY <1>3, <1>4, <1>6, ImagesMany
<1>8. Cardinality(R) <= Cardinality(rel) /\ (Cardinality(R) = Cardinality(rel) => R = rel)
  BY <1>1, FS_Subset
<1>9. Cardinality(H) \in 0..n
  BY <1>6
<1> QED
  BY <1>1, <1>5, <1>6, <1>7, <1>8, <1>9 DEF H, I, R

(* Recall: 1 if and only if the top has all (metrics.py:21-26).            *)
LEMMA RecallIs ==
  ASSUME NEW ranked, NoneTwice(ranked), NEW k \in Nat, NEW rel, IsFiniteSet(rel)
  PROVE  /\ Within01(RecallAtK(ranked, rel, k))
         /\ Is(RecallAtK(ranked, rel, k), 1) <=> rel # {} /\ rel \subseteq ToSet(Top(ranked, k))
         /\ RecallAtK(ranked, rel, k) # None => RecallAtK(ranked, rel, k) \in Fraction
<1> DEFINE top == Top(ranked, k)
           h == Cardinality(HitsIn(top, rel))
           r == Cardinality(rel)
<1>1. /\ h \in Nat /\ h <= r /\ (h = r <=> rel \subseteq ToSet(top))
  <2>1. PICK t \in Nat : /\ DOMAIN top = 1..t /\ \A i \in 1..t : top[i] = ranked[i]
                         /\ t <= Len(ranked) /\ Len(ranked) \in Nat
    BY TopIs
  <2>2. \A i, j \in 1..t : top[i] = top[j] => i = j
    BY <2>1, TopIs
  <2> HIDE DEF top
  <2>3. h \in 0..t /\ h <= r /\ (h = r <=> rel \subseteq ToSet(top))
    BY <2>1, <2>2, HitsMany
  <2> HIDE DEF h
  <2> QED
    BY <2>1, <2>3
<1>2. r \in Nat /\ (r = 0 <=> rel = {})
  BY FS_CardinalityType, FS_EmptySet
<1>3. RecallAtK(ranked, rel, k) = IF rel = {} THEN None ELSE [num |-> h, den |-> r]
  BY DEF RecallAtK, Ratio
<1> HIDE DEF top, h, r
<1> QED
  BY <1>1, <1>2, <1>3 DEF Within01, Is, None, Fraction, top

(* Precision is within 0 and 1 (metrics.py:13-18).                         *)
LEMMA PrecisionIs ==
  ASSUME NEW ranked, NoneTwice(ranked), NEW k \in Nat, NEW rel, IsFiniteSet(rel)
  PROVE  /\ Within01(PrecisionAtK(ranked, rel, k))
         /\ PrecisionAtK(ranked, rel, k) # None => PrecisionAtK(ranked, rel, k) \in Fraction
<1> DEFINE top == Top(ranked, k)
           h == Cardinality(HitsIn(top, rel))
<1>1. PICK t \in Nat : /\ DOMAIN top = 1..t /\ \A i \in 1..t : top[i] = ranked[i]
                       /\ t <= Len(ranked) /\ Len(ranked) \in Nat
                       /\ Len(top) = t /\ (top = <<>> <=> t = 0)
  BY TopIs
<1>2. \A i, j \in 1..t : top[i] = top[j] => i = j
  BY <1>1, TopIs
<1>3. PrecisionAtK(ranked, rel, k) = IF top = <<>> THEN None ELSE [num |-> h, den |-> t]
  BY <1>1 DEF PrecisionAtK, Ratio
<1> HIDE DEF top
<1>4. h \in 0..t
  BY <1>1, <1>2, HitsMany
<1> HIDE DEF h
<1> QED
  BY <1>1, <1>3, <1>4 DEF Within01, None, Fraction

(* The reciprocal rank is 0 if and only if nothing is found                *)
(* (metrics.py:29-34).                                                     *)
LEMMA MrrIs ==
  ASSUME NEW ranked, NoneTwice(ranked), NEW rel
  PROVE  /\ Within01(Mrr(ranked, rel)) /\ Mrr(ranked, rel) # None
         /\ Is(Mrr(ranked, rel), 0) <=> ToSet(ranked) \cap rel = {}
         /\ Mrr(ranked, rel) \in Fraction
<1> DEFINE H == HitsIn(ranked, rel)
<1>1. ranked \in Seq(ToSet(ranked))
  BY DEF NoneTwice
<1>2. Len(ranked) \in Nat /\ DOMAIN ranked = 1..Len(ranked)
  BY <1>1
<1>3. H \in SUBSET (1..Len(ranked)) /\ (H = {} <=> ToSet(ranked) \cap rel = {})
  BY <1>2 DEF HitsIn, ToSet
<1>4. IsFiniteSet(H)
  <2>1. IsFiniteSet(1..Len(ranked))
    BY <1>2, FS_Interval
  <2> HIDE DEF H
  <2> QED
    BY <1>3, <2>1, FS_Subset
<1>5. H # {} => Min(H) \in Nat \ {0}
  <2>1. H \in SUBSET Int /\ \A i \in H : i \in Nat \ {0}
    BY <1>2, <1>3
  <2> HIDE DEF H
  <2> QED
    BY <1>4, <2>1, Extremes
<1>6. Mrr(ranked, rel) = IF H = {} THEN [num |-> 0, den |-> 1] ELSE [num |-> 1, den |-> Min(H)]
  BY DEF Mrr, Ratio
<1> DEFINE m == Min(H)
<1> HIDE DEF H, m
<1>7. CASE H = {}
  BY <1>3, <1>6, <1>7 DEF Within01, Is, None, Fraction
<1>8. CASE H # {}
  <2>1. m \in Nat \ {0} /\ Mrr(ranked, rel) = [num |-> 1, den |-> m]
    BY <1>5, <1>6, <1>8 DEF m
  <2>2. Mrr(ranked, rel).num = 1 /\ Mrr(ranked, rel).den = m
    BY <2>1
  <2>3. Mrr(ranked, rel) # None /\ ~(1 = 0 * m) /\ 0 <= 1 /\ 1 <= m
    BY <2>1, <2>2 DEF None
  <2>4. ~Is(Mrr(ranked, rel), 0) /\ Within01(Mrr(ranked, rel))
    BY <2>2, <2>3 DEF Is, Within01
  <2>5. ToSet(ranked) \cap rel # {}
    BY <1>3, <1>8
  <2>6. Mrr(ranked, rel) \in Fraction
    BY <2>1 DEF Fraction
  <2> QED
    BY <2>3, <2>4, <2>5, <2>6
<1> QED
  BY <1>7, <1>8

(* nDCG is at most 1, and it is 1 if and only if the first places of the   *)
(* top are all hits, as many as there can be (metrics.py:37-44).           *)
LEMMA NdcgIs ==
  ASSUME NEW ranked, NoneTwice(ranked), NEW k \in Nat, k <= Len(Gain),
         NEW rel, IsFiniteSet(rel)
  PROVE  LET x == Ndcg(ranked, rel, k)
             H == HitsIn(Top(ranked, k), rel)
             c == IF Cardinality(rel) < k THEN Cardinality(rel) ELSE k
         IN  /\ Within01(x)
             /\ Is(x, 1) <=> rel # {} /\ k > 0 /\ H = 1..c
             /\ x # None => x \in Fraction
<1> DEFINE top == Top(ranked, k)
           H == HitsIn(top, rel)
           h == Cardinality(H)
           r == Cardinality(rel)
           c == IF r < k THEN r ELSE k
           x == Ndcg(ranked, rel, k)
           dcg == GainOf(H)
           ideal == GainOf(1..c)
<1>1. H \in SUBSET (1..k) /\ h \in 0..k /\ h <= r
  <2>1. PICK t \in Nat : /\ DOMAIN top = 1..t /\ \A i \in 1..t : top[i] = ranked[i]
                         /\ t <= k /\ t <= Len(ranked) /\ Len(ranked) \in Nat
    BY TopIs
  <2>2. \A i, j \in 1..t : top[i] = top[j] => i = j
    BY <2>1, TopIs
  <2> HIDE DEF top
  <2>3. H \in SUBSET (1..t) /\ h \in 0..t /\ h <= r
    BY <2>1, <2>2, HitsMany
  <2> HIDE DEF H, h, r
  <2> QED
    BY <2>1, <2>3
<1>2. r \in Nat /\ (r = 0 <=> rel = {})
  BY FS_CardinalityType, FS_EmptySet
<1>3. Min({r, k}) = c
  <2>1. {r, k} \in SUBSET Int /\ {r, k} # {}
    BY <1>2
  <2>2. IsFiniteSet({r, k})
    <3>1. {r, k} = {r} \cup {k}
      OBVIOUS
    <3>2. IsFiniteSet({r})
      BY FS_Singleton
    <3>3. IsFiniteSet({r} \cup {k})
      BY <3>2, FS_AddElement
    <3> QED
      BY <3>1, <3>3
  <2> HIDE DEF r
  <2>3. Min({r, k}) \in {r, k} /\ \A y \in {r, k} : Min({r, k}) <= y
    BY <2>1, <2>2, Extremes
  <2> QED
    BY <1>2, <2>3
<1>4. x = IF rel = {} \/ k = 0 THEN None ELSE [num |-> dcg, den |-> ideal]
  BY <1>3 DEF Ndcg, Ratio
<1> HIDE DEF top, r, x
<1>5. c \in 0..k /\ h <= c /\ (rel # {} /\ k > 0 => c > 0)
  BY <1>1, <1>2
<1> HIDE DEF c, H
<1>6. dcg \in Nat /\ dcg <= GainOf(1..h) /\ (dcg = GainOf(1..h) => H = 1..h)
  BY <1>1, GainsAdd, GainBound
<1>7. ideal \in Nat /\ GainOf(1..h) \in Nat
      /\ (h < c => GainOf(1..h) < ideal) /\ (c > 0 => ideal > 0)
  <2>1. GainOf(1..0) \in Nat /\ (0 < c => GainOf(1..0) < ideal)
    BY <1>5, GainGrows
  <2>2. ideal \in Nat /\ GainOf(1..h) \in Nat /\ (h < c => GainOf(1..h) < ideal)
    BY <1>1, <1>5, GainGrows
  <2> HIDE DEF ideal
  <2> QED
    BY <1>5, <2>1, <2>2
<1>8. dcg <= ideal
  <2> HIDE DEF dcg, ideal, h
  <2> QED
    <3>1. CASE h < c
      BY <1>6, <1>7, <3>1
    <3>2. CASE h = c
      BY <1>6, <3>2 DEF ideal
    <3> QED
      BY <1>1, <1>5, <3>1, <3>2
<1>9. dcg = ideal <=> H = 1..c
  <2>1. ASSUME H = 1..c PROVE dcg = ideal
    BY <2>1
  <2>2. ASSUME dcg = ideal PROVE H = 1..c
    <3>1. h = c
      <4> HIDE DEF dcg, ideal, h
      <4> QED
        BY <1>1, <1>5, <1>6, <1>7, <2>2
    <3>2. GainOf(1..h) = ideal
      BY <3>1
    <3> QED
      BY <1>6, <2>2, <3>1, <3>2
  <2> QED
    BY <2>1, <2>2
<1> HIDE DEF dcg, ideal, h
<1>10. CASE rel = {} \/ k = 0
  BY <1>4, <1>10 DEF Within01, Is, None, x, H, c, r, top
<1>11. CASE rel # {} /\ k > 0
  <2>1. x = [num |-> dcg, den |-> ideal] /\ ideal > 0
    BY <1>4, <1>5, <1>7, <1>11
  <2>2. x # None /\ Within01(x) /\ (Is(x, 1) <=> H = 1..c)
    BY <1>6, <1>7, <1>8, <1>9, <2>1 DEF Within01, Is, None
  <2> QED
    BY <1>6, <1>7, <1>11, <2>1, <2>2 DEF Fraction, x, H, c, r, top
<1> QED
  BY <1>10, <1>11

(* The first places of the top are all hits, as many as there can be, if   *)
(* and only if the top has what RankingMeasured says (metrics.py:41-43).   *)
LEMMA FullTop ==
  ASSUME NEW ranked, NoneTwice(ranked), NEW k \in Nat \ {0}, NEW rel, IsFiniteSet(rel), rel # {}
  PROVE  HitsIn(Top(ranked, k), rel) = 1..(IF Cardinality(rel) < k THEN Cardinality(rel) ELSE k)
           <=> \/ ToSet(Top(ranked, Cardinality(rel))) = rel
               \/ Len(ranked) >= k /\ ToSet(Top(ranked, k)) \subseteq rel
<1> DEFINE n == Len(ranked)
           r == Cardinality(rel)
           c == IF r < k THEN r ELSE k
           t == IF k < n THEN k ELSE n
           u == IF r < n THEN r ELSE n
           H == HitsIn(Top(ranked, k), rel)
           A == ToSet(Top(ranked, k))
           B == ToSet(Top(ranked, r))
<1>1. /\ n \in Nat /\ \A i, j \in 1..n : ranked[i] = ranked[j] => i = j
      /\ t \in Nat /\ t <= k /\ t <= n
      /\ DOMAIN Top(ranked, k) = 1..t /\ \A i \in 1..t : Top(ranked, k)[i] = ranked[i]
  BY TopIs
<1>2. r \in Nat \ {0}
  BY FS_CardinalityType, FS_EmptySet
<1>3. u \in Nat /\ u <= r /\ u <= n
      /\ DOMAIN Top(ranked, r) = 1..u /\ \A i \in 1..u : Top(ranked, r)[i] = ranked[i]
  <2> HIDE DEF r
  <2> QED
    BY <1>2, TopIs
<1>4. H = {i \in 1..t : ranked[i] \in rel}
  BY <1>1 DEF HitsIn
<1>5. A = {ranked[i] : i \in 1..t}
  BY <1>1 DEF ToSet
<1>6. B = {ranked[i] : i \in 1..u}
  BY <1>3 DEF ToSet
<1>7. Cardinality(B) = u
  <2> DEFINE I == 1..u
  <2>1. IsFiniteSet(I) /\ Cardinality(I) = u
    BY <1>3, FS_Interval
  <2>2. \A i, j \in I : ranked[i] = ranked[j] => i = j
    BY <1>1, <1>3
  <2> HIDE DEF u, I, B
  <2>3. B = {ranked[i] : i \in I}
    BY <1>6 DEF I
  <2> QED
    BY <2>1, <2>2, <2>3, ImagesMany
<1>8. H \in SUBSET (1..t) /\ Cardinality(H) <= r
  <2>1. \A i, j \in 1..t : Top(ranked, k)[i] = Top(ranked, k)[j] => i = j
    BY <1>1
  <2> HIDE DEF t
  <2> QED
    BY <1>1, <2>1, HitsMany
<1>t. (k < n => t = k) /\ (k >= n => t = n) /\ (r < n => u = r) /\ (r >= n => u = n)
      /\ (r < k => c = r) /\ (r >= k => c = k)
  BY <1>1, <1>2
<1> HIDE DEF n, r, c, t, u, H, A, B
<1>9. ASSUME H = 1..c PROVE B = rel \/ (n >= k /\ A \subseteq rel)
  <2>1. c <= t
    <3>1. c \in Nat \ {0}
      BY <1>2, <1>t
    <3>2. c \in 1..c
      BY <3>1
    <3>3. c \in 1..t
      BY <1>8, <1>9, <3>2
    <3> QED
      BY <1>1, <3>3
  <2>2. CASE r < k
    <3>1. c = r /\ r <= n /\ u = r
      BY <1>1, <1>2, <1>3, <1>t, <2>1, <2>2
    <3>2. \A i \in 1..u : ranked[i] \in rel
      BY <1>4, <1>9, <3>1
    <3>3. B \in SUBSET rel
      BY <1>6, <3>2
    <3>4. Cardinality(rel) = Cardinality(B)
      BY <1>7, <3>1 DEF r
    <3> QED
      BY <3>3, <3>4, FS_Subset
  <2>3. CASE r >= k
    <3>1. c = k /\ t = k /\ n >= k
      BY <1>1, <1>2, <1>t, <2>1, <2>3
    <3>2. A \subseteq rel
      BY <1>4, <1>5, <1>9, <3>1
    <3> QED
      BY <3>1, <3>2
  <2> QED
    BY <1>2, <2>2, <2>3
<1>10. ASSUME B = rel PROVE H = 1..c
  <2>1. u = r
    BY <1>7, <1>10 DEF r
  <2>2. r <= n
    BY <1>3, <2>1
  <2>3. \A i \in 1..n : ranked[i] \in rel <=> i <= r
    <3> SUFFICES ASSUME NEW i \in 1..n PROVE ranked[i] \in rel <=> i <= r
      OBVIOUS
    <3>1. ranked[i] \in rel <=> \E j \in 1..r : ranked[i] = ranked[j]
      BY <1>6, <1>10, <2>1
    <3>2. \A j \in 1..r : j \in 1..n
      BY <1>1, <1>2, <2>2
    <3>3. ranked[i] \in rel <=> i \in 1..r
      BY <1>1, <3>1, <3>2
    <3> QED
      BY <1>1, <1>2, <3>3
  <2>4. H = {i \in 1..t : i <= r}
    BY <1>1, <1>4, <2>3
  <2>5. CASE r < k
    <3>1. c = r /\ r <= t
      BY <1>1, <1>2, <1>t, <2>2, <2>5
    <3> QED
      BY <1>1, <1>2, <2>4, <3>1
  <2>6. CASE r >= k
    <3>1. c = k /\ t = k
      BY <1>1, <1>2, <1>t, <2>2, <2>6
    <3> QED
      BY <1>1, <1>2, <2>4, <2>6, <3>1
  <2> QED
    BY <1>2, <2>5, <2>6
<1>11. ASSUME n >= k, A \subseteq rel PROVE H = 1..c
  <2>1. t = k
    BY <1>1, <1>11, <1>t
  <2>2. H = 1..k
    BY <1>4, <1>5, <1>11, <2>1
  <2>3. Cardinality(1..k) = k
    BY FS_Interval
  <2>4. k <= r
    BY <1>8, <2>2, <2>3
  <2> QED
    BY <1>2, <1>t, <2>2, <2>4
<1> QED
  BY <1>9, <1>10, <1>11 DEF n, r, c, H, A, B

(* The metrics of a ranking measure it (metrics.py:13-44).                 *)
THEOREM RankingsMeasured ==
  ASSUME NEW pair, NoneTwice(pair.ranked), IsFiniteSet(pair.relevant),
         NEW k \in Nat, k <= Len(Gain)
  PROVE  RankingMeasured(pair, k)
<1> DEFINE ranked == pair.ranked
           rel == pair.relevant
           m == Measured(pair, k)
<1>1. /\ m.precision = PrecisionAtK(ranked, rel, k) /\ m.recall = RecallAtK(ranked, rel, k)
      /\ m.mrr = Mrr(ranked, rel) /\ m.ndcg = Ndcg(ranked, rel, k)
      /\ DOMAIN m = {"precision", "recall", "mrr", "ndcg"}
      /\ m = [precision |-> m.precision, recall |-> m.recall, mrr |-> m.mrr, ndcg |-> m.ndcg]
  BY DEF Measured
<1> HIDE DEF ranked, rel, m
<1>2. NoneTwice(ranked) /\ IsFiniteSet(rel)
  BY DEF ranked, rel
<1>3. /\ Within01(m.precision) /\ Within01(m.recall) /\ Within01(m.mrr) /\ Within01(m.ndcg)
  BY <1>1, <1>2, PrecisionIs, RecallIs, MrrIs, NdcgIs
<1>4. \A metric \in DOMAIN m : Within01(m[metric])
  BY <1>1, <1>3
<1>5. Is(m.recall, 1) <=> rel # {} /\ rel \subseteq ToSet(Top(ranked, k))
  BY <1>1, <1>2, RecallIs
<1>6. Is(m.mrr, 0) <=> ToSet(ranked) \cap rel = {}
  BY <1>1, <1>2, MrrIs
<1>7. Is(m.ndcg, 1) <=>
        /\ rel # {} /\ k > 0
        /\ \/ ToSet(Top(ranked, Cardinality(rel))) = rel
           \/ Len(ranked) >= k /\ ToSet(Top(ranked, k)) \subseteq rel
  <2> DEFINE full == HitsIn(Top(ranked, k), rel)
                       = 1..(IF Cardinality(rel) < k THEN Cardinality(rel) ELSE k)
  <2>1. Is(m.ndcg, 1) <=> rel # {} /\ k > 0 /\ full
    BY <1>1, <1>2, NdcgIs
  <2>2. rel # {} /\ k > 0 =>
          (full <=> \/ ToSet(Top(ranked, Cardinality(rel))) = rel
                    \/ Len(ranked) >= k /\ ToSet(Top(ranked, k)) \subseteq rel)
    BY <1>2, FullTop
  <2> HIDE DEF full
  <2> QED
    BY <2>1, <2>2
<1> QED
  BY <1>4, <1>5, <1>6, <1>7 DEF RankingMeasured, m, ranked, rel
------------------------------------------------------------------------------
(* Averages. *)

(* The sum of a list of metrics goes through fractions (metrics.py:99-101). *)
LEMMA FractionsAdd ==
  ASSUME NEW n \in Nat, NEW values, DOMAIN values = 1..n,
         \A i \in 1..n : values[i] = None \/ values[i] \in Fraction
  PROVE  \E s : /\ s[0] = Ratio(0, 1)
                /\ \A i \in 1..n : s[i] = Plus(s[i - 1], values[i])
                /\ FoldLeft(Plus, Ratio(0, 1), values) = s[n]
<1> DEFINE op == [i \in 1..n |-> [v \in Fraction |-> Plus(v, values[i])]]
           Fold(g) == g = [s \in SUBSET (1..n) |->
                             IF s = {} THEN Ratio(0, 1) ELSE Plus(g[s \ {Max(s)}], values[Max(s)])]
<1>1. Ratio(0, 1) \in Fraction
  BY DEF Fraction, Ratio
<1>2. op \in [1..n -> [Fraction -> Fraction]]
  <2> SUFFICES ASSUME NEW i \in 1..n, NEW v \in Fraction PROVE Plus(v, values[i]) \in Fraction
    OBVIOUS
  <2>1. CASE values[i] = None
    BY <2>1 DEF Plus
  <2>2. CASE values[i] # None
    <3> DEFINE a == v.num
               b == v.den
               c == values[i].num
               d == values[i].den
    <3>1. a \in Nat /\ b \in Nat /\ b > 0 /\ c \in Nat /\ d \in Nat /\ d > 0
      BY <2>2 DEF Fraction
    <3>2. Plus(v, values[i]) = [num |-> a * d + c * b, den |-> b * d]
      BY <2>2 DEF Plus, Ratio
    <3> HIDE DEF a, b, c, d
    <3>3. a * d \in Nat /\ c * b \in Nat /\ b * d \in Nat /\ b * d > 0
      BY <3>1
    <3>4. a * d + c * b \in Nat
      BY <3>3
    <3> QED
      BY <3>2, <3>3, <3>4 DEF Fraction
  <2> QED
    BY <2>1, <2>2
<1>3. PICK g \in [SUBSET (1..n) -> Fraction] : Folds(n, Ratio(0, 1), op, g)
  <2> HIDE DEF op
  <2> QED
    BY <1>1, <1>2, FoldsExist
<1>4. ASSUME NEW s \in SUBSET (1..n), s # {}
      PROVE  Max(s) \in 1..n /\ g[s \ {Max(s)}] \in Fraction
  <2>1. s \in SUBSET Int
    OBVIOUS
  <2>2. IsFiniteSet(s)
    <3>1. IsFiniteSet(1..n)
      BY FS_Interval
    <3> QED
      BY <3>1, FS_Subset
  <2>3. Max(s) \in s
    BY <1>4, <2>1, <2>2, Extremes
  <2> QED
    BY <2>3
<1>5. Fold(g)
  <2>1. ASSUME NEW s \in SUBSET (1..n)
        PROVE  g[s] = IF s = {} THEN Ratio(0, 1) ELSE Plus(g[s \ {Max(s)}], values[Max(s)])
    <3>1. CASE s = {}
      BY <1>3, <3>1 DEF Folds
    <3>2. CASE s # {}
      <4>1. g[s] = op[Max(s)][g[s \ {Max(s)}]]
        BY <1>3, <3>2 DEF Folds
      <4>2. op[Max(s)][g[s \ {Max(s)}]] = Plus(g[s \ {Max(s)}], values[Max(s)])
        BY <1>4, <3>2
      <4> HIDE DEF op
      <4> QED
        BY <3>2, <4>1, <4>2
    <3> QED
      BY <3>1, <3>2
  <2> QED
    BY <2>1
<1> DEFINE iter == CHOOSE h : Fold(h)
<1>6. Fold(iter)
  <2> HIDE DEF Fold
  <2> QED
    BY <1>5
<1>7. FoldLeft(Plus, Ratio(0, 1), values) = iter[1..n]
  BY DEF FoldLeft, MapThenFoldSet
<1> DEFINE s == [i \in 0..n |-> iter[1..i]]
<1>8. s[0] = Ratio(0, 1)
  <2>1. 1..0 = {} /\ 0 \in 0..n
    OBVIOUS
  <2> QED
    BY <1>6, <2>1
<1>9. ASSUME NEW i \in 1..n PROVE s[i] = Plus(s[i - 1], values[i])
  <2>1. i \in Nat \ {0} /\ 1..i \in SUBSET (1..n) /\ i - 1 \in 0..n /\ i \in 0..n
    OBVIOUS
  <2>r. 1..i # {}
    BY <2>1
  <2>2. iter[1..i] = Plus(iter[(1..i) \ {Max(1..i)}], values[Max(1..i)])
    <3> HIDE DEF iter
    <3> QED
      BY <1>6, <2>1, <2>r
  <2>3. iter[1..i] = Plus(iter[1..(i - 1)], values[i])
    <3> HIDE DEF iter
    <3> QED
      BY <2>1, <2>2, UpTo
  <2> HIDE DEF iter
  <2> QED
    BY <2>1, <2>3
<1>10. s[n] = iter[1..n]
  OBVIOUS
<1> HIDE DEF s, iter
<1> QED
  BY <1>7, <1>8, <1>9, <1>10

(* The mean of what lies between 0 and 1 does so too (metrics.py:99-101).  *)
LEMMA MeanWithin ==
  ASSUME NEW n \in Nat, NEW values, DOMAIN values = 1..n,
         \A i \in 1..n : values[i] = None \/ (values[i] \in Fraction /\ Within01(values[i]))
  PROVE  Within01(Mean(values))
<1>1. PICK s : /\ s[0] = Ratio(0, 1)
               /\ \A i \in 1..n : s[i] = Plus(s[i - 1], values[i])
               /\ FoldLeft(Plus, Ratio(0, 1), values) = s[n]
  BY FractionsAdd
<1> DEFINE There(i) == {j \in 1..i : values[j] # None}
           Bounded(i) == /\ s[i] \in Fraction
                         /\ s[i].num <= s[i].den * Cardinality(There(i))
           Good == {i \in Nat : i <= n => Bounded(i)}
<1>2. \A i \in Nat : IsFiniteSet(There(i)) /\ Cardinality(There(i)) \in Nat
  <2> SUFFICES ASSUME NEW i \in Nat PROVE IsFiniteSet(There(i)) /\ Cardinality(There(i)) \in Nat
    OBVIOUS
  <2>1. IsFiniteSet(1..i)
    BY FS_Interval
  <2>2. There(i) \in SUBSET (1..i)
    OBVIOUS
  <2> HIDE DEF There
  <2> QED
    BY <2>1, <2>2, FS_Subset, FS_CardinalityType
<1>3. 0 \in Good
  <2>1. There(0) = {}
    OBVIOUS
  <2>2. s[0] = [num |-> 0, den |-> 1]
    BY <1>1 DEF Ratio
  <2>3. s[0] \in Fraction /\ s[0].num = 0 /\ s[0].den = 1
    BY <2>2 DEF Fraction
  <2>4. Cardinality(There(0)) = 0
    BY <2>1, FS_EmptySet
  <2> HIDE DEF There
  <2> QED
    BY <2>3, <2>4
<1>4. ASSUME NEW i \in Nat, i \in Good PROVE i + 1 \in Good
  <2> SUFFICES ASSUME i + 1 <= n PROVE Bounded(i + 1)
    OBVIOUS
  <2> DEFINE y == values[i + 1]
             m == Cardinality(There(i))
  <2>1. /\ s[i + 1] = Plus(s[i], y) /\ i + 1 \in 1..n /\ s[i] \in Fraction
        /\ s[i].num <= s[i].den * m /\ m \in Nat
        /\ y = None \/ (y \in Fraction /\ Within01(y))
    <3>1. i <= n => Bounded(i)
      BY <1>4
    <3> HIDE DEF There, Bounded, Good
    <3>2. i + 1 \in 1..n /\ (i + 1) - 1 = i /\ i <= n
      OBVIOUS
    <3>3. Bounded(i) /\ m \in Nat
      BY <1>2, <3>1, <3>2
    <3>4. s[i + 1] = Plus(s[i], y) /\ (y = None \/ (y \in Fraction /\ Within01(y)))
      BY <1>1, <3>2
    <3> QED
      BY <3>2, <3>3, <3>4 DEF Bounded, m
  <2>2. CASE y = None
    <3>1. There(i + 1) = There(i)
      BY <2>2
    <3>2. s[i + 1] = s[i]
      BY <2>1, <2>2 DEF Plus
    <3> QED
      BY <2>1, <3>1, <3>2
  <2>3. CASE y # None
    <3>1. There(i + 1) = There(i) \cup {i + 1} /\ i + 1 \notin There(i)
      BY <2>3
    <3>2. Cardinality(There(i + 1)) = m + 1
      <4> HIDE DEF There
      <4> QED
        BY <1>2, <3>1, FS_AddElement DEF m
    <3> DEFINE a == s[i].num
               b == s[i].den
               c == y.num
               d == y.den
    <3>3. /\ a \in Nat /\ b \in Nat /\ b > 0 /\ c \in Nat /\ d \in Nat /\ d > 0
          /\ a <= b * m /\ c <= d
      BY <2>1, <2>3 DEF Fraction, Within01
    <3>4. s[i + 1] = [num |-> a * d + c * b, den |-> b * d]
      BY <2>1, <2>3 DEF Plus, Ratio
    <3> HIDE DEF There, a, b, c, d, m, y
    <3>5. a * d \in Nat /\ c * b \in Nat /\ b * d \in Nat /\ b * d > 0 /\ b * m \in Nat
      BY <2>1, <3>3
    <3>6. a * d <= (b * m) * d
      BY <3>3, <3>5
    <3>7. c * b <= d * b
      BY <3>3
    <3>8. (b * m) * d + d * b = (b * d) * (m + 1)
      BY <2>1, <3>3
    <3>9. a * d + c * b <= (b * d) * (m + 1)
      <4> DEFINE p == a * d
                 q == c * b
                 u == (b * m) * d
                 v == d * b
      <4>1. p \in Nat /\ q \in Nat /\ u \in Nat /\ v \in Nat /\ p <= u /\ q <= v
        BY <2>1, <3>3, <3>5, <3>6, <3>7
      <4> HIDE DEF p, q, u, v
      <4>2. p + q <= u + v
        BY <4>1
      <4> QED
        BY <3>8, <4>2 DEF p, q, u, v
    <3>10. a * d + c * b \in Nat
      BY <3>5
    <3> QED
      BY <3>2, <3>4, <3>5, <3>9, <3>10 DEF Fraction
  <2> QED
    BY <2>2, <2>3
<1>5. Bounded(n)
  <2>1. n \in Good
    <3> HIDE DEF Good
    <3> QED
      BY <1>3, <1>4, NatInduction0
  <2> QED
    BY <2>1
<1> DEFINE there == Cardinality({i \in DOMAIN values : values[i] # None})
<1>6. there = Cardinality(There(n)) /\ there \in Nat
  BY <1>2
<1>7. s[n] \in Fraction /\ s[n].num <= s[n].den * there
  BY <1>5, <1>6
<1>8. Mean(values) = IF there = 0 THEN None ELSE [num |-> s[n].num, den |-> s[n].den * there]
  BY <1>1 DEF Mean, Ratio
<1> HIDE DEF there
<1> QED
  BY <1>6, <1>7, <1>8 DEF Within01, Fraction, None
(* The averages over rankings lie between 0 and 1 (metrics.py:82-108).     *)
LEMMA AveragesWithin ==
  ASSUME NEW n \in Nat, NEW pairs, DOMAIN pairs = 1..n,
         \A i \in 1..n : NoneTwice(pairs[i].ranked) /\ IsFiniteSet(pairs[i].relevant),
         NEW k \in Nat, k <= Len(Gain),
         NEW metric \in {"precision", "recall", "mrr", "ndcg"}
  PROVE  Within01(Aggregate(pairs, k)[metric])
<1> DEFINE values == [i \in DOMAIN pairs |-> Evaluated(pairs, k)[i][metric]]
<1>1. DOMAIN values = 1..n /\ \A i \in 1..n : values[i] = Measured(pairs[i], k)[metric]
  BY DEF Evaluated
<1>2. Aggregate(pairs, k)[metric] = Mean(values)
  BY DEF Aggregate
<1>3. ASSUME NEW i \in 1..n
      PROVE  values[i] = None \/ (values[i] \in Fraction /\ Within01(values[i]))
  <2> DEFINE ranked == pairs[i].ranked
             rel == pairs[i].relevant
             m == Measured(pairs[i], k)
  <2>1. NoneTwice(ranked) /\ IsFiniteSet(rel) /\ values[i] = m[metric]
    BY <1>1
  <2>2. /\ m["precision"] = PrecisionAtK(ranked, rel, k) /\ m["recall"] = RecallAtK(ranked, rel, k)
        /\ m["mrr"] = Mrr(ranked, rel) /\ m["ndcg"] = Ndcg(ranked, rel, k)
    BY DEF Measured
  <2> HIDE DEF ranked, rel, m, values
  <2>3. CASE metric = "precision"
    BY <2>1, <2>2, <2>3, PrecisionIs
  <2>4. CASE metric = "recall"
    BY <2>1, <2>2, <2>4, RecallIs
  <2>5. CASE metric = "mrr"
    BY <2>1, <2>2, <2>5, MrrIs
  <2>6. CASE metric = "ndcg"
    BY <2>1, <2>2, <2>6, NdcgIs
  <2> QED
    BY <2>3, <2>4, <2>5, <2>6
<1> HIDE DEF values
<1> QED
  BY <1>1, <1>2, <1>3, MeanWithin

(* Chunk utilization lies between 0 and 1 (metrics.py:69-73).              *)
LEMMA UtilizationWithin ==
  ASSUME NEW V, NEW retrieved \in Seq(V), NEW context
  PROVE  Within01(ChunkUtilization(retrieved, context))
<1> DEFINE n == Len(retrieved)
           H == HitsIn(retrieved, ToSet(context))
           h == Cardinality(H)
<1>1. n \in Nat /\ (n = 0 <=> retrieved = <<>>) /\ DOMAIN retrieved = 1..n
  OBVIOUS
<1>2. H \in SUBSET (1..n)
  BY <1>1 DEF HitsIn
<1> HIDE DEF H
<1>3. h \in Nat /\ h <= n
  <2>1. IsFiniteSet(1..n) /\ Cardinality(1..n) = n
    BY <1>1, FS_Interval
  <2> HIDE DEF n
  <2> QED
    BY <1>2, <2>1, FS_Subset, FS_CardinalityType
<1>4. ChunkUtilization(retrieved, context)
        = IF retrieved = <<>> THEN None ELSE [num |-> h, den |-> n]
  BY DEF ChunkUtilization, Ratio, H
<1> HIDE DEF h, n
<1> QED
  BY <1>1, <1>3, <1>4 DEF Within01, None
------------------------------------------------------------------------------
(* Orders. *)

(* Ascending lists a finite set of numbers in its order.                   *)
LEMMA AscendingIs ==
  ASSUME NEW S \in SUBSET Int, IsFiniteSet(S)
  PROVE  Listed(S, [x \in S |-> x], Ascending(S))
<1> DEFINE a == Ascending(S)
           num == [x \in S |-> x]
           Earlier0(x) == Cardinality({y \in S : y < x})
<1>1. \A x \in S : num[x] = x
  OBVIOUS
<1>2. num \in [S -> Int]
  OBVIOUS
<1>3. \A x, y \in S : num[x] = num[y] => x = y
  OBVIOUS
<1>4. \A x \in S : Earlier0(x) = Rank(S, num, x)
  <2> SUFFICES ASSUME NEW x \in S PROVE {y \in S : y < x} = {y \in S : num[y] < num[x]}
    BY DEF Rank
  <2> HIDE DEF num
  <2> QED
    BY <1>1
<1>5. DOMAIN a = 1..Cardinality(S)
      /\ \A i \in 1..Cardinality(S) : a[i] = CHOOSE x \in S : Earlier0(x) = i - 1
  BY DEF Ascending
<1> HIDE DEF num, a, Earlier0
<1>6. \A i \in 1..Cardinality(S) : (\E x \in S : Rank(S, num, x) = i - 1) =>
         a[i] \in S /\ Rank(S, num, a[i]) = i - 1
  BY <1>4, <1>5
<1>7. Listed(S, num, a)
  BY <1>2, <1>3, <1>5, <1>6, Listing
<1> QED
  BY <1>7 DEF num, a

(* Where a list without repetition has an item (metrics.py:53-54).         *)
LEMMA PlaceIs ==
  ASSUME NEW list, NoneTwice(list)
  PROVE  /\ Len(list) \in Nat /\ DOMAIN list = 1..Len(list)
         /\ \A i \in 1..Len(list) : Place(list, list[i]) = i
<1>1. /\ Len(list) \in Nat /\ DOMAIN list = 1..Len(list)
      /\ \A i, j \in 1..Len(list) : list[i] = list[j] => i = j
  BY DEF NoneTwice, IsInjective
<1> SUFFICES ASSUME NEW i \in 1..Len(list) PROVE Place(list, list[i]) = i
  BY <1>1
<1>2. {j \in DOMAIN list : list[j] = list[i]} = {i}
  BY <1>1
<1>3. Place(list, list[i]) = Max({i})
  BY <1>2 DEF Place
<1>4. {i} \in SUBSET Int /\ {i} # {}
  BY <1>1
<1>5. IsFiniteSet({i})
  BY FS_Singleton
<1>6. Max({i}) \in {i}
  BY <1>4, <1>5, Extremes
<1> QED
  BY <1>3, <1>6

(* What two lists have in common, in the order of the first                *)
(* (metrics.py:50-52).                                                     *)
LEMMA CommonIs ==
  ASSUME NEW list, NoneTwice(list), NEW other
  PROVE  LET c == Common(list, other)
             S == ToSet(list) \cap ToSet(other)
         IN  /\ IsFiniteSet(S) /\ [x \in S |-> Place(list, x)] \in [S -> Int]
             /\ Listed(S, [x \in S |-> Place(list, x)], c)
             /\ c = [i \in 1..Cardinality(S) |-> c[i]] /\ Len(c) = Cardinality(S)
             /\ ToSet(c) = S
<1> DEFINE c == Common(list, other)
           S == ToSet(list) \cap ToSet(other)
           P == {i \in DOMAIN list : list[i] \in ToSet(other)}
           n == Cardinality(P)
           a == Ascending(P)
           place == [x \in S |-> Place(list, x)]
<1>1. /\ Len(list) \in Nat /\ DOMAIN list = 1..Len(list)
      /\ \A i \in 1..Len(list) : Place(list, list[i]) = i
  BY PlaceIs
<1>2. P \in SUBSET (1..Len(list)) /\ P \in SUBSET Int
  BY <1>1
<1>3. S = {list[i] : i \in P}
  BY DEF ToSet
<1>4. \A i, j \in P : list[i] = list[j] => i = j
  BY <1>1
<1>5. DOMAIN c = 1..n /\ c = [i \in 1..n |-> list[a[i]]]
  BY DEF Common
<1>6. DOMAIN place = S /\ place = [x \in S |-> place[x]] /\ \A x \in S : place[x] = Place(list, x)
  OBVIOUS
<1> HIDE DEF c, S, P, a, place
<1>7. IsFiniteSet(P)
  <2>1. IsFiniteSet(1..Len(list))
    BY <1>1, FS_Interval
  <2> QED
    BY <1>2, <2>1, FS_Subset
<1>8. IsFiniteSet(S) /\ Cardinality(S) = n
  BY <1>3, <1>4, <1>7, Images, ImagesMany
<1>9. /\ n \in Nat /\ \A i \in 1..n : a[i] \in P
      /\ \A i, j \in 1..n : i < j => a[i] < a[j]
      /\ \A x \in P : \E i \in 1..n : a[i] = x
  <2>1. Listed(P, [x \in P |-> x], a)
    BY <1>2, <1>7, AscendingIs DEF a
  <2> QED
    BY <2>1 DEF Listed, n
<1> HIDE DEF n
<1>10. \A i \in 1..n : c[i] \in S /\ place[c[i]] = a[i]
  BY <1>1, <1>2, <1>3, <1>5, <1>6, <1>9
<1>11. \A x \in S : place[x] \in Int /\ \E i \in 1..n : c[i] = x
  <2> SUFFICES ASSUME NEW x \in S PROVE place[x] \in Int /\ \E i \in 1..n : c[i] = x
    OBVIOUS
  <2>1. PICK p \in P : list[p] = x
    BY <1>3
  <2>2. PICK i \in 1..n : a[i] = p
    BY <1>9
  <2>3. c[i] = x
    BY <1>5, <2>1, <2>2
  <2>4. place[x] = p
    BY <1>10, <2>2, <2>3
  <2> QED
    BY <1>2, <2>3, <2>4
<1>12. \A i, j \in 1..n : i < j => place[c[i]] < place[c[j]]
  BY <1>9, <1>10
<1>13. Len(c) = n /\ ToSet(c) = S /\ c = [i \in 1..n |-> c[i]]
  <2>1. c = [i \in 1..n |-> c[i]]
    BY <1>5
  <2>2. c \in Seq(S)
    BY <1>9, <1>10, <2>1
  <2>3. Len(c) = n
    BY <1>5, <1>9, <2>2
  <2>4. ToSet(c) = S
    BY <1>5, <1>10, <1>11 DEF ToSet
  <2> QED
    BY <2>1, <2>3, <2>4
<1>14. Listed(S, place, c)
  BY <1>5, <1>8, <1>9, <1>10, <1>11, <1>12 DEF Listed
<1>15. place \in [S -> Int]
  BY <1>6, <1>11
<1> QED
  BY <1>8, <1>13, <1>14, <1>15 DEF c, S, place

(* The pairs of places that a list has in order and those that it has not  *)
(* (metrics.py:55-66).                                                     *)
LEMMA PairsCounted ==
  ASSUME NEW n \in Nat, NEW p \in [1..n -> Int], \A i, j \in 1..n : p[i] = p[j] => i = j
  PROVE  LET pairs == {ij \in (1..n) \X (1..n) : ij[1] < ij[2]}
             C == Cardinality({ij \in pairs : p[ij[1]] < p[ij[2]]})
             D == Cardinality({ij \in pairs : p[ij[1]] > p[ij[2]]})
         IN  /\ C \in Nat /\ D \in Nat /\ (C = 0 /\ D = 0 <=> n < 2)
             /\ D = 0 <=> \A i, j \in 1..n : i < j => p[i] < p[j]
             /\ C = 0 <=> \A i, j \in 1..n : i < j => p[j] < p[i]
<1> DEFINE N == 1..n
           pairs == {ij \in N \X N : ij[1] < ij[2]}
           Cs == {ij \in pairs : p[ij[1]] < p[ij[2]]}
           Ds == {ij \in pairs : p[ij[1]] > p[ij[2]]}
<1>1. IsFiniteSet(Cs) /\ IsFiniteSet(Ds)
  <2>1. IsFiniteSet(N)
    BY FS_Interval
  <2>2. IsFiniteSet(N \X N)
    <3> HIDE DEF N
    <3> QED
      BY <2>1, FS_Product
  <2>3. Cs \in SUBSET (N \X N) /\ Ds \in SUBSET (N \X N)
    OBVIOUS
  <2> HIDE DEF N, Cs, Ds
  <2> QED
    BY <2>2, <2>3, FS_Subset
<1>2. /\ Cardinality(Cs) \in Nat /\ (Cardinality(Cs) = 0 <=> Cs = {})
      /\ Cardinality(Ds) \in Nat /\ (Cardinality(Ds) = 0 <=> Ds = {})
  <2> HIDE DEF Cs, Ds
  <2> QED
    BY <1>1, FS_CardinalityType, FS_EmptySet
<1>3. /\ \A i, j \in N : i < j => p[i] < p[j] \/ p[j] < p[i]
      /\ \A i, j \in N : p[i] \in Int /\ ~(p[i] < p[j] /\ p[j] < p[i])
  <2>1. \A i, j \in N : i < j => p[i] # p[j]
    OBVIOUS
  <2>2. \A i \in N : p[i] \in Int
    OBVIOUS
  <2> HIDE DEF N
  <2> QED
    BY <2>1, <2>2
<1>4. \A i, j \in N : i < j => <<i, j>> \in pairs
  OBVIOUS
<1>5. \A ij \in pairs : ij[1] \in N /\ ij[2] \in N /\ ij[1] < ij[2]
  OBVIOUS
<1>6. \A i, j \in N : /\ i < j /\ p[i] < p[j] => <<i, j>> \in Cs
                      /\ i < j /\ p[j] < p[i] => <<i, j>> \in Ds
  <2> SUFFICES ASSUME NEW i \in N, NEW j \in N, i < j
               PROVE  /\ p[i] < p[j] => <<i, j>> \in Cs
                      /\ p[j] < p[i] => <<i, j>> \in Ds
    OBVIOUS
  <2>1. <<i, j>> \in pairs /\ <<i, j>>[1] = i /\ <<i, j>>[2] = j
    BY <1>4
  <2>2. p[i] > p[j] <=> p[j] < p[i]
    BY <1>3
  <2> HIDE DEF pairs, N
  <2> QED
    BY <2>1, <2>2
<1>7. /\ \A ij \in Cs : ij[1] \in N /\ ij[2] \in N /\ ij[1] < ij[2] /\ p[ij[1]] < p[ij[2]]
      /\ \A ij \in Ds : ij[1] \in N /\ ij[2] \in N /\ ij[1] < ij[2] /\ p[ij[2]] < p[ij[1]]
  <2> HIDE DEF pairs, N
  <2> QED
    BY <1>3, <1>5
<1> HIDE DEF N, pairs, Cs, Ds
<1>8. Ds = {} <=> \A i, j \in N : i < j => p[i] < p[j]
  <2>1. ASSUME Ds = {}, NEW i \in N, NEW j \in N, i < j PROVE p[i] < p[j]
    BY <1>3, <1>6, <2>1
  <2>2. ASSUME NEW ij \in Ds PROVE ~\A i, j \in N : i < j => p[i] < p[j]
    BY <1>3, <1>7, <2>2
  <2> QED
    BY <2>1, <2>2
<1>9. Cs = {} <=> \A i, j \in N : i < j => p[j] < p[i]
  <2>1. ASSUME Cs = {}, NEW i \in N, NEW j \in N, i < j PROVE p[j] < p[i]
    BY <1>3, <1>6, <2>1
  <2>2. ASSUME NEW ij \in Cs PROVE ~\A i, j \in N : i < j => p[j] < p[i]
    BY <1>3, <1>7, <2>2
  <2> QED
    BY <2>1, <2>2
<1>10. Cs = {} /\ Ds = {} <=> n < 2
  <2>1. Cs = {} /\ Ds = {} <=> \A i, j \in N : ~(i < j)
    <3>1. ASSUME Cs = {}, Ds = {}, NEW i \in N, NEW j \in N PROVE ~(i < j)
      BY <1>3, <1>6, <3>1
    <3>2. ASSUME NEW ij \in Cs PROVE ~\A i, j \in N : ~(i < j)
      BY <1>7, <3>2
    <3>3. ASSUME NEW ij \in Ds PROVE ~\A i, j \in N : ~(i < j)
      BY <1>7, <3>3
    <3> QED
      BY <3>1, <3>2, <3>3
  <2>2. n < 2 <=> \A i, j \in N : ~(i < j)
    <3>1. n >= 2 => 1 \in N /\ 2 \in N /\ 1 < 2
      BY DEF N
    <3>2. n < 2 => \A i, j \in N : ~(i < j)
      BY DEF N
    <3>3. n >= 2 \/ n < 2
      OBVIOUS
    <3>4. n >= 2 => ~\A i, j \in N : ~(i < j)
      BY <3>1
    <3> QED
      BY <3>2, <3>3, <3>4
  <2> QED
    BY <2>1, <2>2
<1> QED
  BY <1>2, <1>8, <1>9, <1>10 DEF N, pairs, Cs, Ds
(* Kendall's tau orders two lists without repetition (metrics.py:47-66).   *)
THEOREM OrdersMeasured ==
  ASSUME NEW listed, NoneTwice(listed), NEW reranked, NoneTwice(reranked)
  PROVE  OrderMeasured(listed, reranked)
<1> DEFINE before == Common(listed, reranked)
           after == Common(reranked, before)
           S == ToSet(listed) \cap ToSet(reranked)
           n == Cardinality(S)
           q == [x \in S |-> Place(reranked, x)]
           p == [i \in 1..n |-> q[before[i]]]
           flip == [i \in 1..n |-> before[(n - i) + 1]]
           pairs == {ij \in (1..n) \X (1..n) : ij[1] < ij[2]}
           C == Cardinality({ij \in pairs : p[ij[1]] < p[ij[2]]})
           D == Cardinality({ij \in pairs : p[ij[1]] > p[ij[2]]})
           tau == KendallTau(listed, reranked)
<1>1. /\ IsFiniteSet(S) /\ ToSet(before) = S /\ Len(before) = n
      /\ before = [i \in 1..n |-> before[i]]
      /\ n \in Nat /\ \A i \in 1..n : before[i] \in S
      /\ \A e \in S : \E i \in 1..n : before[i] = e
      /\ \A i, j \in 1..n : before[i] = before[j] => i = j
  <2> DEFINE num == [x \in S |-> Place(listed, x)]
  <2>1. /\ IsFiniteSet(S) /\ ToSet(before) = S /\ Len(before) = n
        /\ before = [i \in 1..n |-> before[i]]
        /\ num \in [S -> Int] /\ Listed(S, num, before)
    <3> HIDE DEF before
    <3> QED
      BY CommonIs DEF before
  <2> HIDE DEF num, before, S
  <2>2. num \in [S -> Int] /\ Listed(S, num, before)
    BY <2>1
  <2>3. \A i, j \in 1..Cardinality(S) : before[i] = before[j] => i = j
    BY <2>2, ListedOnce
  <2> QED
    BY <2>1, <2>3 DEF Listed
<1>2. ToSet(reranked) \cap ToSet(before) = S
  BY <1>1
<1>3. /\ q \in [S -> Int] /\ Listed(S, q, after)
      /\ after = [i \in 1..n |-> after[i]] /\ Len(after) = n
  <2> HIDE DEF before
  <2> QED
    BY <1>2, CommonIs
<1>4. \A x \in S : q[x] = Place(reranked, x)
  OBVIOUS
<1> HIDE DEF before, after, S, q, n
<1>5. \A e, f \in S : q[e] = q[f] => e = f
  BY <1>3, ListedOnce
<1>6. p \in [1..n -> Int] /\ \A i, j \in 1..n : p[i] = p[j] => i = j
  BY <1>1, <1>3, <1>5
<1>7. tau = IF C + D = 0 THEN None ELSE [num |-> C - D, den |-> C + D]
  <2>1. DOMAIN before = 1..n
    BY <1>1
  <2>2. \A i \in 1..n : Place(reranked, before[i]) = p[i]
    BY <1>1, <1>4
  <2>3. {ij \in pairs : Place(reranked, before[ij[1]]) < Place(reranked, before[ij[2]])}
          = {ij \in pairs : p[ij[1]] < p[ij[2]]}
    <3>1. \A ij \in pairs : ij[1] \in 1..n /\ ij[2] \in 1..n
      OBVIOUS
    <3> HIDE DEF p, pairs
    <3> QED
      BY <2>2, <3>1
  <2>4. {ij \in pairs : Place(reranked, before[ij[1]]) > Place(reranked, before[ij[2]])}
          = {ij \in pairs : p[ij[1]] > p[ij[2]]}
    <3>1. \A ij \in pairs : ij[1] \in 1..n /\ ij[2] \in 1..n
      OBVIOUS
    <3> HIDE DEF p, pairs
    <3> QED
      BY <2>2, <3>1
  <2> HIDE DEF p
  <2> QED
    BY <2>1, <2>3, <2>4 DEF KendallTau, Ratio, before
<1> HIDE DEF p
<1>8. /\ C \in Nat /\ D \in Nat /\ (C = 0 /\ D = 0 <=> n < 2)
      /\ D = 0 <=> \A i, j \in 1..n : i < j => p[i] < p[j]
      /\ C = 0 <=> \A i, j \in 1..n : i < j => p[j] < p[i]
  BY <1>1, <1>6, PairsCounted
<1> HIDE DEF C, D, pairs, tau
<1>9. /\ tau = None <=> n < 2
      /\ Is(tau, 1) <=> D = 0 /\ ~(n < 2)
      /\ Is(tau, -1) <=> C = 0 /\ ~(n < 2)
  <2>1. CASE n < 2
    <3>1. tau = None
      BY <1>7, <1>8, <2>1
    <3> QED
      BY <2>1, <3>1 DEF Is
  <2>2. CASE ~(n < 2)
    <3>1. tau = [num |-> C - D, den |-> C + D] /\ C + D > 0
      BY <1>7, <1>8, <2>2
    <3>2. tau # None /\ tau.num = C - D /\ tau.den = C + D
      BY <1>8, <3>1 DEF None
    <3>3. Is(tau, 1) <=> C - D = 1 * (C + D)
      BY <3>2 DEF Is
    <3>4. Is(tau, -1) <=> C - D = (-1) * (C + D)
      BY <3>2 DEF Is
    <3> QED
      BY <1>8, <2>2, <3>2, <3>3, <3>4
  <2> QED
    BY <2>1, <2>2
<1>10. D = 0 <=> before = after
  <2>1. ASSUME D = 0 PROVE before = after
    <3>1. \A i, j \in 1..n : i < j => q[before[i]] < q[before[j]]
      BY <1>8, <2>1 DEF p
    <3>2. Listed(S, q, before)
      BY <1>1, <3>1 DEF Listed, n
    <3>3. \A i \in 1..Cardinality(S) : before[i] = after[i]
      <4>1. IsFiniteSet(S) /\ q \in [S -> Int] /\ Listed(S, q, after)
        BY <1>1, <1>3
      <4> QED
        BY <3>2, <4>1, OneOrder
    <3> QED
      BY <1>1, <1>3, <3>3 DEF n
  <2>2. ASSUME before = after PROVE D = 0
    <3>1. \A i, j \in 1..n : i < j => q[before[i]] < q[before[j]]
      BY <1>3, <2>2 DEF Listed, n
    <3> QED
      BY <1>8, <3>1 DEF p
  <2> QED
    BY <2>1, <2>2
<1>r. Reverse(after) = [i \in 1..n |-> after[(n - i) + 1]]
  BY <1>3 DEF Reverse
<1>f. \A i \in 1..n : (n - i) + 1 \in 1..n /\ (n - ((n - i) + 1)) + 1 = i
  BY <1>1
<1>o. \A i, j \in 1..n : i < j <=> (n - j) + 1 < (n - i) + 1
  BY <1>1
<1>11. C = 0 <=> before = Reverse(after)
  <2>0. DOMAIN flip = 1..n /\ \A i \in 1..n : flip[i] = before[(n - i) + 1]
    OBVIOUS
  <2> HIDE DEF flip
  <2>1. ASSUME C = 0 PROVE before = Reverse(after)
    <3>1. \A i, j \in 1..n : i < j => q[before[j]] < q[before[i]]
      BY <1>8, <2>1 DEF p
    <3>2. \A i, j \in 1..n : i < j => q[flip[i]] < q[flip[j]]
      BY <1>f, <1>o, <2>0, <3>1
    <3>3. \A e \in S : \E i \in 1..n : flip[i] = e
      <4> SUFFICES ASSUME NEW e \in S PROVE \E i \in 1..n : flip[i] = e
        OBVIOUS
      <4>1. PICK j \in 1..n : before[j] = e
        BY <1>1
      <4>2. flip[(n - j) + 1] = before[j] /\ (n - j) + 1 \in 1..n
        BY <1>f, <2>0
      <4> QED
        BY <4>1, <4>2
    <3>4. Listed(S, q, flip)
      BY <1>1, <1>f, <2>0, <3>2, <3>3 DEF Listed, n
    <3>5. \A i \in 1..Cardinality(S) : flip[i] = after[i]
      <4>1. IsFiniteSet(S) /\ q \in [S -> Int] /\ Listed(S, q, after)
        BY <1>1, <1>3
      <4> QED
        BY <3>4, <4>1, OneOrder
    <3>6. \A i \in 1..n : before[i] = after[(n - i) + 1]
      <4>1. \A i \in 1..n : flip[i] = after[i]
        BY <3>5 DEF n
      <4> QED
        BY <1>f, <2>0, <4>1
    <3> QED
      BY <1>1, <1>r, <3>6
  <2>2. ASSUME before = Reverse(after) PROVE C = 0
    <3>1. \A i, j \in 1..n : i < j => q[after[i]] < q[after[j]]
      BY <1>3 DEF Listed, n
    <3>2. \A i \in 1..n : before[i] = after[(n - i) + 1]
      BY <1>r, <2>2
    <3>3. \A i, j \in 1..n : i < j => q[before[j]] < q[before[i]]
      BY <1>f, <1>o, <3>1, <3>2
    <3> QED
      BY <1>8, <3>3 DEF p
  <2> QED
    BY <2>1, <2>2
<1>12. n < 2 <=> ~(n > 1)
  BY <1>1
<1> QED
  BY <1>1, <1>9, <1>10, <1>11, <1>12 DEF OrderMeasured, before, after, tau

------------------------------------------------------------------------------
(* The metrics of what is stored. *)

(* No chunk is twice in what a pipeline retrieves or reranks.              *)
NoRepeats ==
  \A e \in PipelineEvent :
    /\ e.stage \in {"retrieval", "reranking"} => NoneTwice(Hashes(e.items))
    /\ e.stage = "reranking" => NoneTwice(e.before)

(* In a list of nothing, nothing is twice. *)
LEMMA NothingTwice == NoneTwice(<<>>) /\ Hashes(<<>>) = <<>>
<1>1. <<>> \in Seq(ToSet(<<>>)) /\ DOMAIN <<>> = {}
  OBVIOUS
<1>2. IsInjective(<<>>)
  BY <1>1 DEF IsInjective
<1>3. Hashes(<<>>) = <<>>
  <2>1. Hashes(<<>>) = [i \in {} |-> <<>>[i].hash]
    BY <1>1 DEF Hashes
  <2> QED
    BY <2>1
<1> QED
  BY <1>1, <1>2, <1>3 DEF NoneTwice

(* The last of some events is one of them (api.py:71-80, db.py:559-565).   *)
LEMMA LastOne ==
  ASSUME IInv, NEW E \in SUBSET events, E # {}
  PROVE  Last(ByStart(E)) \in E
<1>1. Ordered(E)
  BY EventsOrdered DEF IInv
<1>2. /\ Cardinality(E) \in Nat /\ DOMAIN ByStart(E) = 1..Cardinality(E)
      /\ \A i \in 1..Cardinality(E) : ByStart(E)[i] \in E
  BY <1>1, InOrder
<1>3. Cardinality(E) # 0
  BY <1>1, FS_EmptySet DEF Ordered
<1> DEFINE seq == ByStart(E)
           At(i) == CHOOSE e \in E : Cardinality({f \in E : f.start < e.start}) = i - 1
<1>s. seq = [i \in 1..Cardinality(E) |-> seq[i]]
  <2>1. seq = [i \in 1..Cardinality(E) |-> At(i)]
    BY DEF ByStart
  <2> HIDE DEF seq, At
  <2> QED
    BY <2>1
<1>4. ByStart(E) \in Seq(E)
  <2>1. DOMAIN seq = 1..Cardinality(E) /\ \A i \in 1..Cardinality(E) : seq[i] \in E
    BY <1>2
  <2> HIDE DEF seq
  <2>2. seq \in Seq(E)
    BY <1>2, <1>s, <2>1
  <2> QED
    BY <2>2 DEF seq
<1>5. Len(ByStart(E)) = Cardinality(E)
  BY <1>2, <1>4
<1> QED
  BY <1>2, <1>3, <1>5 DEF Last

(* What is measured has no chunk twice (api.py:83-90, db.py:556-570).      *)
LEMMA StoredOnce ==
  ASSUME IInv, NoRepeats, NEW tr
  PROVE  /\ NoneTwice(Hashes(LastOf(tr, "retrieval").items))
         /\ NoneTwice(Hashes(LastOf(tr, "reranking").items))
         /\ NoneTwice(LastOf(tr, "reranking").before)
         /\ (\E e \in EventsOf(tr) : e.stage \in {"reranking", "retrieval"}) => NoneTwice(Ranking(tr))
<1> DEFINE Of(stage) == {e \in EventsOf(tr) : e.stage = stage}
<1>1. ASSUME NEW stage \in {"retrieval", "reranking"}, Of(stage) # {}
      PROVE  /\ NoneTwice(Hashes(Last(ByStart(Of(stage))).items))
             /\ stage = "reranking" => NoneTwice(Last(ByStart(Of(stage))).before)
  <2> DEFINE e == Last(ByStart(Of(stage)))
  <2>1. Of(stage) \in SUBSET events
    BY DEF EventsOf
  <2>2. e \in Of(stage)
    <3> HIDE DEF Of
    <3> QED
      BY <1>1, <2>1, LastOne
  <2>3. e \in events /\ e.stage = stage
    <3> HIDE DEF e
    <3> QED
      BY <2>2 DEF EventsOf
  <2> HIDE DEF e
  <2>4. e \in PipelineEvent
    BY <2>3 DEF IInv, EventsDated
  <2>5. NoneTwice(Hashes(e.items)) /\ (stage = "reranking" => NoneTwice(e.before))
    BY <2>3, <2>4 DEF NoRepeats
  <2> QED
    BY <2>5 DEF e
<1>2. ASSUME NEW stage
      PROVE  LastOf(tr, stage) = IF Of(stage) = {} THEN [items |-> <<>>, before |-> <<>>]
                                 ELSE Last(ByStart(Of(stage)))
  BY DEF LastOf
<1>3. Ranking(tr) = Hashes(Last(ByStart(IF Of("reranking") # {} THEN Of("reranking")
                                        ELSE Of("retrieval"))).items)
  BY DEF Ranking
<1>4. (\E e \in EventsOf(tr) : e.stage \in {"reranking", "retrieval"}) =>
        Of("reranking") # {} \/ Of("retrieval") # {}
  OBVIOUS
<1> HIDE DEF Of
<1>5. ASSUME NEW stage \in {"retrieval", "reranking"}
      PROVE  /\ NoneTwice(Hashes(LastOf(tr, stage).items))
             /\ stage = "reranking" => NoneTwice(LastOf(tr, stage).before)
  <2>1. CASE Of(stage) = {}
    BY <1>2, <2>1, NothingTwice
  <2>2. CASE Of(stage) # {}
    BY <1>1, <1>2, <2>2
  <2> QED
    BY <2>1, <2>2
<1> QED
  BY <1>1, <1>3, <1>4, <1>5

(* Each trace that is judged has its ranking and its ground truth          *)
(* (db.py:544-575).                                                        *)
LEMMA PairsFit ==
  ASSUME IInv, NoRepeats, NEW p
  PROVE  \E n \in Nat :
           /\ DOMAIN TracesWithGroundTruth(p) = 1..n
           /\ \A i \in 1..n : /\ NoneTwice(TracesWithGroundTruth(p)[i].ranked)
                              /\ IsFiniteSet(TracesWithGroundTruth(p)[i].relevant)
<1> DEFINE judged == {tr \in DOMAIN truth :
                        truth[tr].project = p
                        /\ \E e \in EventsOf(tr) : e.stage \in {"reranking", "retrieval"}}
           seq == Ascending(judged)
           n == Cardinality(judged)
<1>1. judged \in SUBSET Int /\ IsFiniteSet(judged)
  <2>1. ASSUME NEW tr \in judged PROVE tr \in DOMAIN traces /\ tr \in Int
    <3>1. PICK e \in events : e.trace = tr /\ e.stage \in {"reranking", "retrieval"}
      BY DEF EventsOf
    <3>2. tr \in DOMAIN traces
      BY <3>1 DEF IInv, TracesFit
    <3>3. e \in PipelineEvent
      BY <3>1 DEF IInv, EventsDated
    <3> QED
      BY <3>1, <3>2, <3>3, DataAssumption
  <2>2. IsFiniteSet(DOMAIN traces)
    BY DEF IInv, TablesFinite
  <2> HIDE DEF judged
  <2> QED
    BY <2>1, <2>2, FS_Subset
<1>2. TracesWithGroundTruth(p)
        = [i \in DOMAIN seq |-> [ranked |-> Ranking(seq[i]), relevant |-> truth[seq[i]].relevant]]
  BY DEF TracesWithGroundTruth
<1>3. \A tr \in judged : NoneTwice(Ranking(tr)) /\ IsFiniteSet(truth[tr].relevant)
  <2> SUFFICES ASSUME NEW tr \in judged
               PROVE  NoneTwice(Ranking(tr)) /\ IsFiniteSet(truth[tr].relevant)
    OBVIOUS
  <2>1. tr \in DOMAIN truth /\ \E e \in EventsOf(tr) : e.stage \in {"reranking", "retrieval"}
    OBVIOUS
  <2> HIDE DEF judged
  <2>2. NoneTwice(Ranking(tr))
    BY <2>1, StoredOnce
  <2> QED
    BY <2>1, <2>2 DEF IInv, TruthFits
<1> HIDE DEF judged, seq
<1>4. n \in Nat /\ DOMAIN seq = 1..n /\ \A i \in 1..n : seq[i] \in judged
  <2>1. Listed(judged, [x \in judged |-> x], seq)
    BY <1>1, AscendingIs DEF seq
  <2> QED
    BY <2>1 DEF Listed
<1> HIDE DEF n
<1> QED
  BY <1>2, <1>3, <1>4

(* If no pipeline lists a chunk twice, the metrics of the dashboard        *)
(* measure: those of each trace with a ground truth, their averages and    *)
(* the order of each reranking, whatever was logged and in whatever order  *)
(* it arrived (metrics.py:13-108, api.py:69-121, db.py:544-575).           *)
THEOREM StoredRankingsMeasured ==
  ASSUME NoRepeats, 3 <= Len(Gain)
  PROVE  Spec => []MetricsMeasureRankings
<1>1. IInv => MetricsMeasureRankings
  <2> SUFFICES ASSUME IInv PROVE MetricsMeasureRankings
    OBVIOUS
  <2>1. ASSUME NEW p \in Project, NEW k \in 0..3
        PROVE  LET pairs == TracesWithGroundTruth(p)
               IN /\ \A i \in DOMAIN pairs : RankingMeasured(pairs[i], k)
                  /\ \A metric \in {"precision", "recall", "mrr", "ndcg"} :
                       Within01(Aggregate(pairs, k)[metric])
    <3> DEFINE pairs == TracesWithGroundTruth(p)
    <3>1. PICK n \in Nat :
            /\ DOMAIN pairs = 1..n
            /\ \A i \in 1..n : NoneTwice(pairs[i].ranked) /\ IsFiniteSet(pairs[i].relevant)
      BY PairsFit
    <3>2. k \in Nat /\ k <= Len(Gain)
      <4>1. Len(Gain) \in Nat
        BY GainAssumption
      <4> QED
        BY <4>1
    <3> HIDE DEF pairs
    <3>3. \A i \in DOMAIN pairs : RankingMeasured(pairs[i], k)
      BY <3>1, <3>2, RankingsMeasured
    <3>4. \A metric \in {"precision", "recall", "mrr", "ndcg"} :
            Within01(Aggregate(pairs, k)[metric])
      BY <3>1, <3>2, AveragesWithin
    <3> QED
      BY <3>3, <3>4 DEF pairs
  <2>2. ASSUME NEW tr \in DOMAIN traces
        PROVE  /\ OrderMeasured(LastOf(tr, "reranking").before, Hashes(LastOf(tr, "reranking").items))
               /\ Within01(Derived(tr).chunk_utilization)
    <3> DEFINE retrieved == Hashes(LastOf(tr, "retrieval").items)
               context == Hashes(LastOf(tr, "context_assembly").items)
    <3>1. Derived(tr).chunk_utilization = ChunkUtilization(retrieved, context)
      BY DEF Derived
    <3>2. retrieved \in Seq(ToSet(retrieved))
      BY StoredOnce DEF NoneTwice
    <3>3. OrderMeasured(LastOf(tr, "reranking").before, Hashes(LastOf(tr, "reranking").items))
      BY StoredOnce, OrdersMeasured
    <3> HIDE DEF retrieved, context
    <3>4. Within01(ChunkUtilization(retrieved, context))
      BY <3>2, UtilizationWithin
    <3> QED
      BY <3>1, <3>3, <3>4
  <2> QED
    BY <2>1, <2>2 DEF MetricsMeasureRankings
<1> QED
  BY <1>1, ExplorerInductive, PTL
==============================================================================
