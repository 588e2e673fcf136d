------------------------------- MODULE Explorer -------------------------------
(***************************************************************************)
(* What the dashboard shows and what it starts: the queries of the store   *)
(* (server/db.py), the REST handlers over them (server/api.py), the live   *)
(* replay of a generation and the evaluation by a judge (eval.py).         *)
(*                                                                         *)
(* A write or a query of the store is one step (SqliteStore opens it up);  *)
(* a replay and an evaluation are requests in threads of the server, which *)
(* read, wait for a model, and write.  The pipelines' events arrive late   *)
(* and in any order, each at most once, but were started before anything   *)
(* was replayed.  Costs are what ingest found in the event or the price    *)
(* book filled in.                                                         *)
(***************************************************************************)
EXTENDS Metrics, TLC

CONSTANTS Worker,        \* threads of the server
          Project,
          Default,       \* the project of a request that names none
          PipelineEvent, \* what the instrumented programs may log
          GroundTruth,   \* [trace, project, relevant] records they may log
          NoText,        \* an empty or missing text
          Typed,         \* a prompt that a caller of the API makes up
          Now0,          \* a time after every pipeline's events were started
          MaxRequests    \* bound: replays and evaluations that are started

ASSUME DataAssumption ==
  /\ Default \in Project /\ Now0 \in Nat
  /\ \A e \in PipelineEvent :
       /\ e.project \in Project /\ e.cost \in Nat /\ ~e.replayed
       /\ e.start \in 0..(Now0 - 1) /\ e.trace \in 0..(Now0 - 1)
       /\ e.items \in Seq(ToSet(e.items))
  /\ \A e, f \in PipelineEvent : e.trace = f.trace => e.project = f.project
  /\ \A e, f \in PipelineEvent : e.start = f.start => e.id = f.id
  /\ \A g \in GroundTruth : g.project \in Project /\ IsFiniteSet(g.relevant)
  /\ Typed # NoText
ASSUME BoundAssumption == MaxRequests \in Nat

VARIABLES events,    \* the events table
          traces,    \* the traces table: [trace -> [project, query]]
          chunks,    \* the chunks table
          hits,      \* the chunk_retrievals table
          truth,     \* the ground_truth table: [trace -> [project, relevant]]
          scores,    \* the eval_scores table: [<<trace, metric>> -> [answer, judged]]
          req,       \* what each thread of the server is doing
          now        \* the clock, which ticks when a request starts

vars == <<events, traces, chunks, hits, truth, scores, req, now>>

Free == [step |-> "free"]

Init ==
  /\ events = {} /\ traces = <<>>
  /\ chunks = {} /\ hits = {}
  /\ truth = <<>> /\ scores = <<>>
  /\ req = [w \in Worker |-> Free]
  /\ now = Now0

------------------------------------------------------------------------------
(* Ingest. *)

(* INSERT ... ON CONFLICT ... DO UPDATE *)
Upsert(table, key, row) ==
  [k \in {key} \cup DOMAIN table |-> IF k = key THEN row ELSE table[k]]

Either(x, y) == IF x # NoText THEN x ELSE y

(* Where the chunks of an event are; only these stages have any. *)
ChunkStages == {"chunking", "retrieval", "fusion", "reranking", "context_assembly"}

NewTraces(e) ==
  LET row == IF e.trace \in DOMAIN traces
             THEN [traces[e.trace] EXCEPT !.query = Either(@, e.query)]
             ELSE [project |-> e.project, query |-> e.query]
  IN Upsert(traces, e.trace, row)

NewChunks(e) ==
  IF e.stage \notin ChunkStages THEN {}
  ELSE {[project |-> e.project, hash |-> e.items[i].hash, source |-> e.items[i].source] :
          i \in DOMAIN e.items}

NewHits(e) ==
  IF e.stage \notin {"retrieval", "fusion"} THEN {}
  ELSE {[event |-> e.id, rank |-> i, trace |-> e.trace, project |-> e.project,
         hash |-> e.items[i].hash] : i \in DOMAIN e.items}

(* Mutant: a chunk is registered where it is first seen. *)
IngestFirstSeen(e) ==
  /\ events' = events \cup {e}
  /\ traces' = NewTraces(e)
  /\ chunks' = chunks \cup {c \in NewChunks(e) : \A d \in chunks : d.hash # c.hash}
  /\ hits' = hits \cup NewHits(e)

(* ingest_events with one event *)
Ingest(e) ==
  /\ events' = events \cup {e}
  /\ traces' = NewTraces(e)
  /\ chunks' = chunks \cup NewChunks(e)
  /\ hits' = hits \cup NewHits(e)

PipelineLogs(e) ==
  /\ \A f \in events : f.id # e.id
  /\ Ingest(e)
  /\ UNCHANGED <<truth, scores, req, now>>

SetGroundTruth(g) ==
  /\ truth' = Upsert(truth, g.trace, [project |-> g.project, relevant |-> g.relevant])
  /\ UNCHANGED <<events, traces, chunks, hits, scores, req, now>>

------------------------------------------------------------------------------
(* The queries of the store. *)

(* Mutant: the latest event comes first. *)
ByStartDescending(E) ==
  [i \in 1..Cardinality(E) |-> CHOOSE e \in E : Cardinality({f \in E : f.start > e.start}) = i - 1]

(* ORDER BY start_time; no two events start together. *)
ByStart(E) ==
  [i \in 1..Cardinality(E) |-> CHOOSE e \in E : Cardinality({f \in E : f.start < e.start}) = i - 1]

EventsOf(tr) == {e \in events : e.trace = tr}
TracesOf(p)  == {tr \in DOMAIN traces : traces[tr].project = p}
SumCost(E)   == SumFunction([e \in E |-> e.cost])

(* get_trace; the handlers refuse a trace that is not there. *)
GetTrace(tr) == [row |-> traces[tr], events |-> ByStart(EventsOf(tr))]

(* list_traces *)
ListTraces(p) ==
  [tr \in TracesOf(p) |->
     [cost   |-> SumCost({e \in EventsOf(tr) : e.stage = "generation"}),
      chunks |-> Cardinality({h \in hits : h.trace = tr})]]

(* list_projects *)
ProjectCost(p) ==
  SumCost({e \in events : e.project = p /\ e.stage \in {"generation", "embedding"}})

(* cost_summary, list_generations *)
Generations(p) == {e \in events : e.project = p /\ e.stage = "generation"}

CostSummary(p) ==
  [total    |-> SumCost(Generations(p)),
   by_model |-> [m \in {e.model : e \in Generations(p)} |->
                   SumCost({e \in Generations(p) : e.model = m})],
   by_day   |-> [d \in {e.day : e \in Generations(p)} |->
                   SumCost({e \in Generations(p) : e.day = d})]]

(* chunk_views *)
ChunksOf(p)      == {c \in chunks : c.project = p}
Copies(p, hash)  == {c \in ChunksOf(p) : c.hash = hash}
HitsOf(p, hash)  == {h \in hits : h.project = p /\ h.hash = hash}

(* Every copy of a chunk joins with every hit of it. *)
TopView(p) ==
  {[hash |-> c.hash, retrievals |-> Cardinality(Copies(p, c.hash) \X HitsOf(p, c.hash))] :
     c \in {d \in ChunksOf(p) : HitsOf(p, d.hash) # {}}}

(* Mutant: a hit in any project counts. *)
UnusedAnywhere(p) == {c \in ChunksOf(p) : \A h \in hits : h.hash # c.hash}

UnusedView(p) == {c \in ChunksOf(p) : HitsOf(p, c.hash) = {}}

DuplicatesView(p) ==
  {[hash |-> c.hash, copies |-> Cardinality(Copies(p, c.hash)),
    retrievals |-> Cardinality(HitsOf(p, c.hash))] :
     c \in {d \in ChunksOf(p) : Cardinality(Copies(p, d.hash)) > 1}}

(* get_generation_context *)
Add(ctx, e) ==
  CASE e.stage = "context_assembly" ->
         [prompt |-> Either(e.prompt, ctx.prompt), system |-> Either(e.system, ctx.system)]
    [] e.stage = "generation" -> [ctx EXCEPT !.prompt = Either(@, e.prompt)]
    [] OTHER -> ctx

GenerationContext(E) == FoldLeft(Add, [prompt |-> NoText, system |-> NoText], ByStart(E))

(* traces_with_ground_truth *)
Hashes(items) == [i \in DOMAIN items |-> items[i].hash]

Ranking(tr) ==
  LET of(stage) == {e \in EventsOf(tr) : e.stage = stage}
      from == IF of("reranking") # {} THEN of("reranking") ELSE of("retrieval")
  IN Hashes(Last(ByStart(from)).items)

TracesWithGroundTruth(p) ==
  LET judged == {tr \in DOMAIN truth :
                   truth[tr].project = p /\ \E e \in EventsOf(tr) : e.stage \in {"reranking", "retrieval"}}
      seq    == Ascending(judged)
  IN [i \in DOMAIN seq |-> [ranked |-> Ranking(seq[i]), relevant |-> truth[seq[i]].relevant]]

(* trace_detail: what it derives from the last event of each stage. *)
LastOf(tr, stage) ==
  LET E == {e \in EventsOf(tr) : e.stage = stage}
  IN IF E = {} THEN [items |-> <<>>, before |-> <<>>] ELSE Last(ByStart(E))

Derived(tr) ==
  [chunk_utilization |-> ChunkUtilization(Hashes(LastOf(tr, "retrieval").items),
                                          Hashes(LastOf(tr, "context_assembly").items)),
   reranker_kendall_tau |-> KendallTau(LastOf(tr, "reranking").before,
                                       Hashes(LastOf(tr, "reranking").items))]

------------------------------------------------------------------------------
(* POST /api/generate *)

Replay(project, trace, prompt, system) ==
  [step |-> "generating", project |-> project, trace |-> trace, prompt |-> prompt,
   system |-> system, start |-> now]

Begins(w, r) ==
  /\ req[w] = Free /\ now < Now0 + MaxRequests
  /\ req' = [req EXCEPT ![w] = r]
  /\ now' = now + 1
  /\ UNCHANGED <<events, traces, chunks, hits, truth, scores>>

(* Mutant: the replay is filed in the project that the request names. *)
ReplayTraceElsewhere(w, tr) ==
  LET ctx == GenerationContext(EventsOf(tr))
      prompt == Either(ctx.prompt, traces[tr].query)
  IN /\ prompt # NoText
     /\ Begins(w, Replay(Default, tr, prompt, ctx.system))

(* A trace is replayed with the context it used; one without is refused. *)
ReplayTrace(w, tr) ==
  LET ctx == GenerationContext(EventsOf(tr))
      prompt == Either(ctx.prompt, traces[tr].query)
  IN /\ prompt # NoText
     /\ Begins(w, Replay(traces[tr].project, tr, prompt, ctx.system))

(* A prompt without a trace makes a trace of its own. *)
GeneratePrompt(w, p) == Begins(w, Replay(p, now, Typed, NoText))

(* The provider answers, at some cost, and the answer is logged. *)
Generated(w) ==
  /\ req[w].step = "generating"
  /\ LET r == req[w] IN
     Ingest([id |-> r.start, trace |-> r.trace, project |-> r.project, stage |-> "generation",
             start |-> r.start, day |-> "later", query |-> NoText, items |-> <<>>,
             before |-> <<>>, prompt |-> r.prompt, system |-> r.system,
             response |-> "replayed", model |-> "replayer", cost |-> 1, replayed |-> TRUE])
  /\ req' = [req EXCEPT ![w] = Free]
  /\ UNCHANGED <<truth, scores, now>>

(* The provider, or the judge, fails and the request with it. *)
ModelFails(w) ==
  /\ req[w].step \in {"generating", "judging"}
  /\ req' = [req EXCEPT ![w] = Free]
  /\ UNCHANGED <<events, traces, chunks, hits, truth, scores, now>>

------------------------------------------------------------------------------
(* POST /api/eval/{trace_id} *)

Answers(evs) == {i \in DOMAIN evs : evs[i].stage = "generation" /\ evs[i].response # NoText}
Lists(evs)   == {i \in DOMAIN evs : evs[i].stage = "context_assembly" /\ evs[i].items # <<>>}

(* Mutant: the last answer is judged. *)
JudgedLastAnswer(evs) ==
  [answer |-> IF Answers(evs) = {} THEN NoText ELSE evs[Max(Answers(evs))].response,
   chunks |-> IF Lists(evs) = {} THEN <<>> ELSE evs[Min(Lists(evs))].items]

(* evaluate_trace takes the first answer and the first context there is. *)
Judged(evs) ==
  [answer |-> IF Answers(evs) = {} THEN NoText ELSE evs[Min(Answers(evs))].response,
   chunks |-> IF Lists(evs) = {} THEN <<>> ELSE evs[Min(Lists(evs))].items]

EvalReads(w, tr) ==
  LET j == Judged(GetTrace(tr).events) IN
    Begins(w, [step |-> "judging", trace |-> tr, answer |-> j.answer,
               faithfulness |-> j.answer # NoText /\ j.chunks # <<>>,
               answer_relevance |-> j.answer # NoText /\ traces[tr].query # NoText])

(* set_eval_score; a metric that had nothing to judge has the score None. *)
SetEvalScore(w, metric) ==
  scores' = Upsert(scores, <<req[w].trace, metric>>,
                   [answer |-> req[w].answer, judged |-> req[w][metric]])

(* Both judges have answered; the scores are stored in two calls. *)
StoreFaithfulness(w) ==
  /\ req[w].step = "judging"
  /\ SetEvalScore(w, "faithfulness")
  /\ req' = [req EXCEPT ![w].step = "storing"]
  /\ UNCHANGED <<events, traces, chunks, hits, truth, now>>

StoreRelevance(w) ==
  /\ req[w].step = "storing"
  /\ SetEvalScore(w, "answer_relevance")
  /\ req' = [req EXCEPT ![w] = Free]
  /\ UNCHANGED <<events, traces, chunks, hits, truth, now>>

------------------------------------------------------------------------------

WorkerStep(w) ==
  \/ \E tr \in DOMAIN traces : ReplayTrace(w, tr) \/ EvalReads(w, tr)
  \/ \E p \in Project : GeneratePrompt(w, p)
  \/ Generated(w) \/ ModelFails(w) \/ StoreFaithfulness(w) \/ StoreRelevance(w)

Next ==
  \/ \E e \in PipelineEvent : PipelineLogs(e)
  \/ \E g \in GroundTruth : SetGroundTruth(g)
  \/ \E w \in Worker : WorkerStep(w)

Spec == Init /\ [][Next]_vars

------------------------------------------------------------------------------

TypeOK ==
  /\ events \subseteq PipelineEvent \cup {e \in events : e.replayed}
  /\ \A e \in events : e.project \in Project /\ e.trace \in DOMAIN traces
  /\ \A tr \in DOMAIN traces : traces[tr].project \in Project
  /\ \A h \in hits : h.trace \in DOMAIN traces
  /\ \A h \in hits : \E c \in chunks : c.project = h.project /\ c.hash = h.hash
  /\ \A tr \in DOMAIN truth : truth[tr].project \in Project
  /\ \A s \in DOMAIN scores : s[1] \in DOMAIN traces
  /\ \A w \in Worker : req[w].step \in {"free", "generating", "judging", "storing"}
  /\ now \in Now0..(Now0 + MaxRequests)

(* The cost of a project is the same in all its views: the traces of the   *)
(* list add up to the total of the cost page, replays included, as do its  *)
(* models and its days, and the project list adds the embeddings           *)
(* (db.py:286-290, 308-309, 428-456, api.py:153).                          *)
ViewsAgreeOnCost ==
  \A p \in Project :
    LET total == CostSummary(p).total
        listed == ListTraces(p)
        embedded == SumCost({e \in events : e.project = p /\ e.stage = "embedding"})
    IN /\ total = SumFunction([tr \in DOMAIN listed |-> listed[tr].cost])
       /\ total = SumFunction(CostSummary(p).by_model)
       /\ total = SumFunction(CostSummary(p).by_day)
       /\ ProjectCost(p) = total + embedded

(* Each chunk of a project is in the top view or in the unused view, not   *)
(* in both, and what another project retrieves does not count; a project's *)
(* hits are those that its traces show (db.py:314, 357-399).               *)
ChunkViewsPartition ==
  \A p \in Project :
    LET top    == {row.hash : row \in TopView(p)}
        unused == {c.hash : c \in UnusedView(p)}
    IN /\ top \cap unused = {}
       /\ top \cup unused = {c.hash : c \in ChunksOf(p)}
       /\ \A row \in DuplicatesView(p) : row.hash \in unused <=> row.retrievals = 0
       /\ SumFunction([hash \in top |-> Cardinality(HitsOf(p, hash))])
            = SumFunction([tr \in TracesOf(p) |-> ListTraces(p)[tr].chunks])

(* Replays do not feed back: the prompt and the system prompt that a trace *)
(* is replayed with are those its pipeline logged, however many replays    *)
(* were stored before and however late the pipeline's events arrived; only *)
(* if the pipeline logged none is it the query (db.py:503-521).            *)
ReplaysKeepContext ==
  \A tr \in {t \in DOMAIN traces : t < Now0} :
    LET all == GenerationContext(EventsOf(tr))
        own == GenerationContext({e \in EventsOf(tr) : ~e.replayed})
    IN /\ all.system = own.system
       /\ IF own.prompt # NoText THEN all.prompt = own.prompt
          ELSE all.prompt \in {NoText, traces[tr].query}

(* Whatever was replayed before the evaluation, and in whatever order the  *)
(* events arrived, an evaluation judges the answer of the pipeline if it   *)
(* stored one, and a score in the store is of an answer of its trace       *)
(* (eval.py:166-173, api.py:218-222).                                      *)
JudgesPipelineAnswer ==
  \A tr \in DOMAIN traces :
    LET own == {e.response : e \in {f \in EventsOf(tr) : f.stage = "generation" /\ ~f.replayed}}
    IN /\ own \ {NoText} # {} => Judged(GetTrace(tr).events).answer \in own
       /\ \A s \in DOMAIN scores : (s[1] = tr /\ scores[s].judged) =>
            \E e \in EventsOf(tr) : e.response = scores[s].answer /\ e.response # NoText

(* The metrics that the dashboard shows say what they are for, of each    *)
(* trace with a ground truth (RankingMeasured), of each reranking          *)
(* (OrderMeasured) and on average, whatever was logged so far and in       *)
(* whatever order it arrived (api.py:69-121, db.py:544-575).               *)
MetricsMeasureRankings ==
  /\ \A p \in Project, k \in 0..3 :
       LET pairs == TracesWithGroundTruth(p)
       IN /\ \A i \in DOMAIN pairs : RankingMeasured(pairs[i], k)
          /\ \A metric \in {"precision", "recall", "mrr", "ndcg"} :
               Within01(Aggregate(pairs, k)[metric])
  /\ \A tr \in DOMAIN traces :
       /\ OrderMeasured(LastOf(tr, "reranking").before, Hashes(LastOf(tr, "reranking").items))
       /\ Within01(Derived(tr).chunk_utilization)
==============================================================================
