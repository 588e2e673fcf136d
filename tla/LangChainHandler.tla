--------------------------- MODULE LangChainHandler ---------------------------
(***************************************************************************)
(* The LangChain callback handler and its wrapped reranker                 *)
(* (adapters/langchain.py).                                                *)
(*                                                                         *)
(* LangChain (external) calls the handler at the start and the end of each *)
(* run; it logs what a callback raises and goes on, and when the run is    *)
(* asynchronous it awaits the callback in an executor thread.  A query is  *)
(* a run without parent together with its descendants.  The handler keeps  *)
(* its own trace id: the context variable of tracing.py plays no part.     *)
(***************************************************************************)
EXTENDS Tracing

CONSTANTS Run,
          NoRun,
          Handler,
          KindOf,       \* [Run -> {"chain", "retriever", "llm"}]
          ParentOf,     \* [Run -> Run \cup {NoRun}]
          QueryOf,      \* [Run -> Run], the run's outermost ancestor
          HandlerOf     \* [Run -> Handler]; a run's children inherit it

ASSUME RunData ==
  /\ KindOf \in [Run -> {"chain", "retriever", "llm"}]
  /\ ParentOf \in [Run -> Run \cup {NoRun}]
  /\ \A r \in Run :
       IF ParentOf[r] = NoRun THEN QueryOf[r] = r
       ELSE /\ QueryOf[r] = QueryOf[ParentOf[r]]
            /\ HandlerOf[r] = HandlerOf[ParentOf[r]]
  /\ HandlerOf \in [Run -> Handler]
ASSUME RunsApart == NoRun \notin Run /\ Run \cap Task = {}

(* A fresh handler for each query, as GUIDE.md asks. *)
ASSUME FreshHandlers ==
  \A q, r \in Run : HandlerOf[q] = HandlerOf[r] => QueryOf[q] = QueryOf[r]

VARIABLES state,      \* what became of each run
          runner,     \* the task each run was started in
          rootRun,    \* _root_run
          traceId,    \* _trace_id: the run that made the id, or NoRun for None
          starts,     \* the runs in _starts (and _queries, which is kept alike)
          closing     \* the boundary event whose callback has not ended, or None

lcvars == <<state, runner, rootRun, traceId, starts, closing>>

LangChainTypeOK ==
  /\ state \in [Run -> {"new", "open", "ended", "failed"}]
  /\ runner \in [Run -> Task]
  /\ rootRun \in [Handler -> Run \cup {NoRun}]
  /\ traceId \in [Handler -> Run \cup {NoRun}]
  /\ starts \in [Handler -> SUBSET Run]
  /\ closing \in [Task -> Id \cup {None}]

LangChainInit ==
  /\ state = [r \in Run |-> "new"]
  /\ runner = [r \in Run |-> Main]
  /\ rootRun = [h \in Handler |-> NoRun]
  /\ traceId = [h \in Handler |-> NoRun]
  /\ starts = [h \in Handler |-> {}]
  /\ closing = [t \in Task |-> None]

------------------------------------------------------------------------------
(* LangChain. *)

Outcome(how) == IF how = "ended" THEN "ok" ELSE "error"

(* A run starts in a task, inside its parent; what else is open in the     *)
(* task waits for a run of its own.                                        *)
Starts(t, r) ==
  /\ Calm(t) /\ closing[t] = None
  /\ state[r] = "new"
  /\ \A o \in Run : (state[o] = "open" /\ runner[o] = t) =>
       o = ParentOf[r] \/ \E c \in Run : ParentOf[c] = o /\ state[c] = "open"
  /\ ParentOf[r] # NoRun => state[ParentOf[r]] = "open"
  /\ state' = [state EXCEPT ![r] = "open"]
  /\ runner' = [runner EXCEPT ![r] = t]

(* A run ends, or fails, in its task, after its descendants. *)
Ends(t, r, how) ==
  /\ Calm(t) /\ closing[t] = None
  /\ state[r] = "open" /\ runner[r] = t
  /\ \A c \in Run : ParentOf[c] = r => state[c] # "open"
  /\ state' = [state EXCEPT ![r] = how]
  /\ UNCHANGED runner

------------------------------------------------------------------------------
(* The handler. *)

(* Mutant: the handlers share a trace id that was made once. *)
EnsureSharedTrace(h, r) ==
  IF \A g \in Handler : traceId[g] = NoRun THEN r
  ELSE traceId[CHOOSE g \in Handler : traceId[g] # NoRun]

(* Mutant: the trace id is used as it is. *)
NoEnsureTrace(h, r) == traceId[h]

(* _ensure_trace *)
EnsureTrace(h, r) == IF traceId[h] = NoRun THEN r ELSE traceId[h]

(* A callback logs one event.  Its task waits for the write, in the thread *)
(* itself or because LangChain runs callbacks of an asynchronous run in an *)
(* executor thread, unless a synchronous run was started on the event loop.*)
LogFor(t, r, stage, status, trace, inline) ==
  /\ Len(ev) < MaxEvents
  /\ inline \/ t \in OnLoop
  /\ ev' = Append(ev, [trace |-> trace, parent |-> None, by |-> r,
                       stage |-> stage, status |-> status])
  /\ IF inline THEN SubmitInline(t, NextId, TRUE) ELSE Submit(t, NextId, TRUE)
  /\ UNCHANGED <<Context, raising, truth>>

(* on_chain_start: the outermost chain begins a trace. *)
ChainStart(t, r) ==
  /\ KindOf[r] = "chain" /\ Starts(t, r)
  /\ LET h == HandlerOf[r] IN
     IF ParentOf[r] = NoRun /\ rootRun[h] = NoRun
     THEN /\ rootRun' = [rootRun EXCEPT ![h] = r]
          /\ traceId' = [traceId EXCEPT ![h] = r]
     ELSE UNCHANGED <<rootRun, traceId>>
  /\ UNCHANGED <<tvars, starts, closing>>

(* The boundary is logged; if that raises, the rest of the callback is cut *)
(* off and the chain stays the root run.                                   *)
LogBoundary(t, r, how) ==
  LET h == HandlerOf[r] IN
    \/ /\ LogFor(t, r, "boundary", Outcome(how), traceId[h], TRUE)
       /\ closing' = [closing EXCEPT ![t] = NextId]
       /\ UNCHANGED <<rootRun, traceId, starts>>
    \/ /\ LogFor(t, r, "boundary", Outcome(how), traceId[h], FALSE)
       /\ rootRun' = [rootRun EXCEPT ![h] = NoRun]
       /\ UNCHANGED <<traceId, starts, closing>>

(* Mutant: a chain logs a boundary whatever its depth. *)
ChainStopAnyDepth(t, r, how) ==
  /\ KindOf[r] = "chain" /\ Ends(t, r, how)
  /\ LogBoundary(t, r, how)

(* on_chain_end, on_chain_error: the outermost chain logs the boundary. *)
ChainStop(t, r, how) ==
  /\ KindOf[r] = "chain" /\ Ends(t, r, how)
  /\ IF rootRun[HandlerOf[r]] = r
     THEN LogBoundary(t, r, how)
     ELSE UNCHANGED <<tvars, rootRun, traceId, starts, closing>>

(* The rest of the callback that waited. *)
ChainClosed(t) ==
  /\ closing[t] # None /\ ~Busy(t)
  /\ closing' = [closing EXCEPT ![t] = None]
  /\ rootRun' = IF closing[t] \in lost THEN rootRun
                ELSE [rootRun EXCEPT ![HandlerOf[ev[closing[t]].by]] = NoRun]
  /\ UNCHANGED <<tvars, state, runner, traceId, starts>>

(* on_retriever_start *)
RetrieverStart(t, r) ==
  /\ KindOf[r] = "retriever" /\ Starts(t, r)
  /\ starts' = [starts EXCEPT ![HandlerOf[r]] = @ \cup {r}]
  /\ UNCHANGED <<tvars, rootRun, traceId, closing>>

(* on_retriever_end; there is no on_retriever_error. *)
RetrieverEnd(t, r) ==
  /\ KindOf[r] = "retriever" /\ Ends(t, r, "ended")
  /\ LET h == HandlerOf[r] IN
     /\ \E inline \in BOOLEAN : LogFor(t, r, "retrieval", "ok", EnsureTrace(h, r), inline)
     /\ traceId' = [traceId EXCEPT ![h] = EnsureTrace(h, r)]
     /\ starts' = [starts EXCEPT ![h] = @ \ {r}]
  /\ UNCHANGED <<rootRun, closing>>

RetrieverError(t, r) ==
  /\ KindOf[r] = "retriever" /\ Ends(t, r, "failed")
  /\ UNCHANGED <<tvars, rootRun, traceId, starts, closing>>

(* on_llm_start, on_chat_model_start: the prompt is logged as the context. *)
LlmStart(t, r) ==
  /\ KindOf[r] = "llm" /\ Starts(t, r)
  /\ LET h == HandlerOf[r] IN
     /\ \E inline \in BOOLEAN : LogFor(t, r, "context", "ok", EnsureTrace(h, r), inline)
     /\ traceId' = [traceId EXCEPT ![h] = EnsureTrace(h, r)]
     /\ starts' = [starts EXCEPT ![h] = @ \cup {r}]
  /\ UNCHANGED <<rootRun, closing>>

(* on_llm_end, on_llm_error *)
LlmStop(t, r, how) ==
  /\ KindOf[r] = "llm" /\ Ends(t, r, how)
  /\ LET h == HandlerOf[r] IN
     /\ \E inline \in BOOLEAN :
          LogFor(t, r, "generation", Outcome(how), EnsureTrace(h, r), inline)
     /\ traceId' = [traceId EXCEPT ![h] = EnsureTrace(h, r)]
     /\ starts' = [starts EXCEPT ![h] = @ \ {r}]
  /\ UNCHANGED <<rootRun, closing>>

(* A wrapped reranker runs inside a retriever (compress_documents). *)
Compress(t, r) ==
  /\ KindOf[r] = "retriever"
  /\ state[r] = "open" /\ runner[r] = t
  /\ LogStage(t, TRUE)
  /\ UNCHANGED lcvars

------------------------------------------------------------------------------

Callback(t, r) ==
  \/ ChainStart(t, r) \/ RetrieverStart(t, r) \/ LlmStart(t, r)
  \/ RetrieverEnd(t, r) \/ RetrieverError(t, r)
  \/ \E how \in {"ended", "failed"} : ChainStop(t, r, how) \/ LlmStop(t, r, how)

LangChainStep(t) ==
  \/ \E r \in Run : Callback(t, r) \/ Compress(t, r)
  \/ ChainClosed(t)

------------------------------------------------------------------------------

FromRun(i) == ev[i].by \in Run

(* The events that the handler logs are grouped as the queries are, one    *)
(* trace for each query, although queries overlap, chains nest, runs fail  *)
(* and writes fail (langchain.py:92-131).                                  *)
QueriesKeepApart ==
  \A i, j \in DOMAIN ev : FromRun(i) /\ FromRun(j) =>
    ((ev[i].trace = ev[j].trace) <=> (QueryOf[ev[i].by] = QueryOf[ev[j].by]))

(* A query that is a chain logs one boundary, with the status of the chain *)
(* whatever became of its parts, and nothing but a query logs one          *)
(* (langchain.py:105-125).                                                 *)
OneBoundaryPerQuery ==
  \A r \in Run : KindOf[r] = "chain" =>
    LET boundary == {i \in DOMAIN ev : ev[i].by = r /\ ev[i].stage = "boundary"} IN
      IF QueryOf[r] = r /\ state[r] \in {"ended", "failed"}
      THEN \E i \in Id : boundary = {i} /\ ev[i].status = IF state[r] = "ended"
                                                         THEN "ok" ELSE "error"
      ELSE boundary = {}
==============================================================================
