-------------------------- MODULE LlamaIndexHandler --------------------------
(***************************************************************************)
(* The LlamaIndex event handler and the wrapped postprocessor              *)
(* (adapters/llamaindex.py).                                               *)
(*                                                                         *)
(* register() attaches one handler to the root dispatcher of the process;  *)
(* LlamaIndex (external) calls it in whatever task an event arises, and    *)
(* handle() swallows what it raises.  A turn is one query or one chat      *)
(* exchange; the handler is not told which turn an event belongs to and    *)
(* keeps one _state for all.  Of _state the trace id, gen_logged and       *)
(* stream_deltas are modelled; the start times, model names and texts are  *)
(* data that no step depends on.                                           *)
(***************************************************************************)
EXTENDS Tracing

CONSTANTS Turn,
          Chat,        \* the turns that are chat exchanges; the others are queries
          MaxInTurns   \* bound: events the LlamaIndex program creates

ASSUME TurnData == Chat \subseteq Turn /\ Turn \cap Task = {}
ASSUME TurnBound == MaxInTurns \in Nat /\ MaxInTurns <= MaxEvents

(* new_id() makes ids unique: a trace that a turn began is not one that an *)
(* event began.                                                            *)
ASSUME TurnsApart == Turn \cap (Id \cup {None}) = {}

VARIABLES turn,      \* what became of each turn
          taker,     \* the task of each turn
          mixed,     \* turns that began or went on while another was open
          streamed,  \* turns of which some text was streamed
          st,        \* _state
          rest       \* what a handler call that waits for the store will still do

livars == <<turn, taker, mixed, streamed, st, rest>>

Rest == {"nothing", "query over", "chat over", "generated", "chunking"}

LlamaIndexTypeOK ==
  /\ turn \in [Turn -> {"new", "open", "done"}]
  /\ taker \in [Turn -> Task]
  /\ mixed \in SUBSET Turn
  /\ streamed \in SUBSET Turn
  /\ st \in [trace : Turn \cup Id \cup {None}, gen_logged : BOOLEAN, deltas : BOOLEAN]
  /\ rest \in [Task -> [after : Id \cup {None}, what : Rest]]

Nothing == [after |-> None, what |-> "nothing"]

LlamaIndexInit ==
  /\ turn = [k \in Turn |-> "new"]
  /\ taker = [k \in Turn |-> Main]
  /\ mixed = {}
  /\ streamed = {}
  /\ st = [trace |-> None, gen_logged |-> FALSE, deltas |-> FALSE]
  /\ rest = [t \in Task |-> Nothing]

Ready(t)     == Calm(t) /\ rest[t] = Nothing
Taking(t, k) == Ready(t) /\ turn[k] = "open" /\ taker[k] = t

------------------------------------------------------------------------------

(* _trace: an id is made when there is none, and kept. *)
TraceNow == IF st.trace = None THEN NextId ELSE st.trace

(* What the handler does to _state after an event was logged. *)
Finished(s, what) ==
  CASE what = "query over" -> [s EXCEPT !.trace = None]
    [] what = "chat over"  -> [s EXCEPT !.trace = None, !.deltas = FALSE]
    [] what = "generated"  -> [s EXCEPT !.gen_logged = TRUE]
    [] OTHER -> s

(* The handler logs an event; it goes on at once when the task is on the   *)
(* event loop, and after the write when it is a thread.                    *)
LogInTurn(t, by, stage, what) ==
  /\ Len(ev) < MaxInTurns
  /\ ev' = Append(ev, [trace |-> TraceNow, parent |-> None, by |-> by,
                       stage |-> stage, status |-> "ok"])
  /\ Submit(t, NextId, TRUE)
  /\ LET s == [st EXCEPT !.trace = TraceNow] IN
     IF t \in OnLoop
     THEN st' = Finished(s, what) /\ UNCHANGED rest
     ELSE st' = s /\ rest' = [rest EXCEPT ![t] = [after |-> NextId, what |-> what]]
  /\ UNCHANGED <<Context, raising, truth>>

(* The rest of the handler call, which a failed write cuts off. *)
Resume(t) ==
  /\ rest[t] # Nothing /\ ~Busy(t)
  /\ rest[t].what # "chunking"
  /\ st' = IF rest[t].after \in lost THEN st ELSE Finished(st, rest[t].what)
  /\ rest' = [rest EXCEPT ![t] = Nothing]
  /\ UNCHANGED <<tvars, turn, taker, mixed, streamed>>

(* A turn starts in a task, whatever goes on in others, or inside another  *)
(* turn of the task (an agent that queries an index).                      *)
Begins(t, k) ==
  /\ Ready(t) /\ turn[k] = "new"
  /\ LET open == {l \in Turn : turn[l] = "open"}
         closing == \E u \in Task : rest[u].what \in {"query over", "chat over", "generated"}
     IN mixed' = IF open = {} /\ ~closing THEN mixed ELSE mixed \cup {k} \cup open
  /\ turn' = [turn EXCEPT ![k] = "open"]
  /\ taker' = [taker EXCEPT ![k] = t]

(* Mutant: a turn starts with the flag of the last one. *)
TurnStartKeepsFlag(t, k) ==
  /\ Begins(t, k)
  /\ st' = [st EXCEPT !.trace = k, !.deltas = IF k \in Chat THEN FALSE ELSE @]
  /\ UNCHANGED <<tvars, streamed, rest>>

(* Mutant: a turn starts with a new trace id only if there is none. *)
TurnStartKeepsTrace(t, k) ==
  /\ Begins(t, k)
  /\ st' = [trace |-> IF st.trace = None THEN k ELSE st.trace, gen_logged |-> FALSE,
            deltas |-> IF k \in Chat THEN FALSE ELSE st.deltas]
  /\ UNCHANGED <<tvars, streamed, rest>>

(* QueryStartEvent, StreamChatStartEvent, AgentChatWithStepStartEvent *)
TurnStart(t, k) ==
  /\ Begins(t, k)
  /\ st' = [trace |-> k, gen_logged |-> FALSE,
            deltas |-> IF k \in Chat THEN FALSE ELSE st.deltas]
  /\ UNCHANGED <<tvars, streamed, rest>>

(* StreamChatDeltaReceivedEvent *)
Delta(t, k) ==
  /\ Taking(t, k) /\ k \in Chat
  /\ st' = [st EXCEPT !.deltas = TRUE]
  /\ streamed' = streamed \cup {k}
  /\ UNCHANGED <<tvars, turn, taker, mixed, rest>>

(* RetrievalEndEvent, ReRankEndEvent, GetResponseStartEvent, and the       *)
(* EmbeddingEndEvent of the question.                                      *)
StageEnd(t, k) ==
  /\ Taking(t, k)
  /\ LogInTurn(t, k, "stage", "nothing")
  /\ UNCHANGED <<turn, taker, mixed, streamed>>

(* LLMChatEndEvent, LLMCompletionEndEvent *)
LlmEnd(t, k) ==
  /\ Taking(t, k)
  /\ LogInTurn(t, k, "generation", "generated")
  /\ UNCHANGED <<turn, taker, mixed, streamed>>

(* QueryEndEvent *)
QueryEnd(t, k) ==
  /\ Taking(t, k) /\ k \notin Chat
  /\ turn' = [turn EXCEPT ![k] = "done"]
  /\ LogInTurn(t, k, "boundary", "query over")
  /\ UNCHANGED <<taker, mixed, streamed>>

(* StreamChatEndEvent, AgentChatWithStepEndEvent: the answer is logged as  *)
(* a generation unless a model event did so; without deltas it may be in   *)
(* the event, or there is none.                                            *)
ChatEnd(t, k) ==
  /\ Taking(t, k) /\ k \in Chat
  /\ turn' = [turn EXCEPT ![k] = "done"]
  /\ \/ ~st.gen_logged /\ LogInTurn(t, k, "answer", "chat over")
     \/ /\ st.gen_logged \/ ~st.deltas
        /\ st' = Finished(st, "chat over")
        /\ UNCHANGED <<tvars, rest>>
  /\ UNCHANGED <<taker, mixed, streamed>>

IngestEvent(stage) == [trace |-> TraceNow, parent |-> None, by |-> "ingest",
                       stage |-> stage, status |-> "ok"]

(* EmbeddingEndEvent of a batch, outside of turns: an embedding event and  *)
(* a chunking event.                                                       *)
IngestEnd(t) ==
  /\ Ready(t)
  /\ IF t \in OnLoop
     THEN /\ NextId < MaxInTurns
          /\ ev' = ev \o <<IngestEvent("embedding"), IngestEvent("chunking")>>
          /\ pending' = pending \cup {NextId, NextId + 1}
          /\ st' = [st EXCEPT !.trace = TraceNow]
          /\ UNCHANGED <<Context, raising, truth, Call, ledger, lost, rest>>
     ELSE LogInTurn(t, "ingest", "embedding", "chunking")
  /\ UNCHANGED <<turn, taker, mixed, streamed>>

(* In a thread the second is logged only if the first did not raise. *)
IngestRest(t) ==
  /\ rest[t].what = "chunking" /\ ~Busy(t)
  /\ IF rest[t].after \in lost
     THEN UNCHANGED <<tvars, st>>
     ELSE /\ Len(ev) < MaxInTurns
          /\ ev' = Append(ev, IngestEvent("chunking"))
          /\ Submit(t, NextId, TRUE)
          /\ st' = [st EXCEPT !.trace = TraceNow]
          /\ UNCHANGED <<Context, raising, truth>>
  /\ rest' = [rest EXCEPT ![t] = Nothing]
  /\ UNCHANGED <<turn, taker, mixed, streamed>>

(* A wrapped postprocessor joins the handler's trace without making one. *)
Postprocess(t, k) ==
  /\ Taking(t, k) /\ Len(ev) < MaxInTurns
  /\ ev' = Append(ev, [trace |-> TraceNow, parent |-> None, by |-> k,
                       stage |-> "stage", status |-> "ok"])
  /\ Submit(t, NextId, TRUE)
  /\ UNCHANGED <<Context, raising, truth, livars>>

LlamaIndexStep(t) ==
  \/ \E k \in Turn : \/ TurnStart(t, k) \/ Delta(t, k) \/ StageEnd(t, k) \/ LlmEnd(t, k)
                     \/ QueryEnd(t, k) \/ ChatEnd(t, k) \/ Postprocess(t, k)
  \/ Resume(t) \/ IngestEnd(t) \/ IngestRest(t)

------------------------------------------------------------------------------

OfTurn(k, stages) == {i \in DOMAIN ev : ev[i].by = k /\ ev[i].stage \in stages}

(* A turn that no other overlaps or nests in is one trace of its own,      *)
(* whatever turns were mixed up before or after it, whatever was lost and  *)
(* whatever ingestion ran meanwhile: what another turn left in the one     *)
(* _state does not reach it (llamaindex.py:191-211).              *)
TurnsKeepApart ==
  \A k \in Turn \ mixed : \A i \in DOMAIN ev :
    /\ ev[i].by = k => ev[i].trace = k
    /\ ev[i].trace = k => ev[i].by \in {k, "ingest"}

(* A chat that no other turn overlaps has its answer logged once: not at   *)
(* its end if a model event logged it, and not lost if text was streamed   *)
(* (llamaindex.py:212-230, 298-326).                                       *)
AnswerLoggedOnce ==
  \A k \in Chat \ mixed :
    /\ OfTurn(k, {"answer"}) # {} => OfTurn(k, {"generation"}) \subseteq lost
    /\ (k \in streamed /\ turn[k] = "done") => OfTurn(k, {"answer", "generation"}) # {}
==============================================================================
