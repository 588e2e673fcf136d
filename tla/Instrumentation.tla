---------------------------- MODULE Instrumentation ----------------------------
(***************************************************************************)
(* A process that is instrumented by hand (Tracing), by the LangChain      *)
(* handler or by the LlamaIndex handler, over one LocalClient.  GUIDE.md   *)
(* asks to pick one way for a pipeline: "way" is the one picked.           *)
(***************************************************************************)
EXTENDS LangChainHandler, LlamaIndexHandler

ASSUME MakersApart == Run \cap Turn = {} /\ "ingest" \notin Task \cup Run \cup Turn

VARIABLE way

vars == <<tvars, lcvars, livars, way>>

TypeOK ==
  /\ TracingTypeOK
  /\ LangChainTypeOK
  /\ LlamaIndexTypeOK
  /\ way \in {"manual", "langchain", "llamaindex"}
  /\ \A i \in DOMAIN ev : /\ ev[i].trace \in Id \cup Run \cup Turn
                          /\ ev[i].by \in Task \cup Run \cup Turn \cup {"ingest"}

Init ==
  /\ TracingInit
  /\ LangChainInit
  /\ LlamaIndexInit
  /\ way \in {"manual", "langchain", "llamaindex"}

Manual(t) ==
  /\ way = "manual"
  /\ TaskStep(t)
  /\ UNCHANGED <<lcvars, livars>>

(* The adapted program starts its tasks, when no callback is under way. *)
Program(t) ==
  /\ closing[t] = None /\ rest[t] = Nothing
  /\ \E u \in Task : Spawn(t, u)
  /\ UNCHANGED <<lcvars, livars>>

LangChain(t) ==
  /\ way = "langchain"
  /\ \/ LangChainStep(t) /\ UNCHANGED livars
     \/ Program(t)

LlamaIndex(t) ==
  /\ way = "llamaindex"
  /\ \/ LlamaIndexStep(t) /\ UNCHANGED lcvars
     \/ Program(t)

Store ==
  /\ \E i \in Id : StoreStep(i)
  /\ UNCHANGED <<lcvars, livars>>

Next ==
  /\ \/ Store
     \/ \E t \in Task : Manual(t) \/ LangChain(t) \/ LlamaIndex(t)
  /\ UNCHANGED way

Spec == Init /\ [][Next]_vars

------------------------------------------------------------------------------

(* GUIDE.md:455: "Use a FRESH handler per query -> one trace per query":   *)
(* the event of a wrapped reranker is in the trace of its query.           *)
OneTracePerQuery ==
  [][\A t \in Task, r \in Run :
       (Compress(t, r) /\ traceId[HandlerOf[r]] # NoRun) =>
         ev'[NextId].trace = traceId[HandlerOf[r]]]_vars

(* LocalClient is a channel that takes every event once and drops or       *)
(* stores it, whoever made it and whatever the store raises                *)
(* (client.py:28-36).                                                      *)
Delivery == INSTANCE EventDelivery WITH Event <- Id
LocalDelivers == Delivery!DSpec
==============================================================================
