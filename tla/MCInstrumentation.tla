-------------------------- MODULE MCInstrumentation --------------------------
(* The program's main task runs on the event loop; thread is a plain        *)
(* thread.  One LangChain query is a chain with a chain inside that has a   *)
(* retriever, another is a model that is called without a chain.  Of the    *)
(* LlamaIndex turns one is a query and two are chats.                       *)
EXTENDS Instrumentation, TLC

CONSTANTS main, thread, chain, inner, retriever, llm, query, chat1, chat2

MCKindOf    == (chain :> "chain") @@ (inner :> "chain") @@ (retriever :> "retriever")
                 @@ (llm :> "llm")
MCParentOf  == (chain :> NoRun) @@ (inner :> chain) @@ (retriever :> inner) @@ (llm :> NoRun)
MCQueryOf   == [r \in Run |-> IF r = llm THEN llm ELSE chain]
MCHandlerOf == [r \in Run |-> IF r = llm THEN "h2" ELSE "h1"]
==============================================================================
