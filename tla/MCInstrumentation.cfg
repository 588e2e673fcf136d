SPECIFICATION Spec
CONSTANTS
  main = main
  thread = thread
  chain = chain
  inner = inner
  retriever = retriever
  llm = llm
  NoRun = NoRun
  query = query
  chat1 = chat1
  chat2 = chat2
  Task = {main, thread}
  OnLoop = {main}
  Main = main
  MaxEvents = 4
  MaxManual = 3
  MaxInTurns = 2
  Run = {chain, inner, retriever, llm}
  Handler = {"h1", "h2"}
  KindOf <- MCKindOf
  ParentOf <- MCParentOf
  QueryOf <- MCQueryOf
  HandlerOf <- MCHandlerOf
  Turn = {query, chat1, chat2}
  Chat = {chat1, chat2}
INVARIANTS
  TypeOK
  CurrentIsInnermost
  TracesAreTrees
  QueriesKeepApart
  OneBoundaryPerQuery
  
  AnswerLoggedOnce
PROPERTIES
  LocalDelivers
CHECK_DEADLOCK FALSE
