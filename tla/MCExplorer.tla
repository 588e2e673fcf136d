------------------------------ MODULE MCExplorer ------------------------------
(* Project p ingests documents in trace 3 and answers a question in trace   *)
(* 1, whose reranking may come out in two ways; project q retrieves a chunk *)
(* of the same name in trace 2, where the model gives no answer.            *)
EXTENDS Explorer

CONSTANTS w1, w2

MCSymmetry == Permutations(Worker)

MCGain == <<1000, 631, 500, 431>>

At(hash, source) == [hash |-> hash, source |-> source]
List(hashes) == [i \in DOMAIN hashes |-> At(hashes[i], "")]

Blank == [id |-> 0, trace |-> 0, project |-> "p", stage |-> "", start |-> 0, day |-> "d1",
          query |-> NoText, items |-> <<>>, before |-> <<>>, prompt |-> NoText,
          system |-> NoText, response |-> NoText, model |-> "m1", cost |-> 0,
          replayed |-> FALSE]

Event(n, tr, p, s) ==
  [Blank EXCEPT !.id = n, !.start = n, !.trace = tr, !.project = p, !.stage = s]

Rerankings == {<<"c", "b", "a">>, <<"a", "c">>}

MCPipelineEvent ==
  { [Event(1, 3, "p", "chunking") EXCEPT
       !.items = <<At("a", "doc1"), At("d", "doc1"), At("d", "doc2")>>],
    [Event(2, 3, "p", "embedding") EXCEPT !.cost = 5],
    [Event(3, 1, "p", "retrieval") EXCEPT
       !.query = "query", !.items = List(<<"a", "b", "c">>)],
    [Event(4, 1, "p", "fusion") EXCEPT !.items = List(<<"b", "c">>)],
    [Event(6, 1, "p", "context_assembly") EXCEPT
       !.items = List(<<"a">>), !.prompt = "prompt", !.system = "system"],
    [Event(7, 1, "p", "generation") EXCEPT
       !.prompt = "question", !.response = "answer", !.cost = 3, !.day = "d2"],
    [Event(8, 2, "q", "retrieval") EXCEPT !.query = "query", !.items = List(<<"d">>)],
    [Event(9, 2, "q", "generation") EXCEPT !.prompt = "question", !.cost = 2] }
  \cup {[Event(5, 1, "p", "reranking") EXCEPT
           !.before = <<"a", "b", "c">>, !.items = List(r)] : r \in Rerankings}

MCGroundTruth ==
  {[trace |-> 1, project |-> "p", relevant |-> {"a", "c"}]}
==============================================================================
