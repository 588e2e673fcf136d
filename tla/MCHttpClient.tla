---------------------------- MODULE MCHttpClient -----------------------------
(* A small instance of HttpClient: the worker, the main thread and one more *)
(* application thread, batches of two, four events of which the third is    *)
(* not serialisable.                                                        *)
EXTENDS HttpClient

CONSTANTS w, m, a

MCApp == {a}
MCUnserialisable == {3}
==============================================================================
