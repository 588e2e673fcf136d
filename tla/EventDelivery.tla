---------------------------- MODULE EventDelivery ----------------------------
(***************************************************************************)
(* What a logging client promises, whatever the transport: an event that   *)
(* was logged is pending until it is either handed to the store as part of *)
(* one batch, or lost; it is never handed over twice and a lost event      *)
(* never comes back.  The promise is "at most once", not "exactly once":   *)
(* client.py swallows every transport failure and never retries.           *)
(***************************************************************************)
EXTENDS Naturals, Sequences

CONSTANT Event          \* everything that may ever be logged

VARIABLES pending,      \* logged, neither delivered nor lost
          ledger,       \* the batches the store took, in the order it took them
          lost          \* logged, and never to be delivered

dvars == <<pending, ledger, lost>>

Delivered == UNION {ledger[i] : i \in DOMAIN ledger}

DInit == pending = {} /\ ledger = <<>> /\ lost = {}

Log(B) ==
  /\ B \cap (pending \cup lost \cup Delivered) = {}
  /\ pending' = pending \cup B
  /\ UNCHANGED <<ledger, lost>>

Deliver(B) ==
  /\ B \subseteq pending
  /\ ledger' = Append(ledger, B)
  /\ pending' = pending \ B
  /\ UNCHANGED lost

Lose(B) ==
  /\ B \subseteq pending
  /\ lost' = lost \cup B
  /\ pending' = pending \ B
  /\ UNCHANGED ledger

DNext == \E B \in SUBSET Event : Log(B) \/ Deliver(B) \/ Lose(B)

DSpec == DInit /\ [][DNext]_dvars
==============================================================================
