----------------------------- MODULE MCPriceBook -----------------------------
(***************************************************************************)
(* Two threads, a refresher of the process and one outside, a memo of one  *)
(* answer.  One model is a dated snapshot whose name begins with two keys, *)
(* the other is itself a key.  In the first feed a provider's model comes  *)
(* before the model of that very name, and the built-in book is exact for  *)
(* what the second feed only has under a shorter name.                     *)
(***************************************************************************)
EXTENDS PriceBook

MCOccurs ==
  [m \in Model |-> IF m = "4o-mini-07" THEN {"4o", "4o-mini", "mini"} ELSE {m, "4o"}]
MCLength == [k \in Key |-> CASE k = "4o" -> 2 [] k = "mini" -> 4 [] k = "4o-mini" -> 7
                             [] k = "x/4o" -> 4]
Of(k, b, u, p) == [key |-> k, bare |-> b, usable |-> u, price |-> p]
MCRaw == {<<Of("x/4o", "4o", TRUE, "p1"), Of("4o", "4o", TRUE, "p2"),
            Of("4o-mini", "4o-mini", TRUE, "p3"), Of("mini", "mini", FALSE, "p4")>>,
          <<Of("x/4o", "4o", TRUE, "p5"), Of("mini", "mini", TRUE, "p6"), 
            Of("4o", "4o", FALSE, "p4")>>,
          <<Of("4o", "4o", FALSE, "p4")>>}
MCBuiltIn == <<[key |-> "4o", price |-> "b1"], [key |-> "4o-mini", price |-> "b2"]>>
==============================================================================
