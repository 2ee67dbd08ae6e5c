------------------------- MODULE MCSeedTransaction -------------------------
(***************************************************************************)
(* Small instances of SeedTransaction: a course that grows, shrinks, is    *)
(* reordered and brings lessons back, beside one that shares its ids.      *)
(***************************************************************************)
EXTENDS SeedTransaction, TLC

CONSTANTS c1, c2, a, b, d, e

L(slug, needs) == [slug |-> slug, revision |-> 1, needs |-> needs]

MCCatalogs ==
    (c1 :> {<<L(a, {}), L(b, {1}), L(d, {1, 2})>>,
            <<L(d, {}), L(a, {1})>>,
            <<L(e, {})>>,
            <<L(b, {}), L(e, {1}), L(a, {})>>})
      @@ (c2 :> {<<L(a, {}), L(e, {1})>>})
=============================================================================
