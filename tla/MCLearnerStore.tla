--------------------------- MODULE MCLearnerStore ---------------------------
(***************************************************************************)
(* Small instances of LearnerStore.  The catalogs of c1 reorder, retire,   *)
(* reintroduce, insert and revise lessons; c2 shares a slug with c1 and    *)
(* takes ids from the same sequence.                                       *)
(***************************************************************************)
EXTENDS LearnerStore, TLC

CONSTANTS c1, c2, a, b, d, p1, p2

L(slug, revision, needs) == [slug |-> slug, revision |-> revision, needs |-> needs]

MCCatalogs ==
    (c1 :> {<<L(a, 1, {}), L(b, 1, {1})>>,               \* first release
            <<L(b, 2, {}), L(d, 1, {1}), L(a, 1, {1})>>,  \* reordered, b revised
            <<L(d, 1, {})>>})                             \* a and b retired
      @@ (c2 :> {<<L(a, 1, {})>>})

(* One release to and fro between two catalogs: a retires and returns, b   *)
(* moves up and is revised, d is inserted.                                 *)
RaceCatalogs ==
    (c1 :> {<<L(a, 1, {}), L(b, 1, {1})>>, <<L(b, 2, {}), L(d, 1, {1})>>})
      @@ (c2 :> {<<L(a, 1, {})>>})

(* A legacy database of c1 whose ids do not follow its ordinals: it was    *)
(* reordered once and has a retired lesson.                                *)
Row(c, s, n, live) ==
    [course |-> c, slug |-> s, ordinal |-> n, revision |-> 1, active |-> live]
Legacy1 ==
    [lessons  |-> <<Row(c1, b, 2, TRUE), Row(c1, d, 3, FALSE), Row(c1, a, 1, TRUE)>>,
     prereqs  |-> {<<1, 3>>},
     progress |-> (1 :> [status |-> "done", completed |-> 1, notes |-> ""]),
     attempts |-> (1 :> [lesson |-> 1, revision |-> 1])]
MCLegacy == (c1 :> {Legacy1}) @@ (c2 :> {})

Symmetry == Permutations(Clients)
=============================================================================
