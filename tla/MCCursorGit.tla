---------------------------- MODULE MCCursorGit ----------------------------
(***************************************************************************)
(* Small instances of CursorGit.  base creates both refs (seed.sh), a and  *)
(* b move one each (candidate.sh), c reuses the operation id of a for      *)
(* another change, d can only follow a.                                    *)
(***************************************************************************)
EXTENDS CursorGit, TLC

CONSTANTS base, a, b, c, d, main, feature, zero, o0, o1, o2, o3,
          opBase, opA, opB, opD, p1, p2, w1, w2, r1, free, stale, none

Move(old, new) == [old |-> old, new |-> new]

MCOperations == (base :> opBase) @@ (a :> opA) @@ (b :> opB) @@ (c :> opA) @@ (d :> opD)
MCUpdates ==
    (base :> (main :> Move(zero, o0) @@ feature :> Move(zero, o0)))
      @@ (a :> (main :> Move(o0, o1)))
      @@ (b :> (feature :> Move(o0, o2)))
      @@ (c :> (main :> Move(o0, o3)))
      @@ (d :> (main :> Move(o1, o2) @@ feature :> Move(o0, o1)))

Symmetry == Permutations(Publishers) \cup Permutations(Workers)
=============================================================================
