------------------------------ MODULE MCHarness ------------------------------
(***************************************************************************)
(* Small instances of Harness: a step in A that blocks until B's has run,  *)
(* and one more in A; and two steps of A before one of B.                  *)
(***************************************************************************)
EXTENDS Harness

St(s, blocks) == [session |-> s, blocks |-> blocks]

MCLessons ==
    {<<St("A", TRUE), St("B", FALSE), St("A", FALSE)>>,
     <<St("A", FALSE), St("A", FALSE), St("B", FALSE)>>}
MCStatuses == {<<0>>, <<1, 2>>}
==============================================================================
