--------------------------- MODULE MCRecoveryLab ---------------------------
(***************************************************************************)
(* Every lesson with every answer the lab can tell from another.           *)
(***************************************************************************)
EXTENDS RecoveryLab

Answers(n) == CASE n = 27 -> {"full", "coarse", "hang"}
                [] n = 28 -> {"restore", "nothing", "corrupt", "harm", "hang"}
                [] n = 29 -> {"before_bad", "after_bad"}
                [] n = 30 -> {"replica", "plain", "nothing", "starts", "hang"}
                [] n = 31 -> {"resume", "nothing", "hang"}

MCTasks == UNION {[lesson : {n}, answer : Answers(n)] : n \in 27..31}
=============================================================================
