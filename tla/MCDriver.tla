------------------------------ MODULE MCDriver ------------------------------
(***************************************************************************)
(* Two ranks, with one worker or two: every way through main, over both kinds   *)
(* of decomposition.                                                        *)
(***************************************************************************)
EXTENDS Driver

Mode(m, c) == [mode |-> m, cart |-> c, threads |-> 1, check |-> FALSE,
               timed |-> FALSE, reps |-> 0]
Run(c, t, k, timed, n) == [mode |-> "run", cart |-> c, threads |-> t, check |-> k,
                           timed |-> timed, reps |-> n]

MCSetups ==
    {Mode(m, c) : m \in {"config", "refused", "print"}, c \in BOOLEAN}
      \union {Run(TRUE, 2, FALSE, FALSE, 1), Run(FALSE, 2, TRUE, TRUE, 2),
              Run(TRUE, 1, TRUE, TRUE, 2), Run(FALSE, 1, TRUE, FALSE, 1)}
=============================================================================
