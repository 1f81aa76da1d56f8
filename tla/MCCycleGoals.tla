---------------------------- MODULE MCCycleGoals ----------------------------
(* Two initiatives of one executor team and two goals; the second initiative *)
(* may be a service card of the first.                                       *)
EXTENDS CycleGoals, TLC

CONSTANTS a, b, t

MCExecutor == [i \in Initiatives |-> t]

Sent(planned, board, text) == [pre_planned |-> planned, on_board |-> board, text |-> text]

(* One initiative alone, published unplanned, and both, one off the boards. *)
MCSnapshots ==
    {b :> Sent(FALSE, TRUE, NoText),
     (a :> Sent(TRUE, FALSE, NoText)) @@ (b :> Sent(TRUE, TRUE, NoText))}

(* Goals are told apart by what they hold alone. *)
MCSymmetry == Permutations(GoalIds)
=============================================================================
