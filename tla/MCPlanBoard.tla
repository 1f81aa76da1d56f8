---------------------------- MODULE MCPlanBoard ----------------------------
(* Two initiatives, of which b may be a service card, one story and one    *)
(* work item that either may hold, and two arrows.                         *)
EXTENDS PlanBoard, TLC

CONSTANTS a, b, s, w

At(sprint, week) == [sprint |-> sprint, week |-> week]

(* Week 3, the date, is the second week of sprint 1. *)
MCPositions == {At(0, None), At(1, 0)}

(* A sprint and a week that no schedule has. *)
MCPosted == {At(-1, 2)}

MCArrows == {<<a, w>>, <<w, b>>}

Row(on_board, at) == [on_board |-> on_board, at |-> at]

(* None, either, or both. *)
MCPlans ==
    {Empty, a :> Row(TRUE, At(0, None)), b :> Row(FALSE, At(1, 0)),
     a :> Row(TRUE, At(1, 0)) @@ b :> Row(TRUE, At(0, None))}

Board(at, ss, ws) ==
    a :> [on_board |-> TRUE, at |-> at, stories |-> ss, items |-> ws]

Item(story, at, date) == w :> [story |-> story, at |-> at, date |-> date]

(* Nothing left, both children, a dated item without its story, and an item *)
(* later than its initiative.                                               *)
MCBoards ==
    {Board(At(1, 0), Empty, Empty),
     Board(At(1, 0), s :> At(0, None), Item(s, At(1, 0), None)),
     Board(Unplanned, Empty, Item(None, Unplanned, 3)),
     Board(At(0, None), s :> Unplanned, Item(s, At(1, 0), None))}

MCSymmetry == Permutations(ConnectionIds)
=============================================================================
