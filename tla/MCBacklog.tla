------------------------------ MODULE MCBacklog ------------------------------
(* Small instances of Backlog for TLC.                                       *)
EXTENDS Backlog, TLC

CONSTANTS c1, c2, t1, t2, tribe

Sent(drafts) == drafts \cup {[d EXCEPT !.sent = TRUE] : d \in drafts}

Plan(period, owner, team) ==
    [tribe |-> tribe, period |-> period, owner |-> owner, team |-> team, sent |-> FALSE]

\* Items planned for two cycles; only one names a team.
TwoCycleDrafts == Sent({Plan(c1, t1, None), Plan(c2, None, None)})

\* Items of one cycle with and without teams.
OneCycleDrafts == Sent({Plan(c1, t1, t1), Plan(c1, None, None)})

\* Items of one team in one cycle.
OneTeamDrafts == Sent({Plan(c1, t1, t1)})

\* Initiatives without teams; of one team, worked on by the other.
NoStaffings == {[owner |-> None, team |-> None]}
OtherStaffings == {[owner |-> t1, team |-> t2]}

Ids == Permutations(Items) \cup Permutations(Initiatives) \cup Permutations(Keys)
=============================================================================
