---------------------------- MODULE CycleRoster ----------------------------
(***************************************************************************)
(* The teams that take part in one PI cycle, with the competencies of      *)
(* each, and the rows that name a team (app/services/pi_cycle_data.py,     *)
(* cycle_setup.py, capacity.py, risks.py).  No foreign key ties these to   *)
(* the cycle's teams (they name the global team).  Five tables are carried *)
(* along by every command that changes the roster: owners and executors of *)
(* initiatives, people of the capacity, goals and risks, and through the   *)
(* executor the work items.  A sixth is not: an executor's requests for    *)
(* another team (initiative_attractions) keep the team they asked for.     *)
(* A command holds the row lock of the cycle until its commit, so it is    *)
(* one action; a refused one changes nothing.                              *)
(*                                                                         *)
(* A row of the roster is known by its team, which (cycle, team) makes     *)
(* unique.  An initiative has at most one executor, as every command       *)
(* demands, so "the target is an executor already" never arises.           *)
(* Initiatives are some of the cycle's; one that is deleted is one that    *)
(* has lost its owner, its executor and its work items.  Left out: the     *)
(* older list of requests by name (executor.attractions, renamed by        *)
(* _replace_attraction_team), which nothing reads and nothing else writes; *)
(* tribes, events, goal options and tags, efforts, texts, whether an       *)
(* initiative is published and which service card answers a request        *)
(* (PlanBoard, Backlog), and how goals are linked (CycleGoals).            *)
(***************************************************************************)
EXTENDS FiniteSets

CONSTANTS
    Teams, Codes,                             \* global teams and competencies
    CodeSets,                                 \* competencies users give a team
    Initiatives,                              \* some of the cycle's
    MemberIds, WorkItems, GoalIds, RiskIds,   \* bound what exists together
    None                                      \* no team or no assignee

ASSUME CycleRosterAssumption ==
    /\ None \notin Teams \cup MemberIds
    /\ CodeSets \subseteq SUBSET Codes
    /\ \A t \in Teams : <<t>> \notin Teams \cup {None}  \* the temporary teams are new

VARIABLES
    roster,   \* the competencies of each team of the cycle
    refs      \* the rows that name a team, table by table

vars == <<roster, refs>>

Rosters == UNION {[S -> CodeSets] : S \in SUBSET Teams}

Member == [team : Teams, code : Codes]

(* A risk whose scope is not "team" names no team, nor need a goal.  The    *)
(* teams asked for belong to the executor's row and go with it.              *)
TypeOK ==
    /\ DOMAIN roster \subseteq Teams
    /\ roster \in [DOMAIN roster -> CodeSets]
    /\ refs.owner \in [Initiatives -> Teams \cup {None}]
    /\ refs.executor \in [Initiatives -> Teams \cup {None}]
    /\ refs.asked \in [Initiatives -> SUBSET Teams]
    /\ \A i \in Initiatives : refs.executor[i] = None => refs.asked[i] = {}
    /\ DOMAIN refs.members \subseteq MemberIds
    /\ refs.members \in [DOMAIN refs.members -> Member]
    /\ DOMAIN refs.items \subseteq WorkItems
    /\ refs.items \in [DOMAIN refs.items ->
           [of : Initiatives, code : Codes, assignee : DOMAIN refs.members \cup {None}]]
    /\ DOMAIN refs.goals \subseteq GoalIds
    /\ refs.goals \in [DOMAIN refs.goals -> Teams \cup {None}]
    /\ DOMAIN refs.risks \subseteq RiskIds
    /\ refs.risks \in [DOMAIN refs.risks -> Teams \cup {None}]

Empty == [x \in {} |-> x]

Nobody == [i \in Initiatives |-> None]

Init ==
    /\ roster = Empty
    /\ refs = [owner |-> Nobody, executor |-> Nobody,
               asked |-> [i \in Initiatives |-> {}], members |-> Empty,
               items |-> Empty, goals |-> Empty, risks |-> Empty]

-----------------------------------------------------------------------------
With(f, x, v) == [y \in DOMAIN f \cup {x} |-> IF y = x THEN v ELSE f[y]]

Except(f, S) == [y \in DOMAIN f \ S |-> f[y]]

(* The rows of a table of teams that name one of S. *)
At(f, S) == {x \in DOMAIN f : f[x] \in S}

MembersOf(r, S) == {m \in DOMAIN r.members : r.members[m].team \in S}

(* Work items of the initiatives in I. *)
ItemsOf(r, I) == {w \in DOMAIN r.items : r.items[w].of \in I}

(* Mutant of WithoutMembers: work items keep who is gone. *)
WithoutRows(r, gone) == [r EXCEPT !.members = Except(r.members, gone)]

(* People leave, and a work item of theirs loses its assignee with them. *)
WithoutMembers(r, gone) ==
    [r EXCEPT !.members = Except(r.members, gone),
              !.items = [w \in DOMAIN r.items |->
                  IF r.items[w].assignee \in gone
                  THEN [r.items[w] EXCEPT !.assignee = None]
                  ELSE r.items[w]]]

WithoutItems(r, gone) == [r EXCEPT !.items = Except(r.items, gone)]

(* Mutant of Relinked: risks keep the old team. *)
RelinkedButRisks(r, f) ==
    LET To(t) == IF t \in DOMAIN f THEN f[t] ELSE t
        Renamed(table) == [x \in DOMAIN table |-> To(table[x])]
    IN [r EXCEPT !.owner = Renamed(r.owner),
                 !.executor = Renamed(r.executor),
                 !.members = [m \in DOMAIN r.members |->
                     [r.members[m] EXCEPT !.team = To(r.members[m].team)]],
                 !.goals = Renamed(r.goals)]

(* What names a team of DOMAIN f in the five tables names its image; the     *)
(* requests keep the name.  The code relinks one team after the other; no    *)
(* image of f is in its domain, so the order does not matter.                *)
Relinked(r, f) ==
    LET To(t) == IF t \in DOMAIN f THEN f[t] ELSE t
        Renamed(table) == [x \in DOMAIN table |-> To(table[x])]
    IN [r EXCEPT !.owner = Renamed(r.owner),
                 !.executor = Renamed(r.executor),
                 !.members = [m \in DOMAIN r.members |->
                     [r.members[m] EXCEPT !.team = To(r.members[m].team)]],
                 !.goals = Renamed(r.goals),
                 !.risks = Renamed(r.risks)]

(* The teams of S leave with their people, risks and goals; an initiative   *)
(* left without its executor loses its work items and what it asks for,     *)
(* while the requests of others for a team of S stay.                       *)
Dropped(r, S) ==
    LET orphans == At(r.executor, S)
        left == WithoutItems(WithoutMembers(r, MembersOf(r, S)), ItemsOf(r, orphans))
    IN [left EXCEPT !.owner = [i \in Initiatives |-> IF r.owner[i] \in S THEN None ELSE r.owner[i]],
                    !.executor = [i \in Initiatives |-> IF i \in orphans THEN None ELSE r.executor[i]],
                    !.asked = [i \in Initiatives |-> IF i \in orphans THEN {} ELSE r.asked[i]],
                    !.goals = Except(r.goals, At(r.goals, S)),
                    !.risks = Except(r.risks, At(r.risks, S))]

(* Mutant of Named: risks are not looked for. *)
NamedButByRisks(r, t) ==
    \/ At(r.owner, {t}) # {} \/ At(r.executor, {t}) # {}
    \/ At(r.goals, {t}) # {} \/ MembersOf(r, {t}) # {}

Named(r, t) ==
    \/ At(r.owner, {t}) # {} \/ At(r.executor, {t}) # {}
    \/ At(r.goals, {t}) # {} \/ MembersOf(r, {t}) # {} \/ At(r.risks, {t}) # {}

(* People and work items with a competency that their team (of the           *)
(* initiative's executor) loses: removed gives the codes each team loses.    *)
MembersHit(r, removed) ==
    {m \in DOMAIN r.members : r.members[m].code \in removed[r.members[m].team]}

ItemsHit(r, removed) ==
    {w \in DOMAIN r.items :
        LET t == r.executor[r.items[w].of]
        IN t # None /\ r.items[w].code \in removed[t]}

(* Mutant of Restricted: people keep the competency. *)
RestrictedItems(r, removed) == WithoutItems(r, ItemsHit(r, removed))

Restricted(r, removed) ==
    WithoutItems(WithoutMembers(r, MembersHit(r, removed)), ItemsHit(r, removed))

UsesRemoved(r, removed) ==
    MembersHit(r, removed) # {} \/ ItemsHit(r, removed) # {}

-----------------------------------------------------------------------------
(* The teams of the cycle, one by one. *)
CreateTeam(t, codes) ==
    /\ t \notin DOMAIN roster
    /\ roster' = With(roster, t, codes)
    /\ UNCHANGED refs

(* A new name is another global team: what named the old one follows.  A    *)
(* competency that is in use leaves only with the policy that removes it.   *)
UpdateTeam(t, target, codes, confirm) ==
    /\ t \in DOMAIN roster
    /\ target = t \/ target \notin DOMAIN roster
    /\ LET moved == IF target = t THEN refs ELSE Relinked(refs, [x \in {t} |-> target])
           removed == [x \in Teams |-> IF x = target THEN roster[t] \ codes ELSE {}]
       IN /\ UsesRemoved(moved, removed) => confirm
          /\ refs' = Restricted(moved, removed)
    /\ roster' = With(Except(roster, {t}), target, codes)

DeleteTeam(t, confirm) ==
    /\ t \in DOMAIN roster
    /\ Named(refs, t) => confirm
    /\ refs' = Dropped(refs, {t})
    /\ roster' = Except(roster, {t})

(* PUT of the setup replaces the roster and asks nothing: what names a team *)
(* that is not selected goes or is cleared, the work items stay, and so do  *)
(* people whose competency their team no longer has.  With no team at all   *)
(* even the goals without a team go.                                        *)
Setup(new) ==
    LET gone == Teams \ DOMAIN new
        left == WithoutMembers(refs, MembersOf(refs, gone))
        Cleared(table) == [i \in Initiatives |-> IF table[i] \in gone THEN None ELSE table[i]]
    IN /\ refs' = [left EXCEPT
              !.owner = Cleared(refs.owner),
              !.executor = Cleared(refs.executor),
              !.asked = [i \in Initiatives |->
                  IF refs.executor[i] \in gone THEN {} ELSE refs.asked[i]],
              !.goals = IF new = Empty THEN Empty ELSE Except(refs.goals, At(refs.goals, gone)),
              !.risks = Except(refs.risks, At(refs.risks, gone))]
       /\ roster' = new

(* Mutant of Moved: no temporary teams, one rename after the other. *)
MovedInTurn(r, f) ==
    LET changed == {t \in DOMAIN f : f[t] # t}
        first == CHOOSE t \in changed : TRUE
        rest == [x \in changed \ {first} |-> f[x]]
    IN IF changed = {} THEN r ELSE Relinked(Relinked(r, [x \in {first} |-> f[x]]), rest)

(* f gives each kept row its team.  Rows that change are first parked on    *)
(* temporary teams, <<t>> for the row of t, so that two of them may swap.   *)
Moved(r, f) ==
    LET changed == {t \in DOMAIN f : f[t] # t}
        parked == Relinked(r, [t \in changed |-> <<t>>])
    IN Relinked(parked, [x \in {<<t>> : t \in changed} |-> f[x[1]]])

(* PUT of the cycle's data: the rows of kept become those teams, the other  *)
(* rows are deleted, and the rest of new is created.                        *)
ReplaceData(kept, new, confirm) ==
    /\ DOMAIN kept \subseteq DOMAIN roster
    /\ \A t \in DOMAIN kept : kept[t] \in DOMAIN new
    /\ LET gone == DOMAIN roster \ DOMAIN kept
           moved == Moved(Dropped(refs, gone), kept)
           removed == [x \in Teams |->
               UNION {roster[t] \ new[x] : t \in {y \in DOMAIN kept : kept[y] = x}}]
       IN /\ ~ confirm => ~ (UsesRemoved(moved, removed) \/ \E t \in gone : Named(refs, t))
          /\ refs' = Restricted(moved, removed)
    /\ roster' = new

-----------------------------------------------------------------------------
(* The initiatives' teams (a PATCH of Pre PI, a dispatch from the backlog). *)
(* Work items stay as they are when the executor changes, and so do its     *)
(* requests unless its row goes.                                            *)
SetOwner(i, t) ==
    /\ t \in DOMAIN roster \cup {None}
    /\ refs' = [refs EXCEPT !.owner[i] = t]
    /\ UNCHANGED roster

SetExecutor(i, t) ==
    /\ t \in DOMAIN roster \cup {None}
    /\ refs' = [refs EXCEPT !.executor[i] = t, !.asked[i] = IF t = None THEN {} ELSE @]
    /\ UNCHANGED roster

(* The form of Pre PI asks for the teams of S, none of them its own, on      *)
(* cards that may be among Initiatives: targets gives those the team asked   *)
(* of each.  A card takes the asking initiative's owner, and the team unless *)
(* it has it already.                                                        *)
Ask(i, S, targets) ==
    /\ refs.executor[i] \in DOMAIN roster \ S
    /\ S \subseteq DOMAIN roster
    /\ \A j \in DOMAIN targets : j # i /\ targets[j] \in S /\ refs.executor[j] \in {None, targets[j]}
    /\ refs' = [refs EXCEPT
           !.owner = [j \in Initiatives |-> IF j \in DOMAIN targets THEN refs.owner[i] ELSE refs.owner[j]],
           !.executor = [j \in Initiatives |->
               IF j \in DOMAIN targets THEN targets[j] ELSE refs.executor[j]],
           !.asked[i] = S]
    /\ UNCHANGED roster

(* Work items: the executor's team has the competency, and the assignee is  *)
(* one of its people with that competency.                                  *)
Assignable(i, code, m) ==
    /\ refs.executor[i] \in DOMAIN roster
    /\ code \in roster[refs.executor[i]]
    /\ m # None => m \in DOMAIN refs.members
                   /\ refs.members[m] = [team |-> refs.executor[i], code |-> code]

CreateItem(w, i, code, m) ==
    /\ w \notin DOMAIN refs.items
    /\ Assignable(i, code, m)
    /\ refs' = [refs EXCEPT !.items = With(@, w, [of |-> i, code |-> code, assignee |-> m])]
    /\ UNCHANGED roster

AssignItem(w, code, m) ==
    /\ w \in DOMAIN refs.items
    /\ Assignable(refs.items[w].of, code, m)
    /\ refs' = [refs EXCEPT !.items[w].code = code, !.items[w].assignee = m]
    /\ UNCHANGED roster

DeleteItem(w) ==
    /\ w \in DOMAIN refs.items
    /\ refs' = WithoutItems(refs, {w})
    /\ UNCHANGED roster

-----------------------------------------------------------------------------
(* Capacity. *)
CreateMember(m, t, code) ==
    /\ m \notin DOMAIN refs.members
    /\ t \in DOMAIN roster
    /\ code \in roster[t]
    /\ refs' = [refs EXCEPT !.members = With(@, m, [team |-> t, code |-> code])]
    /\ UNCHANGED roster

(* The work items of the member keep their competency. *)
UpdateMember(m, code) ==
    /\ m \in DOMAIN refs.members
    /\ refs.members[m].team \in DOMAIN roster
    /\ code \in roster[refs.members[m].team]
    /\ refs' = [refs EXCEPT !.members[m].code = code]
    /\ UNCHANGED roster

DeleteMember(m, confirm) ==
    /\ m \in DOMAIN refs.members
    /\ (\E w \in DOMAIN refs.items : refs.items[w].assignee = m) => confirm
    /\ refs' = WithoutMembers(refs, {m})
    /\ UNCHANGED roster

(* PUT of the capacity moves and deletes people, assigned or not, unasked. *)
ReplaceCapacity(new) ==
    /\ \A m \in DOMAIN new :
           new[m].team \in DOMAIN roster /\ new[m].code \in roster[new[m].team]
    /\ refs' = [WithoutMembers(refs, DOMAIN refs.members \ DOMAIN new) EXCEPT !.members = new]
    /\ UNCHANGED roster

-----------------------------------------------------------------------------
(* Goals and risks name a team of the cycle or none; t = None is a goal of  *)
(* no team, and a risk of another scope.                                    *)
SetGoal(g, t) ==
    /\ t \in DOMAIN roster \cup {None}
    /\ refs' = [refs EXCEPT !.goals = With(@, g, t)]
    /\ UNCHANGED roster

DeleteGoal(g) ==
    /\ g \in DOMAIN refs.goals
    /\ refs' = [refs EXCEPT !.goals = Except(@, {g})]
    /\ UNCHANGED roster

LinkRisk(k, t) ==
    /\ t \in DOMAIN roster \cup {None}
    /\ refs' = [refs EXCEPT !.risks = With(@, k, t)]
    /\ UNCHANGED roster

DeleteRisk(k) ==
    /\ k \in DOMAIN refs.risks
    /\ refs' = [refs EXCEPT !.risks = Except(@, {k})]
    /\ UNCHANGED roster

ReplaceRisks(new) ==
    /\ \A k \in DOMAIN new : new[k] \in DOMAIN roster \cup {None}
    /\ refs' = [refs EXCEPT !.risks = new]
    /\ UNCHANGED roster

-----------------------------------------------------------------------------
Renamings ==
    {f \in UNION {[S -> Teams] : S \in SUBSET Teams} :
        \A t, u \in DOMAIN f : f[t] = f[u] => t = u}

Capacities == UNION {[S -> Member] : S \in SUBSET MemberIds}

(* The team asked of each target card. *)
Targets == UNION {[J -> Teams] : J \in SUBSET Initiatives}

RiskLists == UNION {[S -> Teams \cup {None}] : S \in SUBSET RiskIds}

RosterCommand ==
    \/ \E t \in Teams, codes \in CodeSets : CreateTeam(t, codes)
    \/ \E t, target \in Teams, codes \in CodeSets, confirm \in BOOLEAN :
           UpdateTeam(t, target, codes, confirm)
    \/ \E t \in Teams, confirm \in BOOLEAN : DeleteTeam(t, confirm)
    \/ \E new \in Rosters : Setup(new)
    \/ \E kept \in Renamings, new \in Rosters, confirm \in BOOLEAN :
           ReplaceData(kept, new, confirm)

InitiativeCommand ==
    \/ \E i \in Initiatives, t \in Teams \cup {None} : SetOwner(i, t)
    \/ \E i \in Initiatives, t \in Teams \cup {None} : SetExecutor(i, t)
    \/ \E i \in Initiatives, S \in SUBSET Teams, targets \in Targets : Ask(i, S, targets)
    \/ \E w \in WorkItems, i \in Initiatives, code \in Codes, m \in MemberIds \cup {None} :
           CreateItem(w, i, code, m)
    \/ \E w \in WorkItems, code \in Codes, m \in MemberIds \cup {None} : AssignItem(w, code, m)
    \/ \E w \in WorkItems : DeleteItem(w)

CapacityCommand ==
    \/ \E m \in MemberIds, t \in Teams, code \in Codes : CreateMember(m, t, code)
    \/ \E m \in MemberIds, code \in Codes : UpdateMember(m, code)
    \/ \E m \in MemberIds, confirm \in BOOLEAN : DeleteMember(m, confirm)
    \/ \E new \in Capacities : ReplaceCapacity(new)

GoalCommand ==
    \/ \E g \in GoalIds, t \in Teams \cup {None} : SetGoal(g, t)
    \/ \E g \in GoalIds : DeleteGoal(g)

RiskCommand ==
    \/ \E k \in RiskIds, t \in Teams \cup {None} : LinkRisk(k, t)
    \/ \E k \in RiskIds : DeleteRisk(k)
    \/ \E new \in RiskLists : ReplaceRisks(new)

Next == RosterCommand \/ InitiativeCommand \/ CapacityCommand \/ GoalCommand \/ RiskCommand

Spec == Init /\ [][Next]_vars

-----------------------------------------------------------------------------
TeamsNamed(r) ==
    ({r.owner[i] : i \in Initiatives} \cup {r.executor[i] : i \in Initiatives}
     \cup {r.members[m].team : m \in DOMAIN r.members}
     \cup {r.goals[g] : g \in DOMAIN r.goals} \cup {r.risks[k] : k \in DOMAIN r.risks}) \ {None}

(* Every team an owner, an executor, a member of the capacity, a goal or a   *)
(* risk names is a team of the cycle, and never a temporary one, through     *)
(* every rename, swap, deletion and replacement of the roster.  Requests are *)
(* not among these tables: they may name a team that has left.               *)
RefsInCycle == TeamsNamed(refs) \subseteq DOMAIN roster

(* A bulk PUT that renames or swaps teams moves what named a kept row's old  *)
(* team in the five tables to its new one, and nothing else there            *)
(* (_relink_cycle_team by way of temporary teams).  A request moves nowhere: *)
(* it asks for the same team as before, whatever row that is now, and goes   *)
(* only with its executor.                                                   *)
RefsMoveTogether ==
    [][\A kept \in Renamings :
          \/ /\ \A t \in DOMAIN kept :
                    /\ At(refs.owner, {t}) = At(refs.owner', {kept[t]})
                    /\ At(refs.executor, {t}) = At(refs.executor', {kept[t]})
                    /\ At(refs.goals, {t}) = At(refs.goals', {kept[t]})
                    /\ At(refs.risks, {t}) = At(refs.risks', {kept[t]})
                    /\ MembersOf(refs', {kept[t]}) \subseteq MembersOf(refs, {t})
             /\ \A i \in Initiatives :
                    refs.asked'[i] = IF refs.executor'[i] = None THEN {} ELSE refs.asked[i]
          \/ ~ ReplaceData(kept, roster', TRUE)]_vars

Unconfirmed ==
    \/ \E t \in Teams, target \in DOMAIN roster' : UpdateTeam(t, target, roster'[target], FALSE)
    \/ \E t \in Teams : DeleteTeam(t, FALSE)
    \/ \E kept \in Renamings : ReplaceData(kept, roster', FALSE)

(* No row is lost, requests included, and none loses its team or assignee. *)
NothingLost ==
    /\ DOMAIN refs.members' = DOMAIN refs.members
    /\ refs.items' = refs.items
    /\ DOMAIN refs.goals' = DOMAIN refs.goals
    /\ DOMAIN refs.risks' = DOMAIN refs.risks
    /\ At(refs.owner', {None}) = At(refs.owner, {None})
    /\ At(refs.executor', {None}) = At(refs.executor, {None})
    /\ refs.asked' = refs.asked

(* A change of the roster that was not confirmed loses no row that names a   *)
(* team, and the deletion of a member that was not confirmed takes no        *)
(* assignee (CascadeRequired, TeamBoardCascadeRequired).                     *)
LossesConfirmed ==
    [][/\ NothingLost \/ ~ Unconfirmed
       /\ refs.items' = refs.items \/ \A m \in MemberIds : ~ DeleteMember(m, FALSE)]_vars

(* Members whose competency is none of their team's. *)
Misfits ==
    {m \in DOMAIN refs.members :
        LET t == refs.members[m].team
        IN t \in DOMAIN roster => refs.members[m].code \notin roster[t]}

(* Only the PUT of the setup leaves a member with a competency that the team *)
(* does not have; every other change of the competencies, with a rename or   *)
(* without, takes the members that used it along.                            *)
MisfitsBySetupOnly ==
    [][Misfits' \subseteq Misfits \/ Setup(roster')]_vars
=============================================================================
