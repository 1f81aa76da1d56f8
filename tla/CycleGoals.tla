----------------------------- MODULE CycleGoals -----------------------------
(***************************************************************************)
(* The goals of one PI cycle and the initiatives of its Pre PI Planning    *)
(* they are linked to: app/services/goals.py, the commands of              *)
(* app/services/pre_pi.py, and what the PUT of the team boards and the     *)
(* dispatch from the backlog do to the same initiatives.                   *)
(* A command holds the row lock of the cycle from its first read to its    *)
(* commit (OptimisticLocking), so it is one action; a refused one changes  *)
(* nothing.  The fields that goals and initiatives share (goal text,       *)
(* metric, values, hypothesis, redesign, product) are one text.            *)
(*                                                                         *)
(* Left out: positions in the blocks, the order of the goals and their     *)
(* status; who asks for which service card (module Backlog), so a form may *)
(* abandon any of them; teams that leave the cycle and take their goals    *)
(* with them (CycleRoster), so that an executor is for good.               *)
(***************************************************************************)
EXTENDS Integers, FiniteSets

CONSTANTS Initiatives, Teams,
          GoalIds,      \* bounds the goals that exist together
          GoalTeams,    \* teams that users file goals under; may hold None
          Texts, NoText,
          None,         \* no team, no initiative
          Executor,     \* the executor team of each initiative, or None
          ServiceIds,   \* initiatives that forms may create as service cards
          Snapshots,    \* rows users send in the PUT of Pre PI or of the boards
          Developing    \* initiatives of the type whose fields are required

ASSUME CycleGoalsAssumption ==
    /\ IsFiniteSet(Initiatives)
    /\ None \notin Initiatives \cup Teams
    /\ GoalTeams \subseteq Teams \cup {None}
    /\ NoText \in Texts
    /\ Executor \in [Initiatives -> Teams \cup {None}]
    /\ Developing \subseteq Initiatives
    /\ ServiceIds \subseteq Initiatives
    /\ \A plan \in Snapshots :
           /\ DOMAIN plan \subseteq Initiatives
           /\ plan \in [DOMAIN plan -> [pre_planned : BOOLEAN, on_board : BOOLEAN, text : Texts]]

VARIABLES
    cards,  \* the initiatives of the cycle that exist
    goals   \* its goals; links gives each linked initiative its sort_order,
            \* first is pi_goals.initiative_id

vars == <<cards, goals>>

(* A generated card is a service card, made for a request of another initiative. *)
Card == [pre_planned : BOOLEAN, on_board : BOOLEAN, generated : BOOLEAN, text : Texts]

TypeOK ==
    /\ DOMAIN cards \subseteq Initiatives
    /\ cards \in [DOMAIN cards -> Card]
    /\ DOMAIN goals \subseteq GoalIds
    /\ \A g \in DOMAIN goals :
           /\ DOMAIN goals[g] = {"team", "first", "links", "text"}
           /\ goals[g].team \in Teams \cup {None}
           /\ goals[g].first \in Initiatives \cup {None}
           /\ DOMAIN goals[g].links \subseteq Initiatives
           /\ goals[g].links \in [DOMAIN goals[g].links -> 0 .. Cardinality(Initiatives) - 1]
           /\ goals[g].text \in Texts

Empty == [x \in {} |-> x]

Init == cards = Empty /\ goals = Empty

-----------------------------------------------------------------------------
Live == DOMAIN cards

With(f, x, v) == [y \in DOMAIN f \cup {x} |-> IF y = x THEN v ELSE f[y]]

Except(f, S) == [y \in DOMAIN f \ S |-> f[y]]

Without(f, x) == Except(f, {x})

(* The lists without repetition over sets of initiatives, each as the *)
(* position of every member: how the sort_order of links is set.      *)
Lists ==
    UNION {{f \in [S -> 0 .. Cardinality(S) - 1] :
               \A i, j \in S : f[i] = f[j] => i = j} : S \in SUBSET Initiatives}

Numberings == {f \in Lists : DOMAIN f \subseteq Live}

(* The initiatives that may come first when links are read in their order: *)
(* equal orders leave the choice to the database.                          *)
FirstOf(links) ==
    IF DOMAIN links = {} THEN {None}
    ELSE {i \in DOMAIN links : \A j \in DOMAIN links : links[i] <= links[j]}

(* A goal without links falls back on its first initiative. *)
Linked(goal) ==
    IF DOMAIN goal.links = {} THEN {goal.first} \ {None} ELSE DOMAIN goal.links

(* The initiatives S take over a text. *)
Rewritten(S, text) ==
    [i \in Live |-> IF i \in S THEN [cards[i] EXCEPT !.text = text] ELSE cards[i]]

-----------------------------------------------------------------------------
(* Commands on goals.  A new goal writes its text, empty or not, into every *)
(* initiative it is linked to.                                              *)
CreateGoal(g, t, links, text) ==
    /\ g \notin DOMAIN goals
    /\ \E i \in FirstOf(links) :
           goals' = With(goals, g, [team |-> t, first |-> i, links |-> links, text |-> text])
    /\ cards' = Rewritten(DOMAIN links, text)

(* The older endpoint records the first initiative and no link. *)
CreateUnlinkedGoal(g, t, i, text) ==
    /\ g \notin DOMAIN goals
    /\ goals' = With(goals, g, [team |-> t, first |-> i, links |-> Empty, text |-> text])
    /\ UNCHANGED cards

(* Links are replaced as a whole, or not given (None) and left alone. *)
Relinked(g, links) == IF links = None THEN goals[g].links ELSE links

(* An edited goal is filed under the first initiative of new links.  Its   *)
(* text goes to the initiatives linked now; with no link left, to the      *)
(* first one that was read with the goal (goal.initiative is not reloaded). *)
UpdateGoal(g, t, links, text, confirm) ==
    /\ g \in DOMAIN goals
    /\ LET new == Relinked(g, links)
       IN /\ DOMAIN goals[g].links \subseteq DOMAIN new \/ confirm
          /\ \E i \in IF links = None THEN {goals[g].first} ELSE FirstOf(links) :
                 goals' = [goals EXCEPT ![g] = [team |-> t, first |-> i,
                                                links |-> new, text |-> text]]
          /\ cards' = Rewritten(Linked([goals[g] EXCEPT !.links = new]), text)

DeleteGoal(g, confirm) ==
    /\ g \in DOMAIN goals
    /\ Linked(goals[g]) # {} => confirm
    /\ goals' = Without(goals, g)
    /\ UNCHANGED cards

(* Mutant of AddLink: the order counts the new link. *)
AddLinkCounted(g, i) ==
    /\ g \in DOMAIN goals
    /\ i \in Live
    /\ LET old == goals[g].links
           new == IF i \in DOMAIN old THEN old
                  ELSE With(old, i, Cardinality(DOMAIN old) + 1)
       IN /\ \E f \in IF old = Empty THEN {i} ELSE FirstOf(old) :
                 goals' = [goals EXCEPT ![g].links = new, ![g].first = f]
          /\ cards' = Rewritten(DOMAIN new, goals[g].text)

(* A link is appended with the number of links as its order; the goal's *)
(* text overwrites that of every linked initiative.                     *)
AddLink(g, i) ==
    /\ g \in DOMAIN goals
    /\ i \in Live
    /\ LET old == goals[g].links
           new == IF i \in DOMAIN old THEN old
                  ELSE With(old, i, Cardinality(DOMAIN old))
       IN /\ \E f \in IF old = Empty THEN {i} ELSE FirstOf(old) :
                 goals' = [goals EXCEPT ![g].links = new, ![g].first = f]
          /\ cards' = Rewritten(DOMAIN new, goals[g].text)

(* Mutant of RemoveLink: the first initiative stays the removed one. *)
RemoveLinkOnly(g, i, confirm) ==
    /\ g \in DOMAIN goals
    /\ i \in DOMAIN goals[g].links
    /\ confirm
    /\ goals' = [goals EXCEPT ![g].links = Without(@, i)]
    /\ UNCHANGED cards

(* Always asks for confirmation; the remaining orders stay as they are. *)
RemoveLink(g, i, confirm) ==
    /\ g \in DOMAIN goals
    /\ i \in DOMAIN goals[g].links
    /\ confirm
    /\ LET rest == Without(goals[g].links, i)
       IN \E f \in FirstOf(rest) :
              goals' = [goals EXCEPT ![g].links = rest, ![g].first = f]
    /\ UNCHANGED cards

-----------------------------------------------------------------------------
(* The goals kept under a team and, as first, an initiative. *)
Matching(t, i) == {g \in DOMAIN goals : goals[g].team = t /\ goals[g].first = i}

(* Mutant of Filed: the goal is not linked. *)
FiledUnlinked(g, t, i, text) ==
    [team |-> t, first |-> i, text |-> text,
     links |-> IF g \in DOMAIN goals THEN goals[g].links ELSE Empty]

(* A goal filed under team t and initiative i, which is linked with order 0 *)
(* unless it is linked already; the earlier links stay.                     *)
Filed(g, t, i, text) ==
    LET old == IF g \in DOMAIN goals THEN goals[g].links ELSE Empty
    IN [team |-> t, first |-> i, text |-> text,
        links |-> IF i \in DOMAIN old THEN old ELSE With(old, i, 0)]

(* PUT of the goals: rows[g] is the row that goal g, old or new, takes.  A  *)
(* row finds its goal by id, or by the last goal with its team and          *)
(* initiative, and must not contradict the latter; the last row of an       *)
(* initiative sets its text; goals without a row are deleted unconfirmed.   *)
ReplaceGoals(rows) ==
    /\ \A g, h \in DOMAIN rows :
           rows[g].team = rows[h].team /\ rows[g].first = rows[h].first => g = h
    /\ \A g \in DOMAIN rows :
           LET same == Matching(rows[g].team, rows[g].first)
           IN rows[g].first \in Live /\ (same = {} \/ g \in same)
    /\ goals' = [g \in DOMAIN rows |->
                     Filed(g, rows[g].team, rows[g].first, rows[g].text)]
    /\ LET named == {rows[g].first : g \in DOMAIN rows}
       IN \E last \in [named -> DOMAIN rows] :
              /\ \A i \in named : rows[last[i]].first = i
              /\ cards' = [i \in Live |-> IF i \in named
                               THEN [cards[i] EXCEPT !.text = rows[last[i]].text]
                               ELSE cards[i]]

-----------------------------------------------------------------------------
(* Commands of Pre PI Planning. *)
NewCard(generated, text) ==
    [pre_planned |-> FALSE, on_board |-> FALSE, generated |-> generated, text |-> text]

CreateInitiative(i, text) ==
    /\ i \notin Live
    /\ cards' = With(cards, i, NewCard(FALSE, text))
    /\ UNCHANGED goals

(* A dispatch from the backlog: each item takes over its initiative, a     *)
(* service card included, or gets a new one.                               *)
Dispatch(text) ==
    /\ UNCHANGED goals
    /\ cards' = [i \in Live \cup DOMAIN text |->
           IF i \notin DOMAIN text THEN cards[i]
           ELSE IF i \in Live THEN [cards[i] EXCEPT !.generated = FALSE, !.text = text[i]]
           ELSE NewCard(FALSE, text[i])]

(* asked[j] says that j is asked for without a sprint.  What does not exist *)
(* becomes a service card; one that is not on the boards leaves the planned *)
(* block, and without a sprint it is published.                             *)
Served(base, asked) ==
    LET all == [j \in DOMAIN base \cup DOMAIN asked |->
                   IF j \in DOMAIN base THEN base[j] ELSE NewCard(TRUE, NoText)]
        open == {j \in DOMAIN asked : all[j].generated /\ ~ all[j].on_board}
    IN [j \in DOMAIN all |->
           IF j \in open
           THEN [all[j] EXCEPT !.pre_planned = FALSE, !.on_board = asked[j]]
           ELSE all[j]]

ServiceCards == {i \in Live : cards[i].generated}

(* Goals that name one of some initiatives. *)
Tied(S) == {g \in DOMAIN goals : goals[g].first \in S \/ DOMAIN goals[g].links \cap S # {}}

(* _delete_or_unlink_goals_for_initiatives: a goal loses its links to the  *)
(* initiatives and passes to its next one; without a next one it goes.     *)
Untied(S) ==
    LET rest(g) == Except(goals[g].links, S)
        passed == {g \in Tied(S) : rest(g) # Empty}
    IN \E first \in [passed -> Initiatives] :
           /\ \A g \in passed : first[g] \in FirstOf(rest(g))
           /\ goals' = [g \in (DOMAIN goals \ Tied(S)) \cup passed |->
                  IF g \in passed
                  THEN [goals[g] EXCEPT !.first = first[g], !.links = rest(g)]
                  ELSE goals[g]]

(* The form writes the initiative, not the goals that copied its text, and  *)
(* its requests: service cards nobody asks for any more go, on the boards   *)
(* or not, and what goals they have with them.                              *)
EditInitiative(i, text, asked, gone) ==
    /\ i \in Live \ DOMAIN asked
    /\ gone \subseteq ServiceCards \ ({i} \cup DOMAIN asked)
    /\ Untied(gone)
    /\ cards' = Except(Served([cards EXCEPT ![i].text = text], asked), gone)

(* PUT of Pre PI: every initiative gets its row, each with the requests of  *)
(* a form; initiatives without a row go unasked.                            *)
PutPrePI(plan, asked, gone) ==
    LET row(i) == [pre_planned |-> plan[i].pre_planned, on_board |-> plan[i].on_board,
                   generated |-> i \in ServiceCards, text |-> plan[i].text]
    IN /\ \A j \in DOMAIN asked : DOMAIN plan \ {j} # {} /\ (j \in Live => j \in DOMAIN plan)
       /\ \A j \in gone : (Live \cap DOMAIN plan) \ {j} # {}
       /\ gone \subseteq ServiceCards \ DOMAIN asked
       /\ cards' = Except(Served([i \in DOMAIN plan |-> row(i)], asked), gone)
       /\ Untied((Live \ DOMAIN plan) \cup gone)

(* PUT of the team boards: block and publication as sent, goals as they are. *)
PutTeamBoards(plan) ==
    /\ DOMAIN plan \subseteq Live
    /\ cards' = [i \in Live |->
           IF i \in DOMAIN plan
           THEN [cards[i] EXCEPT !.pre_planned = plan[i].pre_planned, !.on_board = plan[i].on_board]
           ELSE cards[i]]
    /\ UNCHANGED goals

(* Mutant of MoveInitiative: a withdrawn initiative keeps its publication. *)
MoveKeepingBoard(i, planned, confirm) ==
    /\ i \in Live
    /\ ~planned /\ cards[i].on_board => confirm
    /\ cards' = [cards EXCEPT ![i].pre_planned = planned]
    /\ IF ~planned /\ cards[i].on_board THEN Untied({i}) ELSE UNCHANGED goals

(* A move to a block; the way back to the backlog block withdraws a *)
(* published initiative.                                            *)
MoveInitiative(i, planned, confirm) ==
    /\ i \in Live
    /\ ~planned /\ cards[i].on_board => confirm
    /\ cards' = [cards EXCEPT ![i].pre_planned = planned, ![i].on_board = @ /\ planned]
    /\ IF ~planned /\ cards[i].on_board THEN Untied({i}) ELSE UNCHANGED goals

(* Mutant of DeleteInitiative: only the goals filed under it ask to confirm. *)
DeleteAsFirst(i, confirm) ==
    /\ i \in Live
    /\ cards[i].on_board \/ (\E g \in DOMAIN goals : goals[g].first = i) => confirm
    /\ cards' = Without(cards, i)
    /\ Untied({i})

(* (A risk that names the initiative makes its deletion fail: see the README.) *)
DeleteInitiative(i, confirm) ==
    /\ i \in Live
    /\ cards[i].on_board \/ Tied({i}) # {} => confirm
    /\ cards' = Without(cards, i)
    /\ Untied({i})

(* What a submission of some teams publishes: their planned initiatives. *)
Candidates(teams) == {i \in Live : cards[i].pre_planned /\ Executor[i] \in teams}

(* A submission is refused as a whole when a required field is empty.       *)
(* Otherwise every candidate gets the goal kept under its executor and      *)
(* itself, the last one or a new one, with its own text, and is published.  *)
SubmitPrePI(teams) ==
    /\ \A i \in Candidates(teams) \cap Developing : cards[i].text # NoText
    /\ cards' = [i \in Live |-> [cards[i] EXCEPT !.on_board = @ \/ i \in Candidates(teams)]]
    /\ \E goalOf \in [Candidates(teams) -> GoalIds] :
           /\ \A i, j \in Candidates(teams) : goalOf[i] = goalOf[j] => i = j
           /\ \A i \in Candidates(teams) :
                  LET same == Matching(Executor[i], i)
                  IN goalOf[i] \in IF same = {} THEN GoalIds \ DOMAIN goals ELSE same
           /\ LET filed == {goalOf[i] : i \in Candidates(teams)}
                  subject(g) == CHOOSE i \in Candidates(teams) : goalOf[i] = g
              IN goals' = [g \in DOMAIN goals \cup filed |->
                              IF g \in filed
                              THEN Filed(g, Executor[subject(g)], subject(g),
                                         cards[subject(g)].text)
                              ELSE goals[g]]

-----------------------------------------------------------------------------
(* Rows of a PUT: each names a team, a live initiative and a text. *)
Row == [team : GoalTeams \ {None}, first : Live, text : Texts]

(* What forms ask for: requests for other initiatives leave them as they are. *)
Requests == UNION {[S -> BOOLEAN] : S \in SUBSET ServiceIds}

(* The commands that ask for confirmation, the ones that never do, and the *)
(* PUTs of whole tabs, which never do either.                              *)
GuardedCommand(confirm) ==
    \/ \E links \in Numberings \cup {None}, g \in GoalIds, t \in GoalTeams, text \in Texts :
          UpdateGoal(g, t, links, text, confirm)
    \/ \E g \in GoalIds :
          \/ DeleteGoal(g, confirm)
          \/ \E i \in Live : RemoveLink(g, i, confirm)
    \/ \E i \in Initiatives :
          \/ \E planned \in BOOLEAN : MoveInitiative(i, planned, confirm)
          \/ DeleteInitiative(i, confirm)

FreeCommand ==
    \/ \E links \in Numberings, g \in GoalIds, t \in GoalTeams, text \in Texts :
          CreateGoal(g, t, links, text)
    \/ \E i \in Live \cup {None}, g \in GoalIds, t \in GoalTeams, text \in Texts :
          CreateUnlinkedGoal(g, t, i, text)
    \/ \E g \in GoalIds, i \in Live : AddLink(g, i)
    \/ \E i \in Initiatives, text \in Texts : CreateInitiative(i, text)
    \/ \E S \in SUBSET Initiatives : \E text \in [S -> Texts] : Dispatch(text)
    \/ \E i \in Live, text \in Texts, asked \in Requests, gone \in SUBSET ServiceCards :
          EditInitiative(i, text, asked, gone)
    \/ \E teams \in (SUBSET Teams) \ {{}} : SubmitPrePI(teams)

PutInitiatives ==
    \E plan \in Snapshots :
        \/ PutTeamBoards(plan)
        \/ \E asked \in Requests, gone \in SUBSET ServiceCards : PutPrePI(plan, asked, gone)

(* A confirmed command does whatever the unconfirmed one does. *)
Next ==
    \/ GuardedCommand(TRUE)
    \/ FreeCommand
    \/ \E S \in SUBSET GoalIds : \E rows \in [S -> Row] : ReplaceGoals(rows)
    \/ PutInitiatives

Spec == Init /\ [][Next]_vars

-----------------------------------------------------------------------------
(* A goal that has links is filed under one of them, and neither names an  *)
(* initiative that is gone, whichever command touched it last: the goal's  *)
(* first initiative is what submissions and PUTs find it by.               *)
PrimaryLinked ==
    \A g \in DOMAIN goals :
        /\ Linked(goals[g]) \subseteq Live
        /\ DOMAIN goals[g].links # {} => goals[g].first \in DOMAIN goals[g].links

(* Initiatives on the boards that are not in the planned block. *)
Strays == {i \in Live : cards[i].on_board /\ ~ cards[i].pre_planned}

(* What is on the boards is in the planned block, and leaves the block only *)
(* with its publication withdrawn, but for service cards, which a form      *)
(* publishes unplanned, and for the PUTs, which take the flags as sent.     *)
OnlyServiceCardsStray ==
    [][\/ \A i \in Strays' \ Strays : i \in ServiceCards' /\ (i \in Live => ~ cards[i].on_board)
       \/ PutInitiatives]_vars

(* Initiatives that a step takes off the boards or that lose a goal. *)
Losers ==
    {i \in Live :
        \/ cards[i].on_board /\ (i \in DOMAIN cards' => ~ cards'[i].on_board)
        \/ \E g \in DOMAIN goals :
               /\ i \in DOMAIN goals[g].links
               /\ g \in DOMAIN goals' => i \notin DOMAIN goals'[g].links}

(* Nothing leaves the boards and no goal loses an initiative without a      *)
(* confirmation; what a form takes away unasked are whole service cards.    *)
(* (The PUTs ask for none.)                                                 *)
LossesConfirmed ==
    [][\/ Losers = {}
       \/ /\ ~ GuardedCommand(FALSE)
          /\ Losers \subseteq ServiceCards \ DOMAIN cards' \/ ~ FreeCommand]_vars

(* Everything planned of the teams is on the boards, and its executor has a *)
(* goal filed under it that is linked to it and shows its text.             *)
Settled(teams) ==
    \A i \in Candidates(teams) :
        /\ cards[i].on_board
        /\ \E g \in Matching(Executor[i], i) :
               i \in DOMAIN goals[g].links /\ goals[g].text = cards[i].text

(* A submission leaves nothing to submit: the same submission again adds *)
(* nothing.                                                              *)
SubmitSettles ==
    [][\A teams \in SUBSET Teams : SubmitPrePI(teams) => Settled(teams)']_vars
=============================================================================
