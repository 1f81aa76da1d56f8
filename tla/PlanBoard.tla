----------------------------- MODULE PlanBoard -----------------------------
(***************************************************************************)
(* The published plan of one PI cycle: the sprint and week of initiatives  *)
(* and of their stories and work items, and the arrows between them        *)
(* (app/services/team_boards.py, program_board.py), with the commands of   *)
(* Pre PI and of the cycle data that reach into the same rows.  A command  *)
(* holds the row lock of the cycle until its commit, so it is one action;  *)
(* a refused one changes nothing.  The schedule moves by whole weeks and a *)
(* date counts as its week.  Texts, efforts, competencies, assignees, the  *)
(* agreed flag (no command asks for it), the order of the cards and who    *)
(* asks for which service card (a form may abandon any) are left out.      *)
(***************************************************************************)
EXTENDS Integers, FiniteSets

CONSTANTS
    Initiatives, Stories, WorkItems, ConnectionIds,  \* bound what exists together
    Starts, Counts,      \* first weeks and numbers of sprints users enter
    Positions, Dates,    \* periods and weeks users enter
    Posted,              \* periods sent to the POST that validates none
    ServiceIds,          \* initiatives that forms may create as service cards
    Arrows,              \* pairs of ends users connect
    Plans,               \* rows users send in the PUT of Pre PI
    Boards,              \* snapshots users send for the team boards
    None                 \* no start, sprint, week, date or story

(* What the two columns of a row can hold. *)
Position == [sprint : Int \cup {None}, week : Int \cup {None}]

Entities == Initiatives \cup Stories \cup WorkItems

(* A snapshot gives some initiatives a row with all their children; a work *)
(* item names the story of the snapshot it belongs to, or none.            *)
Snapshot(board) ==
    /\ DOMAIN board \subseteq Initiatives
    /\ \A i \in DOMAIN board :
           /\ board[i].on_board \in BOOLEAN
           /\ board[i].at \in Position
           /\ DOMAIN board[i].stories \subseteq Stories
           /\ \A s \in DOMAIN board[i].stories : board[i].stories[s] \in Position
           /\ DOMAIN board[i].items \subseteq WorkItems
           /\ \A w \in DOMAIN board[i].items :
                  board[i].items[w].at \in Position /\ board[i].items[w].date \in Dates \cup {None}

ASSUME PlanBoardAssumption ==
    /\ None \notin Int \cup Entities
    /\ Initiatives \cap Stories = {}
    /\ Initiatives \cap WorkItems = {}
    /\ Stories \cap WorkItems = {}
    /\ Starts \subseteq Int \cup {None}
    /\ Counts \subseteq Nat \ {0}
    /\ Dates \subseteq Int
    /\ Positions \cup Posted \subseteq Position
    /\ ServiceIds \subseteq Initiatives
    /\ Arrows \subseteq Entities \X Entities
    /\ \A plan \in Plans :
           /\ DOMAIN plan \subseteq Initiatives
           /\ plan \in [DOMAIN plan -> [on_board : BOOLEAN, at : Position]]
    /\ \A board \in Boards : Snapshot(board)

VARIABLES
    schedule,     \* start_date (as a week) and sprint_count of the cycle
    initiatives,  \* the rows of each table, by id
    stories,
    items,
    connections   \* the source and the target of each arrow

vars == <<schedule, initiatives, stories, items, connections>>

InSprint(sprint) == [sprint |-> sprint, week |-> None]

Unplanned == InSprint(None)

TypeOK ==
    /\ schedule.start \in Int \cup {None} /\ schedule.count \in Nat \ {0}
    /\ DOMAIN initiatives \subseteq Initiatives
    /\ \A i \in DOMAIN initiatives :
           initiatives[i] \in [on_board : BOOLEAN, generated : BOOLEAN, at : Position]
    /\ DOMAIN stories \subseteq Stories
    /\ \A s \in DOMAIN stories : stories[s] \in [of : DOMAIN initiatives, at : Position]
    /\ DOMAIN items \subseteq WorkItems
    /\ \A w \in DOMAIN items :
           /\ items[w] \in [of : DOMAIN initiatives, story : DOMAIN stories \cup {None},
                            at : Position, date : Int \cup {None}]
           /\ items[w].story # None => stories[items[w].story].of = items[w].of
    /\ DOMAIN connections \subseteq ConnectionIds
    /\ \A c \in DOMAIN connections : connections[c] \in Entities \X Entities

Empty == [x \in {} |-> x]

Init ==
    /\ \E start \in Starts, count \in Counts :
           schedule = [start |-> start, count |-> count]
    /\ initiatives = Empty
    /\ stories = Empty
    /\ items = Empty
    /\ connections = Empty

-----------------------------------------------------------------------------
With(f, x, v) == [y \in DOMAIN f \cup {x} |-> IF y = x THEN v ELSE f[y]]

Except(f, S) == [y \in DOMAIN f \ S |-> f[y]]

StoriesOf(i) == {s \in DOMAIN stories : stories[s].of = i}

ItemsOf(i) == {w \in DOMAIN items : items[w].of = i}

OnBoard(i) == i \in DOMAIN initiatives /\ initiatives[i].on_board

(* Initiatives made for a request of another one. *)
ServiceCards == {i \in DOMAIN initiatives : initiatives[i].generated}

(* Arrows that start or end at a member of S. *)
ArrowsAt(S) ==
    {c \in DOMAIN connections : connections[c][1] \in S \/ connections[c][2] \in S}

(* p is in a later sprint than q, or in a later week of the same sprint; *)
(* what is not planned is not compared.                                  *)
After(p, q) ==
    /\ p.sprint # None
    /\ q.sprint # None
    /\ \/ p.sprint > q.sprint
       \/ /\ p.sprint = q.sprint
          /\ p.week # None
          /\ q.week # None
          /\ p.week > q.week

(* A sprint is one of the schedule's; a week is one of its two, and needs it. *)
InSprints(p) ==
    IF p.sprint = None THEN p.week = None
    ELSE p.sprint >= 0 /\ p.sprint < schedule.count /\ p.week \in {0, 1, None}

ChildrenFit(i, p) ==
    /\ \A s \in StoriesOf(i) : ~ After(stories[s].at, p)
    /\ \A w \in ItemsOf(i) : ~ After(items[w].at, p)

DateInCycle(d) ==
    /\ schedule.start # None
    /\ d >= schedule.start
    /\ d < schedule.start + 2 * schedule.count

PeriodOf(d) == [sprint |-> (d - schedule.start) \div 2, week |-> (d - schedule.start) % 2]

(* A date, where one is given, is in the cycle and overrides the position. *)
Dated(d, p) == IF d = None THEN p ELSE PeriodOf(d)

Datable(d) == d # None => DateInCycle(d)

(* Mutant of Remove: the arrows stay. *)
RemoveRows(gone) ==
    /\ initiatives' = Except(initiatives, gone)
    /\ stories' = Except(stories, gone)
    /\ items' = Except(items, gone)
    /\ UNCHANGED connections

(* Rows of the three tables disappear, and the arrows at them with them. *)
Remove(gone) ==
    /\ initiatives' = Except(initiatives, gone)
    /\ stories' = Except(stories, gone)
    /\ items' = Except(items, gone)
    /\ connections' = Except(connections, ArrowsAt(gone))

-----------------------------------------------------------------------------
(* Pre PI.  The older POST stores a position as it is sent. *)
CreateInitiative(i, at) ==
    /\ i \notin DOMAIN initiatives
    /\ initiatives' = With(initiatives, i, [on_board |-> FALSE, generated |-> FALSE, at |-> at])
    /\ UNCHANGED <<schedule, stories, items, connections>>

(* A dispatch from the backlog: what exists, a service card included, is the *)
(* item's from now on and keeps its plan.                                    *)
Dispatch(S) ==
    /\ initiatives' = [i \in DOMAIN initiatives \cup S |->
           IF i \notin S THEN initiatives[i]
           ELSE IF i \in DOMAIN initiatives
           THEN [initiatives[i] EXCEPT !.generated = FALSE]
           ELSE [on_board |-> FALSE, generated |-> FALSE, at |-> Unplanned]]
    /\ UNCHANGED <<schedule, stories, items, connections>>

Publish(S) ==
    /\ S \subseteq DOMAIN initiatives
    /\ initiatives' = [i \in DOMAIN initiatives |->
           IF i \in S THEN [initiatives[i] EXCEPT !.on_board = TRUE] ELSE initiatives[i]]
    /\ UNCHANGED <<schedule, stories, items, connections>>

(* Back to the backlog: plan, children and arrows stay. *)
Withdraw(i) ==
    /\ OnBoard(i)
    /\ initiatives' = [initiatives EXCEPT ![i].on_board = FALSE]
    /\ UNCHANGED <<schedule, stories, items, connections>>

DeleteInitiative(i, confirm) ==
    /\ i \in DOMAIN initiatives
    /\ OnBoard(i) \/ StoriesOf(i) # {} \/ ItemsOf(i) # {} => confirm
    /\ Remove({i} \cup StoriesOf(i) \cup ItemsOf(i))
    /\ UNCHANGED schedule

(* The initiatives become these; what goes takes children and arrows along. *)
Replaced(rows) ==
    LET gone == {i \in DOMAIN initiatives : i \notin DOMAIN rows}
        lost == {s \in DOMAIN stories : stories[s].of \in gone}
                \cup {w \in DOMAIN items : items[w].of \in gone}
    IN /\ initiatives' = rows
       /\ stories' = Except(stories, lost)
       /\ items' = Except(items, lost)
       /\ connections' = Except(connections, ArrowsAt(gone \cup lost))

(* j is asked for in the sprint asked[j], or in none.  A service card that  *)
(* is not on the boards, new or withdrawn, is put into that sprint, whatever *)
(* children it still has, and without a sprint it is published.             *)
Served(rows, asked) ==
    [j \in DOMAIN rows \cup DOMAIN asked |->
        IF /\ j \in DOMAIN asked
           /\ j \in DOMAIN rows => rows[j].generated /\ ~ rows[j].on_board
        THEN [on_board |-> asked[j] = None, generated |-> TRUE, at |-> InSprint(asked[j])]
        ELSE rows[j]]

(* The form of an initiative writes its requests; service cards that nobody *)
(* asks for any more go unconfirmed.                                        *)
EditExecutors(i, asked, gone) ==
    /\ i \in DOMAIN initiatives \ DOMAIN asked
    /\ \A j \in DOMAIN asked : InSprints(InSprint(asked[j]))
    /\ gone \subseteq ServiceCards \ ({i} \cup DOMAIN asked)
    /\ Replaced(Except(Served(initiatives, asked), gone))
    /\ UNCHANGED schedule

(* PUT: every initiative gets its row, each with the requests of a form;    *)
(* those without a row go, and so do service cards that the forms abandon.  *)
(* Positions are validated, but not against stories and work items.         *)
PutPrePI(plan, asked) ==
    LET row(i) == [on_board |-> plan[i].on_board, generated |-> i \in ServiceCards,
                   at |-> plan[i].at]
    IN /\ \A i \in DOMAIN plan : InSprints(plan[i].at)
       /\ \A j \in DOMAIN asked :
              /\ InSprints(InSprint(asked[j]))
              /\ DOMAIN plan \ {j} # {}
              /\ j \in DOMAIN initiatives => j \in DOMAIN plan
       /\ Replaced(Served([i \in DOMAIN plan |-> row(i)], asked))
       /\ UNCHANGED schedule

-----------------------------------------------------------------------------
(* Team boards: commands on published initiatives. *)
RescheduleInitiative(i, at) ==
    /\ OnBoard(i)
    /\ InSprints(at)
    /\ ChildrenFit(i, at)
    /\ initiatives' = [initiatives EXCEPT ![i].at = at]
    /\ UNCHANGED <<schedule, stories, items, connections>>

CreateStory(s, i, at) ==
    /\ OnBoard(i)
    /\ s \notin DOMAIN stories
    /\ InSprints(at)
    /\ ~ After(at, initiatives[i].at)
    /\ stories' = With(stories, s, [of |-> i, at |-> at])
    /\ UNCHANGED <<schedule, initiatives, items, connections>>

MoveStory(s, at) ==
    /\ s \in DOMAIN stories
    /\ OnBoard(stories[s].of)
    /\ InSprints(at)
    /\ ~ After(at, initiatives[stories[s].of].at)
    /\ stories' = [stories EXCEPT ![s].at = at]
    /\ UNCHANGED <<schedule, initiatives, items, connections>>

(* Mutant of DeleteStory: its work items are not looked at for arrows. *)
DeleteStoryAlone(s, confirm) ==
    /\ s \in DOMAIN stories
    /\ OnBoard(stories[s].of)
    /\ LET children == {w \in DOMAIN items : items[w].story = s}
       IN /\ ArrowsAt({s}) # {} => confirm
          /\ Remove({s} \cup children)
    /\ UNCHANGED schedule

DeleteStory(s, confirm) ==
    /\ s \in DOMAIN stories
    /\ OnBoard(stories[s].of)
    /\ LET children == {w \in DOMAIN items : items[w].story = s}
       IN /\ children # {} \/ ArrowsAt({s} \cup children) # {} => confirm
          /\ Remove({s} \cup children)
    /\ UNCHANGED schedule

(* Mutant of CreateItem: any story is taken. *)
CreateItemAnywhere(w, i, story, at, date) ==
    /\ OnBoard(i)
    /\ w \notin DOMAIN items
    /\ story \in DOMAIN stories \cup {None}
    /\ Datable(date)
    /\ InSprints(Dated(date, at))
    /\ ~ After(Dated(date, at), initiatives[i].at)
    /\ items' = With(items, w, [of |-> i, story |-> story, at |-> Dated(date, at), date |-> date])
    /\ UNCHANGED <<schedule, initiatives, stories, connections>>

CreateItem(w, i, story, at, date) ==
    /\ OnBoard(i)
    /\ w \notin DOMAIN items
    /\ story \in StoriesOf(i) \cup {None}
    /\ Datable(date)
    /\ InSprints(Dated(date, at))
    /\ ~ After(Dated(date, at), initiatives[i].at)
    /\ items' = With(items, w, [of |-> i, story |-> story, at |-> Dated(date, at), date |-> date])
    /\ UNCHANGED <<schedule, initiatives, stories, connections>>

(* An update of a work item may give it another story, or none.  With a     *)
(* date it moves to the period of the date.                                 *)
DateItem(w, story, date) ==
    /\ w \in DOMAIN items
    /\ OnBoard(items[w].of)
    /\ story \in StoriesOf(items[w].of) \cup {None}
    /\ DateInCycle(date)
    /\ ~ After(PeriodOf(date), initiatives[items[w].of].at)
    /\ items' = [items EXCEPT ![w].story = story, ![w].date = date, ![w].at = PeriodOf(date)]
    /\ UNCHANGED <<schedule, initiatives, stories, connections>>

(* Mutant of MoveItem: the date stays. *)
MoveItemOnly(w, story, at) ==
    /\ w \in DOMAIN items
    /\ OnBoard(items[w].of)
    /\ story \in StoriesOf(items[w].of) \cup {None}
    /\ InSprints(at)
    /\ ~ After(at, initiatives[items[w].of].at)
    /\ items' = [items EXCEPT ![w].story = story, ![w].at = at]
    /\ UNCHANGED <<schedule, initiatives, stories, connections>>

(* With a position and no date it moves there and loses its date. *)
MoveItem(w, story, at) ==
    /\ w \in DOMAIN items
    /\ OnBoard(items[w].of)
    /\ story \in StoriesOf(items[w].of) \cup {None}
    /\ InSprints(at)
    /\ ~ After(at, initiatives[items[w].of].at)
    /\ items' = [items EXCEPT ![w].story = story, ![w].date = None, ![w].at = at]
    /\ UNCHANGED <<schedule, initiatives, stories, connections>>

(* With neither it stays where it is; its date may be cleared. *)
RelinkItem(w, story, date) ==
    /\ w \in DOMAIN items
    /\ OnBoard(items[w].of)
    /\ story \in StoriesOf(items[w].of) \cup {None}
    /\ date \in {items[w].date, None}
    /\ items' = [items EXCEPT ![w].story = story, ![w].date = date]
    /\ UNCHANGED <<schedule, initiatives, stories, connections>>

DeleteItem(w, confirm) ==
    /\ w \in DOMAIN items
    /\ OnBoard(items[w].of)
    /\ ArrowsAt({w}) # {} => confirm
    /\ Remove({w})
    /\ UNCHANGED schedule

(* The snapshot of a team board replaces what its initiatives hold and names *)
(* each child once.  New positions of the children are compared with the new *)
(* one of the parent.                                                        *)
BoardAccepted(board) ==
    /\ DOMAIN board \subseteq DOMAIN initiatives
    /\ \A i, j \in DOMAIN board : i # j =>
           /\ DOMAIN board[i].stories \cap DOMAIN board[j].stories = {}
           /\ DOMAIN board[i].items \cap DOMAIN board[j].items = {}
    /\ \A i \in DOMAIN board :
           /\ InSprints(board[i].at)
           /\ \A s \in DOMAIN board[i].stories :
                  /\ s \in DOMAIN stories => stories[s].of = i
                  /\ InSprints(board[i].stories[s])
                  /\ ~ After(board[i].stories[s], board[i].at)
           /\ \A w \in DOMAIN board[i].items :
                  LET item == board[i].items[w]
                  IN /\ w \in DOMAIN items => items[w].of = i
                     /\ item.story \in DOMAIN board[i].stories \cup {None}
                     /\ Datable(item.date)
                     /\ InSprints(Dated(item.date, item.at))
                     /\ ~ After(Dated(item.date, item.at), board[i].at)

PutTeamBoard(board) ==
    LET written == DOMAIN board
        desired == UNION {DOMAIN board[i].stories \cup DOMAIN board[i].items : i \in written}
        lost == (UNION {StoriesOf(i) \cup ItemsOf(i) : i \in written}) \ desired
        Owner(x) == CHOOSE i \in written :
                        x \in DOMAIN board[i].stories \cup DOMAIN board[i].items
    IN /\ BoardAccepted(board)
       /\ initiatives' = [i \in DOMAIN initiatives |->
              IF i \in written
              THEN [initiatives[i] EXCEPT !.on_board = board[i].on_board, !.at = board[i].at]
              ELSE initiatives[i]]
       /\ stories' = [s \in (DOMAIN stories \ lost) \cup (desired \cap Stories) |->
              IF s \in desired THEN [of |-> Owner(s), at |-> board[Owner(s)].stories[s]]
              ELSE stories[s]]
       /\ items' = [w \in (DOMAIN items \ lost) \cup (desired \cap WorkItems) |->
              IF w \in desired
              THEN LET item == board[Owner(w)].items[w]
                   IN [of |-> Owner(w), story |-> item.story,
                       at |-> Dated(item.date, item.at), date |-> item.date]
              ELSE items[w]]
       /\ connections' = Except(connections, ArrowsAt(lost))
       /\ UNCHANGED schedule

-----------------------------------------------------------------------------
(* Program board. *)
(* Mutant of MoveOnProgramBoard: the children are not compared. *)
MoveWithoutChildren(i, sprint) ==
    LET at == InSprint(sprint)
    IN /\ OnBoard(i)
       /\ sprint # None
       /\ InSprints(at)
       /\ initiatives' = [initiatives EXCEPT ![i].at = at]
       /\ UNCHANGED <<schedule, stories, items, connections>>

MoveOnProgramBoard(i, sprint) ==
    LET at == InSprint(sprint)
    IN /\ OnBoard(i)
       /\ sprint # None
       /\ InSprints(at)
       /\ ChildrenFit(i, at)
       /\ initiatives' = [initiatives EXCEPT ![i].at = at]
       /\ UNCHANGED <<schedule, stories, items, connections>>

(* An end a focused command may name: a published initiative, or a child of one. *)
Reachable(x) ==
    \/ OnBoard(x)
    \/ x \in DOMAIN stories /\ OnBoard(stories[x].of)
    \/ x \in DOMAIN items /\ OnBoard(items[x].of)

Exists(x) == x \in DOMAIN initiatives \cup DOMAIN stories \cup DOMAIN items

Available(c, arrow) ==
    /\ arrow[1] # arrow[2]
    /\ \A d \in DOMAIN connections \ {c} : connections[d] # arrow

Connect(c, arrow) ==
    /\ c \notin DOMAIN connections
    /\ Reachable(arrow[1])
    /\ Reachable(arrow[2])
    /\ Available(c, arrow)
    /\ connections' = With(connections, c, arrow)
    /\ UNCHANGED <<schedule, initiatives, stories, items>>

(* Only an end that is given has to be on the board. *)
Reconnect(c, arrow) ==
    /\ c \in DOMAIN connections
    /\ Reachable(arrow[1]) \/ arrow[1] = connections[c][1]
    /\ Reachable(arrow[2]) \/ arrow[2] = connections[c][2]
    /\ Available(c, arrow)
    /\ connections' = [connections EXCEPT ![c] = arrow]
    /\ UNCHANGED <<schedule, initiatives, stories, items>>

Disconnect(c) ==
    /\ c \in DOMAIN connections
    /\ connections' = Except(connections, {c})
    /\ UNCHANGED <<schedule, initiatives, stories, items>>

(* A row that takes over the arrow of another needs that one to be updated  *)
(* before it: a row to be deleted keeps its arrow until all are written,    *)
(* and rows that pass arrows around in a circle never get through.          *)
Flushable(map) ==
    LET Holder(c, d) == d # c /\ connections[d] = map[c]
    IN /\ \A c \in DOMAIN map, d \in DOMAIN connections : Holder(c, d) => d \in DOMAIN map
       /\ ~ \E S \in (SUBSET (DOMAIN map \cap DOMAIN connections)) \ {{}} :
                \A c \in S : \E d \in S : Holder(c, d)

PutProgramBoard(map) ==
    /\ \A c \in DOMAIN map :
           /\ Exists(map[c][1])
           /\ Exists(map[c][2])
           /\ map[c][1] # map[c][2]
           /\ \A d \in DOMAIN map \ {c} : map[d] # map[c]
    /\ Flushable(map)
    /\ connections' = map
    /\ UNCHANGED <<schedule, initiatives, stories, items>>

-----------------------------------------------------------------------------
(* Cycle data. *)
Beyond(p, count) == p.sprint # None /\ p.sprint >= count

Unassigned(p, count) == IF Beyond(p, count) THEN Unplanned ELSE p

(* A shorter schedule takes the plan off what falls out of it, if told to. *)
UpdateCycle(start, count, unassign) ==
    /\ \/ unassign
       \/ /\ \A i \in DOMAIN initiatives : ~ Beyond(initiatives[i].at, count)
          /\ \A s \in DOMAIN stories : ~ Beyond(stories[s].at, count)
          /\ \A w \in DOMAIN items : ~ Beyond(items[w].at, count)
    /\ schedule' = [start |-> start, count |-> count]
    /\ initiatives' = [i \in DOMAIN initiatives |->
                          [initiatives[i] EXCEPT !.at = Unassigned(@, count)]]
    /\ stories' = [s \in DOMAIN stories |-> [stories[s] EXCEPT !.at = Unassigned(@, count)]]
    /\ items' = [w \in DOMAIN items |-> [items[w] EXCEPT !.at = Unassigned(@, count)]]
    /\ UNCHANGED connections

(* PATCH of the cycle and PUT of its setup only store the schedule. *)
StoreSchedule(start, count) ==
    /\ schedule' = [start |-> start, count |-> count]
    /\ UNCHANGED <<initiatives, stories, items, connections>>

(* The last executor team of an initiative is taken out of the cycle. *)
ResetInitiative(i) ==
    /\ i \in DOMAIN initiatives
    /\ LET lost == StoriesOf(i) \cup ItemsOf(i)
       IN /\ initiatives' = [initiatives EXCEPT ![i].on_board = FALSE, ![i].at = Unplanned]
          /\ stories' = Except(stories, lost)
          /\ items' = Except(items, lost)
          /\ connections' = Except(connections, ArrowsAt(lost))
    /\ UNCHANGED schedule

(* A team loses a competency, and its work items of that competency go. *)
DropItems(W) ==
    /\ W \subseteq DOMAIN items
    /\ Remove(W)
    /\ UNCHANGED schedule

-----------------------------------------------------------------------------
(* What forms ask for: requests for other initiatives leave them as they are. *)
Requests ==
    UNION {[S -> {p.sprint : p \in Positions} \cup {None}] : S \in SUBSET ServiceIds}

Maps == UNION {[S -> Arrows] : S \in SUBSET ConnectionIds}

PrePICommand ==
    \/ \E i \in Initiatives, at \in Posted : CreateInitiative(i, at)
    \/ \E S \in SUBSET Initiatives : Dispatch(S) \/ Publish(S)
    \/ \E i \in Initiatives : Withdraw(i)
    \/ \E i \in Initiatives, confirm \in BOOLEAN : DeleteInitiative(i, confirm)
    \/ \E i \in Initiatives, asked \in Requests, gone \in SUBSET ServiceCards :
           EditExecutors(i, asked, gone)
    \/ \E plan \in Plans, asked \in Requests : PutPrePI(plan, asked)

TeamBoardCommand ==
    \/ \E i \in Initiatives, at \in Positions : RescheduleInitiative(i, at)
    \/ \E s \in Stories, i \in Initiatives, at \in Positions : CreateStory(s, i, at)
    \/ \E s \in Stories, at \in Positions : MoveStory(s, at)
    \/ \E s \in Stories, confirm \in BOOLEAN : DeleteStory(s, confirm)
    \/ \E w \in WorkItems, i \in Initiatives, story \in Stories \cup {None},
          at \in Positions, date \in Dates \cup {None} : CreateItem(w, i, story, at, date)
    \/ \E w \in WorkItems, story \in Stories \cup {None}, date \in Dates : DateItem(w, story, date)
    \/ \E w \in WorkItems, story \in Stories \cup {None}, at \in Positions : MoveItem(w, story, at)
    \/ \E w \in WorkItems, story \in Stories \cup {None}, date \in Dates \cup {None} :
           RelinkItem(w, story, date)
    \/ \E w \in WorkItems, confirm \in BOOLEAN : DeleteItem(w, confirm)
    \/ \E board \in Boards : PutTeamBoard(board)

ProgramBoardCommand ==
    \/ \E i \in Initiatives, at \in Positions : MoveOnProgramBoard(i, at.sprint)
    \/ \E c \in ConnectionIds, arrow \in Arrows : Connect(c, arrow)
    \/ \E c \in ConnectionIds, arrow \in Arrows : Reconnect(c, arrow)
    \/ \E c \in ConnectionIds : Disconnect(c)
    \/ \E map \in Maps : PutProgramBoard(map)

CycleCommand ==
    \/ \E start \in Starts, count \in Counts, unassign \in BOOLEAN :
           UpdateCycle(start, count, unassign)
    \/ \E start \in Starts, count \in Counts : StoreSchedule(start, count)
    \/ \E i \in Initiatives : ResetInitiative(i)
    \/ \E W \in SUBSET WorkItems : DropItems(W)

Next == PrePICommand \/ TeamBoardCommand \/ ProgramBoardCommand \/ CycleCommand

Spec == Init /\ [][Next]_vars

-----------------------------------------------------------------------------
(* Every arrow joins two different rows that exist, whatever cascade took   *)
(* rows away, and no two arrows are the same: delete_dangling_connections   *)
(* ends the commands that delete, connections name their ends by kind and   *)
(* id without a foreign key, and a withdrawn initiative keeps its arrows.   *)
ArrowsLive ==
    \A c \in DOMAIN connections :
        /\ Exists(connections[c][1]) /\ Exists(connections[c][2])
        /\ connections[c][1] # connections[c][2]
        /\ \A d \in DOMAIN connections \ {c} : connections[d] # connections[c]

Children == DOMAIN stories \cup DOMAIN items

Child(x) == IF x \in DOMAIN stories THEN stories[x] ELSE items[x]

(* Children later than the initiative they belong to. *)
Late == {x \in Children : After(Child(x).at, initiatives[Child(x).of].at)}

(* Team boards, program board and cycle data never make a child late: moving *)
(* it, moving the parent on either board, or a snapshot of both.  The PUT of *)
(* Pre PI may, and a form that asks again for a service card which was       *)
(* withdrawn and kept its children.                                          *)
LateByPrePI ==
    [][\/ \A x \in Late' :
              \/ x \in Late
              \/ x \in Children /\ Child(x).of \in ServiceCards /\ ~ OnBoard(Child(x).of)
       \/ \E plan \in Plans, asked \in Requests : PutPrePI(plan, asked)]_vars

(* Rows outside the sprints of the schedule. *)
Outside ==
    {i \in DOMAIN initiatives : ~ InSprints(initiatives[i].at)}
    \cup {x \in Children : ~ InSprints(Child(x).at)}

(* Work items whose period is not that of their date. *)
Misdated ==
    {w \in DOMAIN items :
        /\ items[w].date # None
        /\ ~ (DateInCycle(items[w].date) /\ items[w].at = PeriodOf(items[w].date))}

(* Once in the schedule a row stays in it, a shorter schedule included, and *)
(* a date and its period stay together: what breaks the first is a schedule *)
(* stored without a look at the rows or the unvalidated POST, and what      *)
(* breaks the second is a new schedule.                                     *)
PlanInSchedule ==
    [][/\ \/ Outside' \subseteq Outside
          \/ \E start \in Starts, count \in Counts : StoreSchedule(start, count)
          \/ \E i \in Initiatives, at \in Posted : CreateInitiative(i, at)
       /\ Misdated' \subseteq Misdated \/ schedule' # schedule]_vars

Rows == DOMAIN initiatives \cup DOMAIN stories \cup DOMAIN items

Unconfirmed ==
    \/ \E i \in Initiatives : DeleteInitiative(i, FALSE)
    \/ \E s \in Stories : DeleteStory(s, FALSE)
    \/ \E w \in WorkItems : DeleteItem(w, FALSE)

(* A focused delete that was not confirmed takes one row and no arrow, with *)
(* one exception: arrows that a withdrawn initiative still has at the rows  *)
(* of others go with it, as no delete of an initiative looks at arrows.     *)
LossesConfirmed ==
    [][Unconfirmed =>
          \E x \in Rows : /\ Rows' = Rows \ {x}
                          /\ \A c \in DOMAIN connections \ DOMAIN connections' :
                                 x \in Initiatives /\ ~ OnBoard(x) /\ c \in ArrowsAt({x})]_vars
=============================================================================
