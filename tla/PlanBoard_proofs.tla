-------------------------- MODULE PlanBoard_proofs --------------------------
(***************************************************************************)
(* Proofs about PlanBoard for any sets of rows, positions, arrows and      *)
(* snapshots: no cascade leaves an arrow behind, what is not confirmed     *)
(* takes one row only, children stay no later than their initiative and    *)
(* rows inside the schedule but for the commands named.                    *)
(***************************************************************************)
EXTENDS PlanBoard, TLAPS

(* The ends of an arrow are rows, and the arrow is the only one of its kind. *)
Drawn(c) ==
    /\ Exists(connections[c][1]) /\ Exists(connections[c][2])
    /\ connections[c][1] # connections[c][2]
    /\ \A d \in DOMAIN connections \ {c} : connections[d] # connections[c]

LEMMA ArrowsDrawn == ArrowsLive <=> \A c \in DOMAIN connections : Drawn(c)
BY DEF ArrowsLive, Drawn

(* Rows may come, and those that go take their arrows with them. *)
LEMMA Swept ==
    ASSUME ArrowsLive, NEW gone,
           connections' = Except(connections, ArrowsAt(gone)),
           Rows \ gone \subseteq Rows'
    PROVE  ArrowsLive'
<1> SUFFICES ASSUME NEW c \in DOMAIN connections'
             PROVE  Drawn(c)'
  BY DEF ArrowsLive, Drawn
<1>1. /\ DOMAIN connections' = DOMAIN connections \ ArrowsAt(gone)
      /\ \A d \in DOMAIN connections' : connections'[d] = connections[d]
  BY DEF Except
<1>2. Drawn(c)
  BY <1>1, ArrowsDrawn
<1>3. connections[c][1] \in Rows \ gone /\ connections[c][2] \in Rows \ gone
  BY <1>1, <1>2 DEF Drawn, Exists, Rows, ArrowsAt
<1>4. Exists(connections[c][1])' /\ Exists(connections[c][2])'
  BY <1>1, <1>3 DEF Exists, Rows
<1> QED
  BY <1>1, <1>2, <1>4 DEF Drawn

(* No arrow changes, and no row goes. *)
LEMMA Untouched ==
    ASSUME ArrowsLive, connections' = connections, Rows \subseteq Rows'
    PROVE  ArrowsLive'
<1>1. \A x : Exists(x) => Exists(x)'
  BY DEF Exists, Rows
<1> QED
  BY <1>1 DEF ArrowsLive

LEMMA RemoveSweeps ==
    ASSUME NEW gone, Remove(gone)
    PROVE  /\ connections' = Except(connections, ArrowsAt(gone))
           /\ Rows' = Rows \ gone
BY DEF Remove, Rows, Except

(* What a replacement of the initiatives takes away. *)
Forgone(rows) == {i \in DOMAIN initiatives : i \notin DOMAIN rows}

Orphans(rows) ==
    {s \in DOMAIN stories : stories[s].of \in Forgone(rows)}
    \cup {w \in DOMAIN items : items[w].of \in Forgone(rows)}

LEMMA Replacing ==
    ASSUME NEW rows, Replaced(rows)
    PROVE  /\ initiatives' = rows
           /\ stories' = Except(stories, Orphans(rows))
           /\ items' = Except(items, Orphans(rows))
           /\ connections' = Except(connections, ArrowsAt(Forgone(rows) \cup Orphans(rows)))
BY DEF Replaced, Forgone, Orphans

LEMMA ReplacedSweeps ==
    ASSUME ArrowsLive, NEW rows, Replaced(rows)
    PROVE  ArrowsLive'
<1> DEFINE gone == Forgone(rows) \cup Orphans(rows)
<1>1. connections' = Except(connections, ArrowsAt(gone))
  BY Replacing
<1>2. /\ DOMAIN initiatives \ gone \subseteq DOMAIN initiatives'
      /\ DOMAIN stories' = DOMAIN stories \ Orphans(rows)
      /\ DOMAIN items' = DOMAIN items \ Orphans(rows)
  BY Replacing DEF Except, Forgone
<1>3. Rows \ gone \subseteq Rows'
  BY <1>2 DEF Rows
<1> HIDE DEF gone
<1> QED
  BY <1>1, <1>3, Swept

LEMMA PrePIKeepsArrows == ArrowsLive /\ PrePICommand => ArrowsLive'
<1> SUFFICES ASSUME ArrowsLive, PrePICommand
             PROVE  ArrowsLive'
  OBVIOUS
<1>1. ASSUME NEW i, NEW at, CreateInitiative(i, at)
      PROVE  ArrowsLive'
  <2>1. Rows \subseteq Rows' /\ connections' = connections
    BY <1>1 DEF CreateInitiative, Rows, With
  <2> QED
    BY <2>1, Untouched
<1>2. ASSUME NEW S, Dispatch(S) \/ Publish(S)
      PROVE  ArrowsLive'
  <2>1. Rows \subseteq Rows' /\ connections' = connections
    BY <1>2 DEF Dispatch, Publish, Rows
  <2> QED
    BY <2>1, Untouched
<1>3. ASSUME NEW i, Withdraw(i)
      PROVE  ArrowsLive'
  <2>1. Rows \subseteq Rows' /\ connections' = connections
    BY <1>3 DEF Withdraw, Rows
  <2> QED
    BY <2>1, Untouched
<1>4. ASSUME NEW i, NEW confirm, DeleteInitiative(i, confirm)
      PROVE  ArrowsLive'
  BY <1>4, RemoveSweeps, Swept DEF DeleteInitiative
<1>5. ASSUME NEW i, NEW asked, NEW gone, EditExecutors(i, asked, gone)
      PROVE  ArrowsLive'
  BY <1>5, ReplacedSweeps DEF EditExecutors
<1>6. ASSUME NEW plan, NEW asked, PutPrePI(plan, asked)
      PROVE  ArrowsLive'
  BY <1>6, ReplacedSweeps DEF PutPrePI
<1> QED
  BY <1>1, <1>2, <1>3, <1>4, <1>5, <1>6 DEF PrePICommand

LEMMA TeamBoardKeepsArrows == ArrowsLive /\ TeamBoardCommand => ArrowsLive'
<1> SUFFICES ASSUME ArrowsLive, TeamBoardCommand
             PROVE  ArrowsLive'
  OBVIOUS
<1>1. ASSUME NEW i, NEW at, RescheduleInitiative(i, at)
      PROVE  ArrowsLive'
  <2>1. Rows \subseteq Rows' /\ connections' = connections
    BY <1>1 DEF RescheduleInitiative, Rows
  <2> QED
    BY <2>1, Untouched
<1>2. ASSUME NEW s, NEW i, NEW at, CreateStory(s, i, at) \/ MoveStory(s, at)
      PROVE  ArrowsLive'
  <2>1. Rows \subseteq Rows' /\ connections' = connections
    BY <1>2 DEF CreateStory, MoveStory, Rows, With
  <2> QED
    BY <2>1, Untouched
<1>3. ASSUME NEW s, NEW confirm, DeleteStory(s, confirm)
      PROVE  ArrowsLive'
  BY <1>3, RemoveSweeps, Swept DEF DeleteStory
<1>4. ASSUME NEW w, NEW i, NEW story, NEW at, NEW date, CreateItem(w, i, story, at, date)
      PROVE  ArrowsLive'
  <2>1. Rows \subseteq Rows' /\ connections' = connections
    BY <1>4 DEF CreateItem, Rows, With
  <2> QED
    BY <2>1, Untouched
<1>5. ASSUME NEW w, NEW story, NEW at, NEW date,
             DateItem(w, story, date) \/ MoveItem(w, story, at) \/ RelinkItem(w, story, date)
      PROVE  ArrowsLive'
  <2>1. Rows \subseteq Rows' /\ connections' = connections
    BY <1>5 DEF DateItem, MoveItem, RelinkItem, Rows
  <2> QED
    BY <2>1, Untouched
<1>6. ASSUME NEW w, NEW confirm, DeleteItem(w, confirm)
      PROVE  ArrowsLive'
  BY <1>6, RemoveSweeps, Swept DEF DeleteItem
<1>7. ASSUME NEW board, PutTeamBoard(board)
      PROVE  ArrowsLive'
  <2> DEFINE desired == UNION {DOMAIN board[i].stories \cup DOMAIN board[i].items :
                                   i \in DOMAIN board}
             lost == (UNION {StoriesOf(i) \cup ItemsOf(i) : i \in DOMAIN board}) \ desired
  <2>1. connections' = Except(connections, ArrowsAt(lost))
    BY <1>7 DEF PutTeamBoard
  <2>2. /\ DOMAIN initiatives' = DOMAIN initiatives
        /\ DOMAIN stories' = (DOMAIN stories \ lost) \cup (desired \cap Stories)
        /\ DOMAIN items' = (DOMAIN items \ lost) \cup (desired \cap WorkItems)
    BY <1>7 DEF PutTeamBoard
  <2> HIDE DEF lost, desired
  <2>3. Rows \ lost \subseteq Rows'
    BY <2>2 DEF Rows
  <2> QED
    BY <2>1, <2>3, Swept
<1> QED
  BY <1>1, <1>2, <1>3, <1>4, <1>5, <1>6, <1>7 DEF TeamBoardCommand

LEMMA ProgramBoardKeepsArrows == ArrowsLive /\ ProgramBoardCommand => ArrowsLive'
<1> SUFFICES ASSUME ArrowsLive, ProgramBoardCommand
             PROVE  ArrowsLive'
  OBVIOUS
<1>0. \A x : Reachable(x) => Exists(x)
  BY DEF Reachable, Exists, OnBoard
<1>1. ASSUME NEW i, NEW sprint, MoveOnProgramBoard(i, sprint)
      PROVE  ArrowsLive'
  <2>1. Rows \subseteq Rows' /\ connections' = connections
    BY <1>1 DEF MoveOnProgramBoard, Rows
  <2> QED
    BY <2>1, Untouched
<1>2. ASSUME NEW c, NEW arrow, Connect(c, arrow)
      PROVE  ArrowsLive'
  <2>1. \A x : Exists(x)' <=> Exists(x)
    BY <1>2 DEF Connect, Exists
  <2>2. Exists(arrow[1]) /\ Exists(arrow[2]) /\ Available(c, arrow) /\ c \notin DOMAIN connections
    BY <1>0, <1>2 DEF Connect
  <2>3. /\ DOMAIN connections' = DOMAIN connections \cup {c} /\ connections'[c] = arrow
        /\ \A d \in DOMAIN connections : connections'[d] = connections[d]
    BY <1>2, <2>2 DEF Connect, With
  <2> QED
    BY <2>1, <2>2, <2>3 DEF ArrowsLive, Available
<1>3. ASSUME NEW c, NEW arrow, Reconnect(c, arrow)
      PROVE  ArrowsLive'
  <2>1. \A x : Exists(x)' <=> Exists(x)
    BY <1>3 DEF Reconnect, Exists
  <2>2. Exists(arrow[1]) /\ Exists(arrow[2]) /\ Available(c, arrow) /\ c \in DOMAIN connections
    BY <1>0, <1>3 DEF Reconnect, ArrowsLive
  <2>3. /\ DOMAIN connections' = DOMAIN connections /\ connections'[c] = arrow
        /\ \A d \in DOMAIN connections \ {c} : connections'[d] = connections[d]
    BY <1>3, <2>2 DEF Reconnect
  <2> QED
    BY <2>1, <2>2, <2>3 DEF ArrowsLive, Available
<1>4. ASSUME NEW c, Disconnect(c)
      PROVE  ArrowsLive'
  <2>1. \A x : Exists(x)' <=> Exists(x)
    BY <1>4 DEF Disconnect, Exists
  <2>2. /\ DOMAIN connections' = DOMAIN connections \ {c}
        /\ \A d \in DOMAIN connections \ {c} : connections'[d] = connections[d]
    BY <1>4 DEF Disconnect, Except
  <2> QED
    BY <2>1, <2>2 DEF ArrowsLive
<1>5. ASSUME NEW map, PutProgramBoard(map)
      PROVE  ArrowsLive'
  <2>1. \A x : Exists(x)' <=> Exists(x)
    BY <1>5 DEF PutProgramBoard, Exists
  <2> QED
    BY <1>5, <2>1 DEF PutProgramBoard, ArrowsLive
<1> QED
  BY <1>1, <1>2, <1>3, <1>4, <1>5 DEF ProgramBoardCommand

LEMMA CycleKeepsArrows == ArrowsLive /\ CycleCommand => ArrowsLive'
<1> SUFFICES ASSUME ArrowsLive, CycleCommand
             PROVE  ArrowsLive'
  OBVIOUS
<1>1. ASSUME NEW start, NEW count, NEW unassign,
             UpdateCycle(start, count, unassign) \/ StoreSchedule(start, count)
      PROVE  ArrowsLive'
  <2>1. Rows \subseteq Rows' /\ connections' = connections
    BY <1>1 DEF UpdateCycle, StoreSchedule, Rows
  <2> QED
    BY <2>1, Untouched
<1>2. ASSUME NEW i, ResetInitiative(i)
      PROVE  ArrowsLive'
  <2> DEFINE lost == StoriesOf(i) \cup ItemsOf(i)
  <2>1. connections' = Except(connections, ArrowsAt(lost))
    BY <1>2 DEF ResetInitiative
  <2>2. Rows \ lost \subseteq Rows'
    BY <1>2 DEF ResetInitiative, Rows, Except
  <2> QED
    BY <2>1, <2>2, Swept
<1>3. ASSUME NEW W, DropItems(W)
      PROVE  ArrowsLive'
  BY <1>3, RemoveSweeps, Swept DEF DropItems
<1> QED
  BY <1>1, <1>2, <1>3 DEF CycleCommand

-----------------------------------------------------------------------------
(* Types, table by table. *)
InitiativesOK ==
    /\ DOMAIN initiatives \subseteq Initiatives
    /\ \A i \in DOMAIN initiatives :
           initiatives[i] \in [on_board : BOOLEAN, generated : BOOLEAN, at : Position]

StoriesOK ==
    /\ DOMAIN stories \subseteq Stories
    /\ \A s \in DOMAIN stories : stories[s] \in [of : DOMAIN initiatives, at : Position]

ItemsOK ==
    /\ DOMAIN items \subseteq WorkItems
    /\ \A w \in DOMAIN items :
           /\ items[w] \in [of : DOMAIN initiatives, story : DOMAIN stories \cup {None},
                            at : Position, date : Int \cup {None}]
           /\ items[w].story # None => stories[items[w].story].of = items[w].of

ArrowsOK ==
    /\ DOMAIN connections \subseteq ConnectionIds
    /\ \A c \in DOMAIN connections : connections[c] \in Entities \X Entities

ScheduleOK == schedule.start \in Int \cup {None} /\ schedule.count \in Nat \ {0}

Tables == ScheduleOK /\ InitiativesOK /\ StoriesOK /\ ItemsOK /\ ArrowsOK

LEMMA Types == (TypeOK <=> Tables) /\ (TypeOK' <=> Tables')
BY DEF TypeOK, Tables, ScheduleOK, InitiativesOK, StoriesOK, ItemsOK, ArrowsOK

LEMMA EmptySpot == Unplanned \in Position
BY PlanBoardAssumption DEF Unplanned, InSprint, Position

(* Forms ask for sprints, or for none. *)
LEMMA RequestedSprints ==
    ASSUME NEW asked \in Requests
    PROVE  /\ DOMAIN asked \subseteq ServiceIds
           /\ \A j \in DOMAIN asked : InSprint(asked[j]) \in Position
<1> DEFINE Sprints == {p.sprint : p \in Positions} \cup {None}
<1>1. PICK S \in SUBSET ServiceIds : asked \in [S -> Sprints]
  BY DEF Requests
<1>2. \A x \in Sprints : x \in Int \cup {None}
  BY PlanBoardAssumption DEF Position
<1> HIDE DEF Sprints
<1>3. \A x \in Sprints : InSprint(x) \in Position
  BY <1>2 DEF InSprint, Position
<1> QED
  BY <1>1, <1>3

(* A date in the cycle has a period, and it is one of the schedule's. *)
LEMMA PeriodInCycle ==
    ASSUME ScheduleOK, NEW d \in Int, DateInCycle(d)
    PROVE  PeriodOf(d) \in Position /\ PeriodOf(d).sprint # None /\ InSprints(PeriodOf(d))
<1>1. schedule.start \in Int /\ schedule.count \in Nat
  BY DEF ScheduleOK, DateInCycle
<1> DEFINE k == d - schedule.start
<1>2. k \in Int /\ k >= 0 /\ k < 2 * schedule.count
  BY <1>1 DEF DateInCycle
<1> HIDE DEF k
<1>3. k \div 2 \in Nat /\ k \div 2 < schedule.count /\ k % 2 \in {0, 1}
  BY <1>1, <1>2
<1>4. PeriodOf(d) = [sprint |-> k \div 2, week |-> k % 2]
  BY DEF PeriodOf, k
<1>5. k \div 2 # None
  BY <1>3, PlanBoardAssumption
<1> QED
  BY <1>3, <1>4, <1>5 DEF Position, InSprints

LEMMA DatedPosition ==
    ASSUME ScheduleOK, NEW d \in Dates \cup {None}, NEW p \in Position, Datable(d)
    PROVE  Dated(d, p) \in Position /\ d \in Int \cup {None}
BY PeriodInCycle, PlanBoardAssumption DEF Datable, Dated

(* Rows go, the children of what goes among them. *)
LEMMA RemovalTyped ==
    ASSUME TypeOK, NEW gone, InitiativesOK', UNCHANGED schedule,
           stories' = Except(stories, gone), items' = Except(items, gone),
           connections' = Except(connections, ArrowsAt(gone)),
           \A s \in DOMAIN stories \ gone : stories[s].of \in DOMAIN initiatives',
           \A w \in DOMAIN items \ gone :
               items[w].of \in DOMAIN initiatives' /\ items[w].story \notin gone
    PROVE  TypeOK'
<1> USE Types DEF Tables
<1>1. StoriesOK'
  BY DEF StoriesOK, Except
<1>2. ItemsOK'
  <2>1. DOMAIN items' = DOMAIN items \ gone /\ DOMAIN stories' = DOMAIN stories \ gone
    BY DEF Except
  <2>2. \A w \in DOMAIN items' : items'[w] = items[w]
    BY <2>1 DEF Except
  <2>3. \A s \in DOMAIN stories' : stories'[s] = stories[s]
    BY <2>1 DEF Except
  <2> SUFFICES ASSUME NEW w \in DOMAIN items'
               PROVE  /\ items[w] \in [of : DOMAIN initiatives', story : DOMAIN stories' \cup {None},
                                       at : Position, date : Int \cup {None}]
                      /\ items[w].story # None => stories'[items[w].story].of = items[w].of
    BY <2>1, <2>2 DEF ItemsOK
  <2> QED
    BY <2>1, <2>3 DEF ItemsOK
<1>3. ArrowsOK'
  BY DEF ArrowsOK, Except
<1> QED
  BY <1>1, <1>2, <1>3 DEF ScheduleOK

(* Only initiatives change, and none goes. *)
LEMMA InitiativesTyped ==
    ASSUME TypeOK, InitiativesOK', DOMAIN initiatives \subseteq DOMAIN initiatives',
           UNCHANGED <<schedule, stories, items, connections>>
    PROVE  TypeOK'
<1> USE Types DEF Tables
<1>1. StoriesOK'
  BY DEF StoriesOK
<1>2. ItemsOK'
  BY DEF ItemsOK
<1> QED
  BY <1>1, <1>2 DEF ScheduleOK, ArrowsOK

RowsOK(rows) ==
    /\ DOMAIN rows \subseteq Initiatives
    /\ \A i \in DOMAIN rows :
           rows[i] \in [on_board : BOOLEAN, generated : BOOLEAN, at : Position]

(* Requests make and place service cards, and leave the other rows. *)
LEMMA ServedOK ==
    ASSUME NEW rows, RowsOK(rows), NEW asked \in Requests
    PROVE  RowsOK(Served(rows, asked))
<1> DEFINE served == Served(rows, asked)
           taken(j) == /\ j \in DOMAIN asked
                       /\ j \in DOMAIN rows => rows[j].generated /\ ~ rows[j].on_board
<1>1. /\ DOMAIN served = DOMAIN rows \cup DOMAIN asked
      /\ \A j \in DOMAIN served :
             served[j] = IF taken(j)
                         THEN [on_board |-> asked[j] = None, generated |-> TRUE,
                               at |-> InSprint(asked[j])]
                         ELSE rows[j]
  BY DEF Served
<1>2. DOMAIN asked \subseteq Initiatives /\ \A j \in DOMAIN asked : InSprint(asked[j]) \in Position
  BY RequestedSprints, PlanBoardAssumption
<1> HIDE DEF served
<1>3. ASSUME NEW j \in DOMAIN served
      PROVE  served[j] \in [on_board : BOOLEAN, generated : BOOLEAN, at : Position]
  <2>1. CASE taken(j)
    <3>1. served[j] = [on_board |-> asked[j] = None, generated |-> TRUE, at |-> InSprint(asked[j])]
      BY <1>1, <2>1
    <3>2. InSprint(asked[j]) \in Position
      BY <1>2, <2>1
    <3>3. CASE asked[j] = None
      BY <3>1, <3>2, <3>3
    <3>4. CASE asked[j] # None
      BY <3>1, <3>2, <3>4
    <3> QED
      BY <3>3, <3>4
  <2>2. CASE ~ taken(j)
    BY <1>1, <2>2 DEF RowsOK
  <2> QED
    BY <2>1, <2>2
<1>4. RowsOK(served)
  BY <1>1, <1>2, <1>3 DEF RowsOK
<1> QED
  BY <1>4 DEF served

(* Initiatives that go take their stories and work items along. *)
LEMMA ReplacedTyped ==
    ASSUME TypeOK, NEW rows, RowsOK(rows), Replaced(rows), UNCHANGED schedule
    PROVE  TypeOK'
<1> USE Types DEF Tables
<1> DEFINE gone == Forgone(rows)
           lost == Orphans(rows)
<1>1. /\ initiatives' = rows
      /\ stories' = Except(stories, lost) /\ items' = Except(items, lost)
      /\ connections' = Except(connections, ArrowsAt(gone \cup lost))
  BY Replacing
<1>2. InitiativesOK'
  BY <1>1 DEF RowsOK, InitiativesOK
<1>3. gone \cap Stories = {} /\ gone \cap WorkItems = {}
  BY PlanBoardAssumption DEF InitiativesOK, Forgone
<1>4. /\ stories' = Except(stories, gone \cup lost)
      /\ items' = Except(items, gone \cup lost)
  BY <1>1, <1>3 DEF Except, StoriesOK, ItemsOK
<1>5. \A s \in DOMAIN stories \ (gone \cup lost) : stories[s].of \in DOMAIN initiatives'
  BY <1>1 DEF StoriesOK, Forgone, Orphans
<1>6. \A w \in DOMAIN items \ (gone \cup lost) :
          items[w].of \in DOMAIN initiatives' /\ items[w].story \notin gone \cup lost
  <2> SUFFICES ASSUME NEW w \in DOMAIN items \ (gone \cup lost)
               PROVE  items[w].of \in DOMAIN initiatives' /\ items[w].story \notin gone \cup lost
    OBVIOUS
  <2>1. items[w].of \in DOMAIN rows /\ items[w].of \notin gone
    BY DEF ItemsOK, Forgone, Orphans
  <2>2. items[w].story \notin gone
    BY <1>3, PlanBoardAssumption DEF ItemsOK, StoriesOK, InitiativesOK, Entities, Forgone
  <2>3. items[w].story \notin lost
    BY <2>1, PlanBoardAssumption DEF ItemsOK, StoriesOK, Entities, Orphans
  <2> QED
    BY <1>1, <2>1, <2>2, <2>3
<1> HIDE DEF gone, lost
<1> QED
  BY <1>1, <1>2, <1>4, <1>5, <1>6, RemovalTyped

LEMMA PrePITyped ==
    ASSUME TypeOK, PrePICommand
    PROVE  TypeOK'
<1> USE Types DEF Tables
<1>1. ASSUME NEW i \in Initiatives, NEW at \in Posted, CreateInitiative(i, at)
      PROVE  TypeOK'
  <2>1. InitiativesOK'
    BY <1>1, PlanBoardAssumption DEF CreateInitiative, InitiativesOK, With
  <2> QED
    BY <1>1, <2>1, InitiativesTyped DEF CreateInitiative, With
<1>6. ASSUME NEW S \in SUBSET Initiatives, Dispatch(S)
      PROVE  TypeOK'
  <2>1. /\ DOMAIN initiatives' = DOMAIN initiatives \cup S
        /\ \A i \in DOMAIN initiatives \ S : initiatives'[i] = initiatives[i]
        /\ \A i \in DOMAIN initiatives \cap S :
               initiatives'[i] = [initiatives[i] EXCEPT !.generated = FALSE]
        /\ \A i \in S \ DOMAIN initiatives :
               initiatives'[i] = [on_board |-> FALSE, generated |-> FALSE, at |-> Unplanned]
        /\ UNCHANGED <<schedule, stories, items, connections>>
    BY <1>6 DEF Dispatch
  <2>2. InitiativesOK'
    <3> SUFFICES ASSUME NEW i \in DOMAIN initiatives \cup S
                 PROVE  initiatives'[i] \in [on_board : BOOLEAN, generated : BOOLEAN, at : Position]
      BY <2>1 DEF InitiativesOK
    <3>1. i \in DOMAIN initiatives =>
              /\ initiatives[i] \in [on_board : BOOLEAN, generated : BOOLEAN, at : Position]
              /\ [initiatives[i] EXCEPT !.generated = FALSE]
                     \in [on_board : BOOLEAN, generated : BOOLEAN, at : Position]
      BY DEF InitiativesOK
    <3>2. CASE i \in DOMAIN initiatives
      BY <2>1, <3>1, <3>2
    <3>3. CASE i \in S \ DOMAIN initiatives
      <4>1. initiatives'[i] = [on_board |-> FALSE, generated |-> FALSE, at |-> Unplanned]
        BY <2>1, <3>3
      <4> QED
        BY <4>1, EmptySpot
    <3> QED
      BY <3>2, <3>3
  <2> QED
    BY <2>1, <2>2, InitiativesTyped
<1>2. ASSUME NEW S, Publish(S)
      PROVE  TypeOK'
  <2>1. InitiativesOK'
    BY <1>2 DEF Publish, InitiativesOK
  <2> QED
    BY <1>2, <2>1, InitiativesTyped DEF Publish
<1>3. ASSUME NEW i, Withdraw(i)
      PROVE  TypeOK'
  <2>1. InitiativesOK'
    BY <1>3 DEF Withdraw, InitiativesOK
  <2> QED
    BY <1>3, <2>1, InitiativesTyped DEF Withdraw
<1>4. ASSUME NEW i \in Initiatives, NEW confirm, DeleteInitiative(i, confirm)
      PROVE  TypeOK'
  <2> DEFINE gone == {i} \cup StoriesOf(i) \cup ItemsOf(i)
  <2>1. Remove(gone) /\ UNCHANGED schedule
    BY <1>4 DEF DeleteInitiative
  <2>2. InitiativesOK'
    BY <2>1 DEF Remove, Except, InitiativesOK
  <2>3. DOMAIN initiatives' = DOMAIN initiatives \ {i}
    BY <2>1, PlanBoardAssumption
    DEF Remove, Except, InitiativesOK, StoriesOf, ItemsOf, StoriesOK, ItemsOK
  <2>4. \A s \in DOMAIN stories \ gone : stories[s].of \in DOMAIN initiatives'
    BY <2>3 DEF StoriesOK, StoriesOf
  <2>5. \A w \in DOMAIN items \ gone :
            items[w].of \in DOMAIN initiatives' /\ items[w].story \notin gone
    BY <2>3, PlanBoardAssumption DEF ItemsOK, StoriesOK, ItemsOf, StoriesOf, Entities
  <2> HIDE DEF gone
  <2> QED
    BY <2>1, <2>2, <2>4, <2>5, RemovalTyped DEF Remove
<1>5. ASSUME NEW i, NEW asked \in Requests, NEW gone, EditExecutors(i, asked, gone)
      PROVE  TypeOK'
  <2>1. RowsOK(initiatives)
    BY DEF InitiativesOK, RowsOK
  <2>2. RowsOK(Except(Served(initiatives, asked), gone))
    BY <2>1, ServedOK DEF Except, RowsOK
  <2> QED
    BY <1>5, <2>2, ReplacedTyped DEF EditExecutors
<1>7. ASSUME NEW plan \in Plans, NEW asked \in Requests, PutPrePI(plan, asked)
      PROVE  TypeOK'
  <2> DEFINE row(i) == [on_board |-> plan[i].on_board, generated |-> i \in ServiceCards,
                        at |-> plan[i].at]
  <2>1. \A i \in DOMAIN plan : plan[i] \in [on_board : BOOLEAN, at : Position]
    BY PlanBoardAssumption
  <2>2. RowsOK([i \in DOMAIN plan |-> row(i)])
    BY <2>1, PlanBoardAssumption DEF RowsOK
  <2>3. RowsOK(Served([i \in DOMAIN plan |-> row(i)], asked))
    BY <2>2, ServedOK
  <2> QED
    BY <1>7, <2>3, ReplacedTyped DEF PutPrePI
<1> QED
  BY <1>1, <1>2, <1>3, <1>4, <1>5, <1>6, <1>7 DEF PrePICommand

(* Only stories change, and each stays with its initiative. *)
LEMMA StoriesTyped ==
    ASSUME TypeOK, StoriesOK',
           \A s \in DOMAIN stories : s \in DOMAIN stories' /\ stories'[s].of = stories[s].of,
           UNCHANGED <<schedule, initiatives, items, connections>>
    PROVE  TypeOK'
<1> USE Types DEF Tables
<1>1. ItemsOK'
  BY DEF ItemsOK
<1> QED
  BY <1>1 DEF ScheduleOK, InitiativesOK, ArrowsOK

(* Only work items change. *)
LEMMA ItemsTyped ==
    ASSUME TypeOK, ItemsOK', UNCHANGED <<schedule, initiatives, stories, connections>>
    PROVE  TypeOK'
<1> USE Types DEF Tables
<1>1. StoriesOK'
  BY DEF StoriesOK
<1> QED
  BY <1>1 DEF ScheduleOK, InitiativesOK, ArrowsOK

(* A command that writes one work item. *)
LEMMA ItemWritten ==
    ASSUME TypeOK, NEW w \in WorkItems,
           DOMAIN items' = DOMAIN items \cup {w},
           \A v \in DOMAIN items \ {w} : items'[v] = items[v],
           items'[w] \in [of : DOMAIN initiatives, story : DOMAIN stories \cup {None},
                          at : Position, date : Int \cup {None}],
           items'[w].story \in StoriesOf(items'[w].of) \cup {None},
           UNCHANGED <<schedule, initiatives, stories, connections>>
    PROVE  TypeOK'
<1> USE Types DEF Tables
<1>1. ItemsOK'
  BY DEF ItemsOK, StoriesOf
<1> QED
  BY <1>1, ItemsTyped

LEMMA ItemUpdated ==
    ASSUME TypeOK, NEW w \in DOMAIN items, NEW story \in StoriesOf(items[w].of) \cup {None},
           NEW at \in Position, NEW date \in Int \cup {None},
           \/ items' = [items EXCEPT ![w].story = story, ![w].date = date, ![w].at = at]
           \/ items' = [items EXCEPT ![w].story = story, ![w].date = date],
           UNCHANGED <<schedule, initiatives, stories, connections>>
    PROVE  TypeOK'
<1>1. items[w] \in [of : DOMAIN initiatives, story : DOMAIN stories \cup {None},
                    at : Position, date : Int \cup {None}]
  BY Types DEF Tables, ItemsOK
<1>2. story \in DOMAIN stories \cup {None}
  BY DEF StoriesOf
<1>3. /\ items'[w] \in [of : DOMAIN initiatives, story : DOMAIN stories \cup {None},
                       at : Position, date : Int \cup {None}]
      /\ items'[w].of = items[w].of /\ items'[w].story = story
  BY <1>1, <1>2
<1>4. DOMAIN items' = DOMAIN items \cup {w} /\ \A v \in DOMAIN items \ {w} : items'[v] = items[v]
  OBVIOUS
<1>5. w \in WorkItems
  BY Types DEF Tables, ItemsOK
<1> QED
  BY <1>3, <1>4, <1>5, ItemWritten

(* Work items go, and nothing else but arrows. *)
LEMMA ItemsRemoved ==
    ASSUME TypeOK, NEW W \in SUBSET WorkItems, Remove(W), UNCHANGED schedule
    PROVE  TypeOK'
<1> USE Types DEF Tables
<1>1. initiatives' = Except(initiatives, W) /\ W \cap DOMAIN initiatives = {}
  BY PlanBoardAssumption DEF Remove, InitiativesOK
<1>2. InitiativesOK' /\ DOMAIN initiatives' = DOMAIN initiatives
  BY <1>1 DEF Except, InitiativesOK
<1>3. \A s \in DOMAIN stories \ W : stories[s].of \in DOMAIN initiatives'
  BY <1>2 DEF StoriesOK
<1>4. \A w \in DOMAIN items \ W :
          items[w].of \in DOMAIN initiatives' /\ items[w].story \notin W
  BY <1>2, PlanBoardAssumption DEF ItemsOK, StoriesOK, Entities
<1> QED
  BY <1>2, <1>3, <1>4, RemovalTyped DEF Remove

(* The children of the initiatives of a snapshot are the ones it gives them, *)
(* as it gives them; those of other initiatives stay as they are.            *)
SnapshotTaken(board) ==
    /\ \A i \in DOMAIN initiatives' :
           i \in DOMAIN initiatives /\ (i \in DOMAIN board => initiatives'[i].at = board[i].at)
    /\ \A i \in DOMAIN initiatives' \ DOMAIN board : initiatives'[i] = initiatives[i]
    /\ \A s \in DOMAIN stories' :
           \/ s \in DOMAIN stories /\ stories'[s] = stories[s] /\ stories[s].of \notin DOMAIN board
           \/ \E i \in DOMAIN board :
                  /\ s \in DOMAIN board[i].stories
                  /\ stories'[s] = [of |-> i, at |-> board[i].stories[s]]
    /\ \A w \in DOMAIN items' :
           \/ w \in DOMAIN items /\ items'[w] = items[w] /\ items[w].of \notin DOMAIN board
           \/ \E i \in DOMAIN board :
                  LET item == board[i].items[w]
                  IN /\ w \in DOMAIN board[i].items
                     /\ items'[w] = [of |-> i, story |-> item.story,
                                     at |-> Dated(item.date, item.at), date |-> item.date]

LEMMA PutTeamBoardTyped ==
    ASSUME TypeOK, NEW board \in Boards, PutTeamBoard(board)
    PROVE  TypeOK' /\ SnapshotTaken(board)
<1> USE Types DEF Tables
<1> DEFINE written == DOMAIN board
           children(i) == DOMAIN board[i].stories \cup DOMAIN board[i].items
           desired == UNION {children(i) : i \in written}
           held(i) == StoriesOf(i) \cup ItemsOf(i)
           lost == (UNION {StoriesOf(i) \cup ItemsOf(i) : i \in written}) \ desired
           Owner(x) == CHOOSE i \in written : x \in children(i)
<1>0. Snapshot(board) /\ BoardAccepted(board) /\ UNCHANGED schedule
  BY PlanBoardAssumption DEF PutTeamBoard
<1>1. /\ initiatives' = [i \in DOMAIN initiatives |->
              IF i \in written
              THEN [initiatives[i] EXCEPT !.on_board = board[i].on_board, !.at = board[i].at]
              ELSE initiatives[i]]
      /\ stories' = [s \in (DOMAIN stories \ lost) \cup (desired \cap Stories) |->
              IF s \in desired THEN [of |-> Owner(s), at |-> board[Owner(s)].stories[s]]
              ELSE stories[s]]
      /\ items' = [w \in (DOMAIN items \ lost) \cup (desired \cap WorkItems) |->
              IF w \in desired
              THEN LET item == board[Owner(w)].items[w]
                   IN [of |-> Owner(w), story |-> item.story,
                       at |-> Dated(item.date, item.at), date |-> item.date]
              ELSE items[w]]
      /\ connections' = Except(connections, ArrowsAt(lost))
  BY DEF PutTeamBoard
<1>2. \A x \in desired : Owner(x) \in written /\ x \in children(Owner(x))
  OBVIOUS
<1>3. \A i, j \in written : i # j => children(i) \cap children(j) = {}
  BY <1>0, PlanBoardAssumption DEF Snapshot, BoardAccepted
<1>4. \A i \in written : \A x \in children(i) : x \in desired /\ Owner(x) = i
  <2> SUFFICES ASSUME NEW i \in written, NEW x \in children(i)
               PROVE  x \in desired /\ Owner(x) = i
    OBVIOUS
  <2>1. x \in desired
    OBVIOUS
  <2> HIDE DEF children, desired, Owner
  <2>2. Owner(x) \in written /\ x \in children(Owner(x))
    BY <1>2, <2>1
  <2> QED
    BY <1>3, <2>1, <2>2
<1>5. \A i \in written : \A x \in held(i) : x \in desired \/ x \in lost
  OBVIOUS
<1>6. \A x \in lost : x \notin desired /\ \E i \in written : x \in held(i)
  OBVIOUS
<1>7. \A x : x \in desired => Owner(x) \in written
  BY <1>2
<1>8. written \subseteq DOMAIN initiatives
  BY <1>0 DEF BoardAccepted
<1> HIDE DEF desired, lost, Owner
<1>9. InitiativesOK'
  BY <1>0, <1>1, <1>8 DEF Snapshot, InitiativesOK
<1>10. /\ DOMAIN initiatives' = DOMAIN initiatives
       /\ DOMAIN stories' = (DOMAIN stories \ lost) \cup (desired \cap Stories)
       /\ DOMAIN items' = (DOMAIN items \ lost) \cup (desired \cap WorkItems)
  BY <1>1
<1>11. \A s \in DOMAIN stories' \cap desired :
           /\ stories'[s] = [of |-> Owner(s), at |-> board[Owner(s)].stories[s]]
           /\ s \in DOMAIN board[Owner(s)].stories
  <2> SUFFICES ASSUME NEW s \in DOMAIN stories', s \in desired
               PROVE  /\ stories'[s] = [of |-> Owner(s), at |-> board[Owner(s)].stories[s]]
                      /\ s \in DOMAIN board[Owner(s)].stories
    OBVIOUS
  <2>1. s \in Stories
    BY <1>10 DEF StoriesOK
  <2>2. s \notin DOMAIN board[Owner(s)].items
    BY <1>0, <1>2, <2>1, PlanBoardAssumption DEF Snapshot
  <2> QED
    BY <1>1, <1>2, <1>10, <2>2
<1>12. \A s \in DOMAIN stories' \ desired : s \in DOMAIN stories /\ stories'[s] = stories[s]
  BY <1>1, <1>10
<1>13. StoriesOK'
  <2>1. DOMAIN stories' \subseteq Stories
    BY <1>10 DEF StoriesOK
  <2>2. ASSUME NEW s \in DOMAIN stories', s \in desired
        PROVE  stories'[s] \in [of : DOMAIN initiatives', at : Position]
    <3>1. Owner(s) \in written /\ board[Owner(s)].stories[s] \in Position
      BY <1>0, <1>2, <1>11, <2>2 DEF Snapshot
    <3>2. stories'[s] = [of |-> Owner(s), at |-> board[Owner(s)].stories[s]]
      BY <1>11, <2>2
    <3>3. Owner(s) \in DOMAIN initiatives'
      BY <1>8, <1>10, <3>1
    <3> QED
      BY <3>1, <3>2, <3>3
  <2>3. ASSUME NEW s \in DOMAIN stories', s \notin desired
        PROVE  stories'[s] \in [of : DOMAIN initiatives', at : Position]
    BY <1>10, <1>12, <2>3 DEF StoriesOK
  <2> QED
    BY <2>1, <2>2, <2>3 DEF StoriesOK
<1>14. ItemsOK'
  <2>1. DOMAIN items' \subseteq WorkItems
    BY <1>10 DEF ItemsOK
  <2> SUFFICES ASSUME NEW w \in DOMAIN items'
               PROVE  /\ items'[w] \in [of : DOMAIN initiatives', story : DOMAIN stories' \cup {None},
                                        at : Position, date : Int \cup {None}]
                      /\ items'[w].story # None => stories'[items'[w].story].of = items'[w].of
    BY <2>1 DEF ItemsOK
  <2>2. CASE w \in desired
    <3> DEFINE i == Owner(w)
               item == board[i].items[w]
    <3>1. i \in written /\ w \in DOMAIN board[i].items
      BY <1>0, <1>2, <2>1, <2>2, PlanBoardAssumption DEF Snapshot
    <3>2. items'[w] = [of |-> i, story |-> item.story,
                       at |-> Dated(item.date, item.at), date |-> item.date]
      BY <1>1, <1>10, <2>2
    <3>3. Dated(item.date, item.at) \in Position /\ item.date \in Int \cup {None}
      BY <1>0, <3>1, DatedPosition DEF Snapshot, BoardAccepted
    <3>4. item.story \in DOMAIN board[i].stories \cup {None}
      BY <1>0, <3>1 DEF BoardAccepted
    <3>5. CASE item.story = None
      BY <1>8, <1>10, <3>1, <3>2, <3>3, <3>5
    <3>6. CASE item.story \in DOMAIN board[i].stories
      <4>1. item.story \in desired /\ Owner(item.story) = i /\ item.story \in Stories
        BY <1>0, <1>4, <3>1, <3>6 DEF Snapshot
      <4>2. item.story \in DOMAIN stories'
        BY <1>10, <4>1
      <4>3. stories'[item.story] = [of |-> i, at |-> board[i].stories[item.story]]
        BY <1>11, <4>1, <4>2
      <4>4. stories'[item.story].of = i
        BY <4>3
      <4> QED
        BY <1>8, <1>10, <3>1, <3>2, <3>3, <4>2, <4>4
    <3> QED
      BY <3>4, <3>5, <3>6
  <2>3. CASE w \notin desired
    <3>1. w \in DOMAIN items /\ w \notin lost /\ items'[w] = items[w]
      BY <1>1, <1>10, <2>3
    <3>2. CASE items[w].story = None
      BY <1>10, <3>1, <3>2 DEF ItemsOK
    <3>3. CASE items[w].story # None
      <4> DEFINE s == items[w].story
      <4>1. s \in DOMAIN stories /\ stories[s].of = items[w].of /\ s \in Stories
        BY <3>1, <3>3 DEF ItemsOK, StoriesOK
      <4>2. items[w].of \notin written
        BY <1>5, <2>3, <3>1 DEF ItemsOf
      <4>3. s \notin lost
        BY <1>6, <4>1, <4>2, PlanBoardAssumption DEF StoriesOf, ItemsOf, ItemsOK
      <4>4. s \notin desired
        <5>1. SUFFICES ASSUME s \in desired PROVE FALSE
          OBVIOUS
        <5>2. Owner(s) \in written /\ s \in DOMAIN board[Owner(s)].stories
          <6>1. s \in DOMAIN stories'
            BY <1>10, <4>1, <5>1
          <6> QED
            BY <1>7, <1>11, <5>1, <6>1
        <5>3. stories[s].of = Owner(s)
          BY <1>0, <4>1, <5>2 DEF BoardAccepted
        <5> QED
          BY <4>1, <4>2, <5>2, <5>3
      <4>5. s \in DOMAIN stories' /\ stories'[s] = stories[s]
        BY <1>10, <1>12, <4>1, <4>3, <4>4
      <4> QED
        BY <1>10, <3>1, <4>1, <4>5 DEF ItemsOK
    <3> QED
      BY <3>2, <3>3
  <2> QED
    BY <2>2, <2>3
<1>15. ArrowsOK'
  BY <1>1 DEF ArrowsOK, Except
<1>16. TypeOK'
  BY <1>0, <1>9, <1>13, <1>14, <1>15 DEF ScheduleOK
<1>17. ASSUME NEW i \in DOMAIN initiatives'
       PROVE  /\ i \in DOMAIN initiatives /\ (i \in written => initiatives'[i].at = board[i].at)
              /\ i \notin written => initiatives'[i] = initiatives[i]
  <2>1. i \in DOMAIN initiatives
    BY <1>10
  <2>2. initiatives'[i] =
            IF i \in written
            THEN [initiatives[i] EXCEPT !.on_board = board[i].on_board, !.at = board[i].at]
            ELSE initiatives[i]
    BY <1>1, <2>1
  <2>3. initiatives[i] \in [on_board : BOOLEAN, generated : BOOLEAN, at : Position]
    BY <2>1 DEF InitiativesOK
  <2> QED
    BY <2>1, <2>2, <2>3
<1>18. ASSUME NEW s \in DOMAIN stories'
       PROVE  \/ s \in DOMAIN stories /\ stories'[s] = stories[s] /\ stories[s].of \notin written
              \/ \E i \in written : /\ s \in DOMAIN board[i].stories
                                    /\ stories'[s] = [of |-> i, at |-> board[i].stories[s]]
  <2>1. CASE s \in desired
    BY <1>7, <1>11, <2>1
  <2>2. CASE s \notin desired
    <3>1. s \in DOMAIN stories /\ s \notin lost /\ stories'[s] = stories[s]
      BY <1>10, <1>12, <2>2
    <3> QED
      BY <1>5, <2>2, <3>1 DEF StoriesOf
  <2> QED
    BY <2>1, <2>2
<1>19. ASSUME NEW w \in DOMAIN items'
       PROVE  \/ w \in DOMAIN items /\ items'[w] = items[w] /\ items[w].of \notin written
              \/ \E i \in written :
                     LET item == board[i].items[w]
                     IN /\ w \in DOMAIN board[i].items
                        /\ items'[w] = [of |-> i, story |-> item.story,
                                        at |-> Dated(item.date, item.at), date |-> item.date]
  <2>1. CASE w \in desired
    <3> DEFINE i == Owner(w)
               item == board[i].items[w]
    <3>1. w \in WorkItems
      BY <1>10 DEF ItemsOK
    <3>2. i \in written /\ w \in DOMAIN board[i].items
      BY <1>0, <1>2, <2>1, <3>1, PlanBoardAssumption DEF Snapshot
    <3>3. items'[w] = [of |-> i, story |-> item.story,
                       at |-> Dated(item.date, item.at), date |-> item.date]
      BY <1>1, <1>10, <2>1
    <3> QED
      BY <3>2, <3>3
  <2>2. CASE w \notin desired
    <3>1. w \in DOMAIN items /\ w \notin lost /\ items'[w] = items[w]
      BY <1>1, <1>10, <2>2
    <3> QED
      BY <1>5, <2>2, <3>1 DEF ItemsOf
  <2> QED
    BY <2>1, <2>2
<1>20. SnapshotTaken(board)
  BY <1>17, <1>18, <1>19 DEF SnapshotTaken
<1> QED
  BY <1>16, <1>20

LEMMA TeamBoardTyped ==
    ASSUME TypeOK, TeamBoardCommand
    PROVE  TypeOK'
<1> USE Types DEF Tables
<1>1. ASSUME NEW i, NEW at \in Positions, RescheduleInitiative(i, at)
      PROVE  TypeOK'
  <2>1. InitiativesOK'
    BY <1>1, PlanBoardAssumption DEF RescheduleInitiative, InitiativesOK
  <2> QED
    BY <1>1, <2>1, InitiativesTyped DEF RescheduleInitiative
<1>2. ASSUME NEW s \in Stories, NEW i, NEW at \in Positions, CreateStory(s, i, at)
      PROVE  TypeOK'
  <2>1. StoriesOK'
    BY <1>2, PlanBoardAssumption DEF CreateStory, OnBoard, With, StoriesOK
  <2> QED
    BY <1>2, <2>1, StoriesTyped DEF CreateStory, With
<1>3. ASSUME NEW s \in Stories, NEW at \in Positions, MoveStory(s, at)
      PROVE  TypeOK'
  <2>1. StoriesOK'
    BY <1>3, PlanBoardAssumption DEF MoveStory, StoriesOK
  <2> QED
    BY <1>3, <2>1, StoriesTyped DEF MoveStory, StoriesOK
<1>4. ASSUME NEW s \in Stories, NEW confirm, DeleteStory(s, confirm)
      PROVE  TypeOK'
  <2> DEFINE gone == {s} \cup {w \in DOMAIN items : items[w].story = s}
  <2>1. Remove(gone) /\ UNCHANGED schedule
    BY <1>4 DEF DeleteStory
  <2>2. initiatives' = Except(initiatives, gone)
    BY <2>1 DEF Remove
  <2>3. gone \cap DOMAIN initiatives = {}
    BY PlanBoardAssumption DEF InitiativesOK, ItemsOK
  <2>4. InitiativesOK' /\ DOMAIN initiatives' = DOMAIN initiatives
    BY <2>2, <2>3 DEF Except, InitiativesOK
  <2>5. \A r \in DOMAIN stories \ gone : stories[r].of \in DOMAIN initiatives'
    BY <2>4 DEF StoriesOK
  <2>6. \A w \in DOMAIN items \ gone :
            items[w].of \in DOMAIN initiatives' /\ items[w].story \notin gone
    BY <2>4, PlanBoardAssumption DEF StoriesOK, ItemsOK, Entities
  <2> HIDE DEF gone
  <2> QED
    BY <2>1, <2>4, <2>5, <2>6, RemovalTyped DEF Remove
<1>5. ASSUME NEW w \in WorkItems, NEW i \in Initiatives, NEW story, NEW at \in Positions,
             NEW date \in Dates \cup {None}, CreateItem(w, i, story, at, date)
      PROVE  TypeOK'
  <2>1. Dated(date, at) \in Position /\ date \in Int \cup {None}
    BY <1>5, DatedPosition, PlanBoardAssumption DEF CreateItem
  <2>2. /\ i \in DOMAIN initiatives /\ story \in StoriesOf(i) \cup {None}
        /\ items' = With(items, w, [of |-> i, story |-> story, at |-> Dated(date, at),
                                    date |-> date])
        /\ UNCHANGED <<schedule, initiatives, stories, connections>>
    BY <1>5 DEF CreateItem, OnBoard
  <2>3. /\ DOMAIN items' = DOMAIN items \cup {w}
        /\ \A v \in DOMAIN items \ {w} : items'[v] = items[v]
        /\ items'[w] = [of |-> i, story |-> story, at |-> Dated(date, at), date |-> date]
    BY <2>2 DEF With
  <2>4. story \in DOMAIN stories \cup {None}
    BY <2>2 DEF StoriesOf
  <2> QED
    BY <2>1, <2>2, <2>3, <2>4, ItemWritten
<1>6. ASSUME NEW w \in WorkItems, NEW story, NEW date \in Dates, DateItem(w, story, date)
      PROVE  TypeOK'
  <2>1. PeriodOf(date) \in Position /\ date \in Int
    BY <1>6, PeriodInCycle, PlanBoardAssumption DEF DateItem
  <2> QED
    BY <1>6, <2>1, ItemUpdated DEF DateItem
<1>7. ASSUME NEW w \in WorkItems, NEW story, NEW at \in Positions, MoveItem(w, story, at)
      PROVE  TypeOK'
  <2>1. at \in Position
    BY PlanBoardAssumption
  <2> QED
    BY <1>7, <2>1, ItemUpdated DEF MoveItem
<1>8. ASSUME NEW w \in WorkItems, NEW story, NEW date, RelinkItem(w, story, date)
      PROVE  TypeOK'
  <2>1. date \in Int \cup {None}
    BY <1>8 DEF RelinkItem, ItemsOK
  <2> QED
    BY <1>8, <2>1, ItemUpdated, EmptySpot DEF RelinkItem
<1>9. ASSUME NEW w \in WorkItems, NEW confirm, DeleteItem(w, confirm)
      PROVE  TypeOK'
  BY <1>9, ItemsRemoved DEF DeleteItem
<1>10. ASSUME NEW board \in Boards, PutTeamBoard(board)
       PROVE  TypeOK'
  BY <1>10, PutTeamBoardTyped
<1> QED
  BY <1>1, <1>2, <1>3, <1>4, <1>5, <1>6, <1>7, <1>8, <1>9, <1>10 DEF TeamBoardCommand

LEMMA ProgramBoardTyped ==
    ASSUME TypeOK, ProgramBoardCommand
    PROVE  TypeOK'
<1> USE Types DEF Tables
<1>1. ASSUME NEW i, NEW at \in Positions, MoveOnProgramBoard(i, at.sprint)
      PROVE  TypeOK'
  <2> DEFINE spot == InSprint(at.sprint)
  <2>1. spot \in Position
    BY PlanBoardAssumption DEF Position, InSprint
  <2>2. /\ initiatives' = [initiatives EXCEPT ![i].at = spot]
        /\ UNCHANGED <<schedule, stories, items, connections>>
    BY <1>1 DEF MoveOnProgramBoard
  <2> HIDE DEF spot
  <2>3. InitiativesOK' /\ DOMAIN initiatives' = DOMAIN initiatives
    BY <2>1, <2>2 DEF InitiativesOK
  <2> QED
    BY <2>2, <2>3, InitiativesTyped
<1>2. ASSUME ArrowsOK', UNCHANGED <<schedule, initiatives, stories, items>>
      PROVE  TypeOK'
  BY <1>2 DEF ScheduleOK, InitiativesOK, StoriesOK, ItemsOK
<1>3. ASSUME NEW c \in ConnectionIds, NEW arrow \in Arrows,
             Connect(c, arrow) \/ Reconnect(c, arrow)
      PROVE  TypeOK'
  <2>1. ArrowsOK'
    BY <1>3, PlanBoardAssumption DEF Connect, Reconnect, With, ArrowsOK
  <2> QED
    BY <1>2, <1>3, <2>1 DEF Connect, Reconnect
<1>4. ASSUME NEW c, Disconnect(c)
      PROVE  TypeOK'
  <2>1. ArrowsOK'
    BY <1>4 DEF Disconnect, Except, ArrowsOK
  <2> QED
    BY <1>2, <1>4, <2>1 DEF Disconnect
<1>5. ASSUME NEW map \in Maps, PutProgramBoard(map)
      PROVE  TypeOK'
  <2>1. ArrowsOK'
    BY <1>5, PlanBoardAssumption DEF PutProgramBoard, Maps, ArrowsOK
  <2> QED
    BY <1>2, <1>5, <2>1 DEF PutProgramBoard
<1> QED
  BY <1>1, <1>3, <1>4, <1>5 DEF ProgramBoardCommand

LEMMA CycleTyped ==
    ASSUME TypeOK, CycleCommand
    PROVE  TypeOK'
<1> USE Types DEF Tables
<1>1. ASSUME NEW start \in Starts, NEW count \in Counts, NEW unassign,
             UpdateCycle(start, count, unassign)
      PROVE  TypeOK'
  <2>1. \A p \in Position : Unassigned(p, count) \in Position
    BY EmptySpot DEF Unassigned
  <2>2. InitiativesOK' /\ DOMAIN initiatives' = DOMAIN initiatives
    BY <1>1, <2>1 DEF UpdateCycle, InitiativesOK
  <2>3. /\ DOMAIN stories' = DOMAIN stories
        /\ \A s \in DOMAIN stories : stories'[s] \in [of : DOMAIN initiatives, at : Position]
        /\ \A s \in DOMAIN stories : stories'[s].of = stories[s].of
    BY <1>1, <2>1 DEF UpdateCycle, StoriesOK
  <2>4. /\ DOMAIN items' = DOMAIN items
        /\ \A w \in DOMAIN items :
               /\ items'[w] \in [of : DOMAIN initiatives, story : DOMAIN stories \cup {None},
                                 at : Position, date : Int \cup {None}]
               /\ items'[w].of = items[w].of /\ items'[w].story = items[w].story
    <3>1. /\ DOMAIN items' = DOMAIN items
          /\ \A w \in DOMAIN items :
                 items'[w] = [items[w] EXCEPT !.at = Unassigned(items[w].at, count)]
      BY <1>1 DEF UpdateCycle
    <3> SUFFICES ASSUME NEW w \in DOMAIN items
                 PROVE  /\ items'[w] \in [of : DOMAIN initiatives, story : DOMAIN stories \cup {None},
                                          at : Position, date : Int \cup {None}]
                        /\ items'[w].of = items[w].of /\ items'[w].story = items[w].story
      BY <3>1
    <3>2. items[w] \in [of : DOMAIN initiatives, story : DOMAIN stories \cup {None},
                        at : Position, date : Int \cup {None}]
      BY DEF ItemsOK
    <3>3. Unassigned(items[w].at, count) \in Position
      BY <2>1, <3>2
    <3> QED
      BY <3>1, <3>2, <3>3
  <2>5. StoriesOK'
    BY <2>2, <2>3 DEF StoriesOK
  <2>6. ItemsOK'
    BY <2>2, <2>3, <2>4 DEF ItemsOK
  <2> QED
    BY <1>1, <2>2, <2>5, <2>6, PlanBoardAssumption DEF UpdateCycle, ScheduleOK, ArrowsOK
<1>2. ASSUME NEW start \in Starts, NEW count \in Counts, StoreSchedule(start, count)
      PROVE  TypeOK'
  BY <1>2, PlanBoardAssumption
  DEF StoreSchedule, ScheduleOK, InitiativesOK, StoriesOK, ItemsOK, ArrowsOK
<1>3. ASSUME NEW i, ResetInitiative(i)
      PROVE  TypeOK'
  <2> DEFINE lost == StoriesOf(i) \cup ItemsOf(i)
  <2>1. /\ initiatives' = [initiatives EXCEPT ![i].on_board = FALSE, ![i].at = Unplanned]
        /\ stories' = Except(stories, lost) /\ items' = Except(items, lost)
        /\ connections' = Except(connections, ArrowsAt(lost))
        /\ UNCHANGED schedule
    BY <1>3 DEF ResetInitiative
  <2>2. InitiativesOK' /\ DOMAIN initiatives' = DOMAIN initiatives
    BY <2>1, EmptySpot DEF InitiativesOK
  <2>3. \A s \in DOMAIN stories \ lost : stories[s].of \in DOMAIN initiatives'
    BY <2>2 DEF StoriesOK
  <2>4. \A w \in DOMAIN items \ lost :
            items[w].of \in DOMAIN initiatives' /\ items[w].story \notin lost
    BY <2>2, PlanBoardAssumption DEF ItemsOK, StoriesOK, ItemsOf, StoriesOf, Entities
  <2> HIDE DEF lost
  <2> QED
    BY <2>1, <2>2, <2>3, <2>4, RemovalTyped
<1>4. ASSUME NEW W \in SUBSET WorkItems, DropItems(W)
      PROVE  TypeOK'
  BY <1>4, ItemsRemoved DEF DropItems
<1> QED
  BY <1>1, <1>2, <1>3, <1>4 DEF CycleCommand

LEMMA StepTyped == TypeOK /\ [Next]_vars => TypeOK'
<1>1. TypeOK /\ UNCHANGED vars => TypeOK'
  BY DEF vars, TypeOK
<1> QED
  BY <1>1, PrePITyped, TeamBoardTyped, ProgramBoardTyped, CycleTyped DEF Next

(* The rows of the plan are well formed whatever commands come: a child has *)
(* an initiative that exists, and a work item a story of its own initiative, *)
(* through deletes, snapshots and forms that take initiatives away.         *)
THEOREM RowsWellFormed == Spec => []TypeOK
<1>1. Init => TypeOK
  BY PlanBoardAssumption DEF Init, TypeOK, Empty
<1> QED
  BY <1>1, StepTyped, PTL DEF Spec

-----------------------------------------------------------------------------
(* What late, outside and misdated rows are, table by table. *)
LateStories == {s \in DOMAIN stories : After(stories[s].at, initiatives[stories[s].of].at)}

LateItems == {w \in DOMAIN items : After(items[w].at, initiatives[items[w].of].at)}

OutInitiatives == {i \in DOMAIN initiatives : ~ InSprints(initiatives[i].at)}

OutStories == {s \in DOMAIN stories : ~ InSprints(stories[s].at)}

OutItems == {w \in DOMAIN items : ~ InSprints(items[w].at)}

LEMMA LateRows ==
    /\ TypeOK => Late = LateStories \cup LateItems
    /\ TypeOK' => Late' = LateStories' \cup LateItems'
<1> USE PlanBoardAssumption DEF Children, Child, Late, LateStories, LateItems, TypeOK
<1>1. TypeOK => Late = LateStories \cup LateItems
  OBVIOUS
<1>2. TypeOK' => Late' = LateStories' \cup LateItems'
  OBVIOUS
<1> QED
  BY <1>1, <1>2

LEMMA OutsideRows ==
    /\ TypeOK => Outside = OutInitiatives \cup OutStories \cup OutItems
    /\ TypeOK' => Outside' = OutInitiatives' \cup OutStories' \cup OutItems'
<1> USE PlanBoardAssumption DEF Children, Child, Outside, OutInitiatives, OutStories, OutItems, TypeOK
<1>1. TypeOK => Outside = OutInitiatives \cup OutStories \cup OutItems
  OBVIOUS
<1>2. TypeOK' => Outside' = OutInitiatives' \cup OutStories' \cup OutItems'
  OBVIOUS
<1> QED
  BY <1>1, <1>2

(* A row that a step leaves where it was. *)
InitiativeSteady(i) == i \in DOMAIN initiatives /\ initiatives'[i].at = initiatives[i].at

StorySteady(s) == s \in DOMAIN stories /\ stories'[s] = stories[s]

ItemSteady(w) ==
    w \in DOMAIN items /\ items'[w].of = items[w].of /\ items'[w].at = items[w].at

(* Children are late only if they were, with the same initiative. *)
LEMMA LateFewer ==
    ASSUME TypeOK, TypeOK',
           \A s \in DOMAIN stories' :
               \/ StorySteady(s) /\ InitiativeSteady(stories[s].of)
               \/ ~ After(stories'[s].at, initiatives'[stories'[s].of].at),
           \A w \in DOMAIN items' :
               \/ ItemSteady(w) /\ InitiativeSteady(items[w].of)
               \/ ~ After(items'[w].at, initiatives'[items'[w].of].at)
    PROVE  Late' \subseteq Late
<1>1. LateStories' \subseteq LateStories
  BY DEF LateStories, StorySteady, InitiativeSteady
<1>2. LateItems' \subseteq LateItems
  BY DEF LateItems, ItemSteady, InitiativeSteady
<1> QED
  BY <1>1, <1>2, LateRows

(* Rows are outside the schedule only if they were. *)
LEMMA OutsideFewer ==
    ASSUME TypeOK, TypeOK', UNCHANGED schedule,
           \A i \in DOMAIN initiatives' : InitiativeSteady(i) \/ InSprints(initiatives'[i].at),
           \A s \in DOMAIN stories' : StorySteady(s) \/ InSprints(stories'[s].at),
           \A w \in DOMAIN items' : ItemSteady(w) \/ InSprints(items'[w].at)
    PROVE  Outside' \subseteq Outside
<1>1. OutInitiatives' \subseteq OutInitiatives
  BY DEF OutInitiatives, InitiativeSteady, InSprints
<1>2. OutStories' \subseteq OutStories
  BY DEF OutStories, StorySteady, InSprints
<1>3. OutItems' \subseteq OutItems
  BY DEF OutItems, ItemSteady, InSprints
<1> QED
  BY <1>1, <1>2, <1>3, OutsideRows

(* Dates and periods part only where they had. *)
LEMMA MisdatedFewer ==
    ASSUME UNCHANGED schedule,
           \A w \in DOMAIN items' :
               \/ ItemSteady(w) /\ items'[w].date = items[w].date
               \/ items'[w].date = None
               \/ DateInCycle(items'[w].date) /\ items'[w].at = PeriodOf(items'[w].date)
    PROVE  Misdated' \subseteq Misdated
BY DEF Misdated, ItemSteady, DateInCycle, PeriodOf

(* Neither command nor cascade moves a row that stays. *)
LEMMA NothingMoves ==
    ASSUME TypeOK, TypeOK', UNCHANGED schedule,
           \A i \in DOMAIN initiatives \cap DOMAIN initiatives' : InitiativeSteady(i),
           \A s \in DOMAIN stories' : StorySteady(s),
           \A w \in DOMAIN items' : ItemSteady(w) /\ items'[w].date = items[w].date
    PROVE  /\ Late' \subseteq Late
           /\ Misdated' \subseteq Misdated
           /\ DOMAIN initiatives' \subseteq DOMAIN initiatives => Outside' \subseteq Outside
<1>1. \A s \in DOMAIN stories' : InitiativeSteady(stories[s].of)
  BY DEF TypeOK, StorySteady
<1>2. \A w \in DOMAIN items' : InitiativeSteady(items[w].of)
  BY DEF TypeOK, ItemSteady
<1>3. Late' \subseteq Late
  BY <1>1, <1>2, LateFewer
<1> QED
  BY <1>3, MisdatedFewer, OutsideFewer

LEMMA RemovalMovesNothing ==
    ASSUME TypeOK, TypeOK', NEW gone, Remove(gone), UNCHANGED schedule
    PROVE  Late' \subseteq Late /\ Misdated' \subseteq Misdated /\ Outside' \subseteq Outside
<1>1. \A i \in DOMAIN initiatives' : InitiativeSteady(i)
  BY DEF Remove, Except, InitiativeSteady
<1>2. \A s \in DOMAIN stories' : StorySteady(s)
  BY DEF Remove, Except, StorySteady
<1>3. \A w \in DOMAIN items' : ItemSteady(w) /\ items'[w].date = items[w].date
  BY DEF Remove, Except, ItemSteady
<1> QED
  BY <1>1, <1>2, <1>3, NothingMoves DEF InitiativeSteady

(* The steps of the two action properties. *)
LateStep ==
    \/ \A x \in Late' :
           \/ x \in Late
           \/ x \in Children /\ Child(x).of \in ServiceCards /\ ~ OnBoard(Child(x).of)
    \/ \E plan \in Plans, asked \in Requests : PutPrePI(plan, asked)

OutsideStep ==
    \/ Outside' \subseteq Outside
    \/ \E start \in Starts, count \in Counts : StoreSchedule(start, count)
    \/ \E i \in Initiatives, at \in Posted : CreateInitiative(i, at)

MisdatedStep == Misdated' \subseteq Misdated \/ schedule' # schedule

Sound == LateStep /\ OutsideStep /\ MisdatedStep

(* A row that stands where it stood. *)
Same(rows, i) == i \in DOMAIN initiatives /\ rows[i].at = initiatives[i].at

(* A service card that a form may place. *)
Askable(i) == i \in ServiceCards /\ ~ OnBoard(i)

LEMMA ServedRows ==
    ASSUME NEW asked, \A j \in DOMAIN asked : InSprints(InSprint(asked[j]))
    PROVE  \A j \in DOMAIN Served(initiatives, asked) :
               \/ Same(Served(initiatives, asked), j)
               \/ /\ InSprints(Served(initiatives, asked)[j].at)
                  /\ j \in DOMAIN initiatives => Askable(j)
BY DEF Served, Same, Askable, ServiceCards, OnBoard

(* Children of initiatives that stand where they stood are as late as they were. *)
LEMMA ReplacedLate ==
    ASSUME TypeOK, TypeOK', NEW rows, Replaced(rows),
           \A i \in DOMAIN rows : i \in DOMAIN initiatives => Same(rows, i) \/ Askable(i)
    PROVE  LateStep
<1>1. /\ \A s \in DOMAIN stories' : StorySteady(s)
      /\ \A w \in DOMAIN items' : ItemSteady(w)
      /\ initiatives' = rows
  BY Replacing DEF Except, StorySteady, ItemSteady
<1> SUFFICES ASSUME NEW x \in Late', x \notin Late
             PROVE  x \in Children /\ Askable(Child(x).of)
  BY DEF LateStep, Askable
<1>2. CASE x \in LateStories'
  <2>1. /\ x \in DOMAIN stories' /\ x \in DOMAIN stories /\ stories'[x] = stories[x]
        /\ After(stories[x].at, rows[stories[x].of].at)
    BY <1>1, <1>2 DEF LateStories, StorySteady
  <2>2. stories[x].of \in DOMAIN rows /\ stories[x].of \in DOMAIN initiatives
    BY <1>1, <2>1 DEF TypeOK
  <2>3. ~ Same(rows, stories[x].of)
    BY <2>1, LateRows DEF LateStories, Same
  <2> QED
    BY <2>1, <2>2, <2>3 DEF Children, Child
<1>3. CASE x \in LateItems'
  <2>1. /\ x \in DOMAIN items' /\ x \in DOMAIN items
        /\ items'[x].of = items[x].of /\ items'[x].at = items[x].at
        /\ After(items[x].at, rows[items[x].of].at)
    BY <1>1, <1>3 DEF LateItems, ItemSteady
  <2>2. items[x].of \in DOMAIN rows /\ items[x].of \in DOMAIN initiatives
    BY <1>1, <2>1 DEF TypeOK
  <2>3. ~ Same(rows, items[x].of)
    BY <2>1, LateRows DEF LateItems, Same
  <2>4. x \notin DOMAIN stories
    BY <2>1, PlanBoardAssumption DEF TypeOK
  <2> QED
    BY <2>1, <2>2, <2>3, <2>4 DEF Children, Child
<1> QED
  BY <1>2, <1>3, LateRows

LEMMA PrePISound ==
    ASSUME TypeOK, TypeOK', PrePICommand
    PROVE  Sound
<1>0. ASSUME Late' \subseteq Late, Outside' \subseteq Outside, Misdated' \subseteq Misdated
      PROVE  Sound
  BY <1>0 DEF Sound, LateStep, OutsideStep, MisdatedStep
<1>1. ASSUME NEW i \in Initiatives, NEW at \in Posted, CreateInitiative(i, at)
      PROVE  Sound
  <2>1. /\ UNCHANGED schedule
        /\ \A j \in DOMAIN initiatives : InitiativeSteady(j)
        /\ \A s \in DOMAIN stories' : StorySteady(s)
        /\ \A w \in DOMAIN items' : ItemSteady(w) /\ items'[w].date = items[w].date
    BY <1>1 DEF CreateInitiative, With, InitiativeSteady, StorySteady, ItemSteady
  <2>2. Late' \subseteq Late /\ Misdated' \subseteq Misdated
    BY <2>1, NothingMoves
  <2> QED
    BY <1>1, <2>2 DEF Sound, LateStep, OutsideStep, MisdatedStep
<1>6. ASSUME NEW S, Dispatch(S)
      PROVE  Sound
  <2>1. /\ UNCHANGED schedule
        /\ \A s \in DOMAIN stories' : StorySteady(s)
        /\ \A w \in DOMAIN items' : ItemSteady(w) /\ items'[w].date = items[w].date
    BY <1>6 DEF Dispatch, StorySteady, ItemSteady
  <2>2. \A j \in DOMAIN initiatives' :
            \/ InitiativeSteady(j)
            \/ j \notin DOMAIN initiatives /\ initiatives'[j].at = Unplanned
    <3> SUFFICES ASSUME NEW j \in DOMAIN initiatives'
                 PROVE  \/ InitiativeSteady(j)
                        \/ j \notin DOMAIN initiatives /\ initiatives'[j].at = Unplanned
      OBVIOUS
    <3>1. initiatives'[j] = IF j \notin S THEN initiatives[j]
                            ELSE IF j \in DOMAIN initiatives
                            THEN [initiatives[j] EXCEPT !.generated = FALSE]
                            ELSE [on_board |-> FALSE, generated |-> FALSE, at |-> Unplanned]
      BY <1>6 DEF Dispatch
    <3>2. j \in DOMAIN initiatives \cup S
      BY <1>6 DEF Dispatch
    <3>3. j \in DOMAIN initiatives =>
              [initiatives[j] EXCEPT !.generated = FALSE].at = initiatives[j].at
      BY DEF TypeOK
    <3> QED
      BY <3>1, <3>2, <3>3 DEF InitiativeSteady
  <2>3. Late' \subseteq Late /\ Misdated' \subseteq Misdated
    BY <2>1, <2>2, NothingMoves
  <2>4. Outside' \subseteq Outside
    BY <2>1, <2>2, OutsideFewer DEF Unplanned, InSprint, InSprints
  <2> QED
    BY <1>0, <2>3, <2>4
<1>2. ASSUME NEW S, Publish(S)
      PROVE  Sound
  <2>1. /\ UNCHANGED schedule /\ DOMAIN initiatives' = DOMAIN initiatives
        /\ \A j \in DOMAIN initiatives : InitiativeSteady(j)
        /\ \A s \in DOMAIN stories' : StorySteady(s)
        /\ \A w \in DOMAIN items' : ItemSteady(w) /\ items'[w].date = items[w].date
    BY <1>2 DEF Publish, InitiativeSteady, StorySteady, ItemSteady, TypeOK
  <2> QED
    BY <1>0, <2>1, NothingMoves
<1>3. ASSUME NEW i, Withdraw(i)
      PROVE  Sound
  <2>1. /\ UNCHANGED schedule /\ DOMAIN initiatives' = DOMAIN initiatives
        /\ \A j \in DOMAIN initiatives : InitiativeSteady(j)
        /\ \A s \in DOMAIN stories' : StorySteady(s)
        /\ \A w \in DOMAIN items' : ItemSteady(w) /\ items'[w].date = items[w].date
    BY <1>3 DEF Withdraw, InitiativeSteady, StorySteady, ItemSteady, TypeOK
  <2> QED
    BY <1>0, <2>1, NothingMoves
<1>4. ASSUME NEW i, NEW confirm, DeleteInitiative(i, confirm)
      PROVE  Sound
  BY <1>0, <1>4, RemovalMovesNothing DEF DeleteInitiative
<1>5. ASSUME NEW rows, Replaced(rows), UNCHANGED schedule,
             \A i \in DOMAIN rows : InSprints(rows[i].at) \/ Same(rows, i)
      PROVE  Outside' \subseteq Outside /\ Misdated' \subseteq Misdated
  <2>1. /\ \A s \in DOMAIN stories' : StorySteady(s)
        /\ \A w \in DOMAIN items' : ItemSteady(w) /\ items'[w].date = items[w].date
    BY <1>5, Replacing DEF Except, StorySteady, ItemSteady
  <2>2. \A i \in DOMAIN initiatives' : InitiativeSteady(i) \/ InSprints(initiatives'[i].at)
    <3>1. initiatives' = rows
      BY <1>5, Replacing
    <3> QED
      BY <1>5, <3>1 DEF InitiativeSteady, Same
  <2> QED
    BY <1>5, <2>1, <2>2, OutsideFewer, MisdatedFewer
<1>7. ASSUME NEW i, NEW asked \in Requests, NEW gone, EditExecutors(i, asked, gone)
      PROVE  Sound
  <2> DEFINE rows == Except(Served(initiatives, asked), gone)
  <2>1. \A j \in DOMAIN rows :
            \/ Same(rows, j)
            \/ InSprints(rows[j].at) /\ (j \in DOMAIN initiatives => Askable(j))
    BY <1>7, ServedRows DEF EditExecutors, Except, Same
  <2>2. Replaced(rows) /\ UNCHANGED schedule
    BY <1>7 DEF EditExecutors
  <2> HIDE DEF rows
  <2>3. Outside' \subseteq Outside /\ Misdated' \subseteq Misdated
    BY <1>5, <2>1, <2>2
  <2>4. LateStep
    BY <2>1, <2>2, ReplacedLate
  <2> QED
    BY <2>3, <2>4 DEF Sound, OutsideStep, MisdatedStep
<1>8. ASSUME NEW plan \in Plans, NEW asked \in Requests, PutPrePI(plan, asked)
      PROVE  Sound
  <2> DEFINE row(i) == [on_board |-> plan[i].on_board, generated |-> i \in ServiceCards,
                        at |-> plan[i].at]
             sent == [i \in DOMAIN plan |-> row(i)]
             rows == Served(sent, asked)
  <2>1. \A i \in DOMAIN sent : InSprints(sent[i].at)
    BY <1>8 DEF PutPrePI
  <2>2. \A j \in DOMAIN asked : InSprints(InSprint(asked[j]))
    BY <1>8 DEF PutPrePI
  <2>3. Replaced(rows) /\ UNCHANGED schedule
    BY <1>8 DEF PutPrePI
  <2> HIDE DEF sent
  <2>4. \A j \in DOMAIN rows : InSprints(rows[j].at)
    BY <2>1, <2>2 DEF Served
  <2> HIDE DEF rows
  <2>5. Outside' \subseteq Outside /\ Misdated' \subseteq Misdated
    BY <1>5, <2>3, <2>4
  <2> QED
    BY <1>8, <2>5 DEF Sound, LateStep, OutsideStep, MisdatedStep
<1> QED
  BY <1>1, <1>2, <1>3, <1>4, <1>6, <1>7, <1>8 DEF PrePICommand

(* An initiative moves to where none of its children is too late. *)
LEMMA ParentMoved ==
    ASSUME TypeOK, TypeOK', NEW i, NEW at, InSprints(at), ChildrenFit(i, at),
           initiatives' = [initiatives EXCEPT ![i].at = at],
           UNCHANGED <<schedule, stories, items>>
    PROVE  Late' \subseteq Late /\ Outside' \subseteq Outside /\ Misdated' \subseteq Misdated
<1>1. /\ \A j \in DOMAIN initiatives' \ {i} : InitiativeSteady(j)
      /\ i \in DOMAIN initiatives' => initiatives'[i].at = at
  BY DEF InitiativeSteady, TypeOK
<1>2. /\ \A s \in DOMAIN stories' : StorySteady(s) /\ stories[s].of \in DOMAIN initiatives'
      /\ \A w \in DOMAIN items' :
             /\ ItemSteady(w) /\ items'[w].date = items[w].date
             /\ items[w].of \in DOMAIN initiatives'
  BY DEF StorySteady, ItemSteady, TypeOK
<1>3. ASSUME NEW s \in DOMAIN stories'
      PROVE  \/ StorySteady(s) /\ InitiativeSteady(stories[s].of)
             \/ ~ After(stories'[s].at, initiatives'[stories'[s].of].at)
  BY <1>1, <1>2 DEF ChildrenFit, StoriesOf
<1>4. ASSUME NEW w \in DOMAIN items'
      PROVE  \/ ItemSteady(w) /\ InitiativeSteady(items[w].of)
             \/ ~ After(items'[w].at, initiatives'[items'[w].of].at)
  BY <1>1, <1>2 DEF ChildrenFit, ItemsOf
<1>5. Late' \subseteq Late
  BY <1>3, <1>4, LateFewer
<1>6. Outside' \subseteq Outside
  BY <1>1, <1>2, OutsideFewer
<1>7. Misdated' \subseteq Misdated
  BY <1>2, MisdatedFewer
<1> QED
  BY <1>5, <1>6, <1>7

(* What a snapshot of a team board writes was compared and validated. *)
LEMMA SnapshotSound ==
    ASSUME TypeOK, TypeOK', NEW board \in Boards, PutTeamBoard(board)
    PROVE  Late' \subseteq Late /\ Outside' \subseteq Outside /\ Misdated' \subseteq Misdated
<1>1. SnapshotTaken(board) /\ BoardAccepted(board) /\ UNCHANGED schedule
  BY PutTeamBoardTyped DEF PutTeamBoard
<1>2. /\ \A i \in DOMAIN initiatives' :
             /\ i \in DOMAIN board => InSprints(initiatives'[i].at)
             /\ i \notin DOMAIN board => InitiativeSteady(i)
      /\ \A i \in DOMAIN initiatives' : i \in DOMAIN board => initiatives'[i].at = board[i].at
  BY <1>1 DEF SnapshotTaken, BoardAccepted, InitiativeSteady
<1>3. ASSUME NEW s \in DOMAIN stories'
      PROVE  /\ \/ StorySteady(s) /\ InitiativeSteady(stories[s].of)
                \/ ~ After(stories'[s].at, initiatives'[stories'[s].of].at)
             /\ StorySteady(s) \/ InSprints(stories'[s].at)
  <2>1. stories'[s].of \in DOMAIN initiatives'
    BY DEF TypeOK
  <2>2. CASE StorySteady(s) /\ stories[s].of \notin DOMAIN board
    BY <1>2, <2>1, <2>2 DEF StorySteady
  <2>3. ASSUME NEW i \in DOMAIN board, s \in DOMAIN board[i].stories,
               stories'[s] = [of |-> i, at |-> board[i].stories[s]]
        PROVE  /\ ~ After(stories'[s].at, initiatives'[stories'[s].of].at)
               /\ InSprints(stories'[s].at)
    BY <1>1, <1>2, <2>1, <2>3 DEF BoardAccepted
  <2> QED
    BY <1>1, <2>2, <2>3 DEF SnapshotTaken, StorySteady
<1>4. ASSUME NEW w \in DOMAIN items'
      PROVE  /\ \/ ItemSteady(w) /\ InitiativeSteady(items[w].of)
                \/ ~ After(items'[w].at, initiatives'[items'[w].of].at)
             /\ ItemSteady(w) \/ InSprints(items'[w].at)
             /\ \/ ItemSteady(w) /\ items'[w].date = items[w].date
                \/ items'[w].date = None
                \/ DateInCycle(items'[w].date) /\ items'[w].at = PeriodOf(items'[w].date)
  <2>1. items'[w].of \in DOMAIN initiatives'
    BY DEF TypeOK
  <2>2. CASE w \in DOMAIN items /\ items'[w] = items[w] /\ items[w].of \notin DOMAIN board
    BY <1>2, <2>1, <2>2 DEF ItemSteady
  <2>3. ASSUME NEW i \in DOMAIN board, w \in DOMAIN board[i].items,
               items'[w] = [of |-> i, story |-> board[i].items[w].story,
                            at |-> Dated(board[i].items[w].date, board[i].items[w].at),
                            date |-> board[i].items[w].date]
        PROVE  /\ ~ After(items'[w].at, initiatives'[items'[w].of].at)
               /\ InSprints(items'[w].at)
               /\ \/ items'[w].date = None
                  \/ DateInCycle(items'[w].date) /\ items'[w].at = PeriodOf(items'[w].date)
    BY <1>1, <1>2, <2>1, <2>3 DEF BoardAccepted, Datable, Dated
  <2> QED
    BY <1>1, <2>2, <2>3 DEF SnapshotTaken
<1>5. Late' \subseteq Late
  BY <1>3, <1>4, LateFewer
<1>6. Outside' \subseteq Outside
  BY <1>1, <1>2, <1>3, <1>4, OutsideFewer
<1>7. Misdated' \subseteq Misdated
  BY <1>1, <1>4, MisdatedFewer
<1> QED
  BY <1>5, <1>6, <1>7

LEMMA TeamBoardSound ==
    ASSUME TypeOK, TypeOK', TeamBoardCommand
    PROVE  Sound
<1>0. ASSUME Late' \subseteq Late, Outside' \subseteq Outside, Misdated' \subseteq Misdated
      PROVE  Sound
  BY <1>0 DEF Sound, LateStep, OutsideStep, MisdatedStep
<1> USE DEF InitiativeSteady, StorySteady, ItemSteady
<1>1. ASSUME NEW i, NEW at, RescheduleInitiative(i, at)
      PROVE  Sound
  <2>1. /\ UNCHANGED <<schedule, stories, items>> /\ InSprints(at) /\ ChildrenFit(i, at)
        /\ initiatives' = [initiatives EXCEPT ![i].at = at]
    BY <1>1 DEF RescheduleInitiative
  <2> QED
    BY <1>0, <2>1, ParentMoved
<1>a. ASSUME NEW s, UNCHANGED <<schedule, initiatives, items>>,
             \A r \in DOMAIN stories' \ {s} : StorySteady(r),
             s \in DOMAIN stories', InSprints(stories'[s].at),
             ~ After(stories'[s].at, initiatives[stories'[s].of].at)
      PROVE  Sound
  <2>1. Late' \subseteq Late
    BY <1>a, LateFewer DEF TypeOK
  <2>2. Outside' \subseteq Outside
    BY <1>a, OutsideFewer
  <2>3. Misdated' \subseteq Misdated
    BY <1>a, MisdatedFewer
  <2> QED
    BY <1>0, <2>1, <2>2, <2>3
<1>b. ASSUME NEW s, NEW i, NEW at, CreateStory(s, i, at)
      PROVE  Sound
  <2>1. /\ UNCHANGED <<schedule, initiatives, items>>
        /\ InSprints(at) /\ ~ After(at, initiatives[i].at)
        /\ stories' = With(stories, s, [of |-> i, at |-> at])
    BY <1>b DEF CreateStory
  <2>2. /\ \A r \in DOMAIN stories' \ {s} : StorySteady(r)
        /\ s \in DOMAIN stories' /\ stories'[s] = [of |-> i, at |-> at]
    BY <2>1 DEF With
  <2> QED
    BY <1>a, <2>1, <2>2
<1>2. ASSUME NEW s, NEW at, MoveStory(s, at)
      PROVE  Sound
  <2>1. /\ UNCHANGED <<schedule, initiatives, items>> /\ s \in DOMAIN stories
        /\ InSprints(at) /\ ~ After(at, initiatives[stories[s].of].at)
        /\ stories' = [stories EXCEPT ![s].at = at]
    BY <1>2 DEF MoveStory
  <2>2. /\ \A r \in DOMAIN stories' \ {s} : StorySteady(r)
        /\ s \in DOMAIN stories' /\ stories'[s].at = at /\ stories'[s].of = stories[s].of
    BY <2>1 DEF TypeOK
  <2> QED
    BY <1>a, <2>1, <2>2
<1>3. ASSUME NEW s, NEW confirm, DeleteStory(s, confirm)
      PROVE  Sound
  BY <1>0, <1>3, RemovalMovesNothing DEF DeleteStory
<1>4. ASSUME NEW w, UNCHANGED <<schedule, initiatives, stories>>,
             \A v \in DOMAIN items' \ {w} : v \in DOMAIN items /\ items'[v] = items[v],
             w \in DOMAIN items', InSprints(items'[w].at),
             ~ After(items'[w].at, initiatives[items'[w].of].at),
             items'[w].date # None => /\ DateInCycle(items'[w].date)
                                      /\ items'[w].at = PeriodOf(items'[w].date)
      PROVE  Sound
  <2>1. Late' \subseteq Late
    BY <1>4, LateFewer DEF TypeOK
  <2>2. Outside' \subseteq Outside
    BY <1>4, OutsideFewer
  <2>3. Misdated' \subseteq Misdated
    BY <1>4, MisdatedFewer
  <2> QED
    BY <1>0, <2>1, <2>2, <2>3
<1>5. ASSUME NEW w, NEW i, NEW story, NEW at, NEW date, CreateItem(w, i, story, at, date)
      PROVE  Sound
  <2>1. /\ \A v \in DOMAIN items' \ {w} : v \in DOMAIN items /\ items'[v] = items[v]
        /\ w \in DOMAIN items'
        /\ items'[w] = [of |-> i, story |-> story, at |-> Dated(date, at), date |-> date]
    BY <1>5 DEF CreateItem, With
  <2> QED
    BY <1>4, <1>5, <2>1 DEF CreateItem, Datable, Dated
<1>6. ASSUME NEW w, NEW story, NEW date \in Dates, DateItem(w, story, date)
      PROVE  Sound
  <2>1. InSprints(PeriodOf(date))
    BY <1>6, Types, PeriodInCycle, PlanBoardAssumption DEF DateItem, Tables
  <2>2. /\ w \in DOMAIN items /\ DateInCycle(date)
        /\ ~ After(PeriodOf(date), initiatives[items[w].of].at)
        /\ items' = [items EXCEPT ![w].story = story, ![w].date = date, ![w].at = PeriodOf(date)]
        /\ UNCHANGED <<schedule, initiatives, stories>>
    BY <1>6 DEF DateItem
  <2>3. /\ \A v \in DOMAIN items' \ {w} : v \in DOMAIN items /\ items'[v] = items[v]
        /\ w \in DOMAIN items'
        /\ items'[w].of = items[w].of /\ items'[w].date = date /\ items'[w].at = PeriodOf(date)
    BY <2>2 DEF TypeOK
  <2> QED
    BY <1>4, <2>1, <2>2, <2>3
<1>7. ASSUME NEW w, NEW story, NEW at, MoveItem(w, story, at)
      PROVE  Sound
  <2>1. /\ w \in DOMAIN items /\ InSprints(at)
        /\ ~ After(at, initiatives[items[w].of].at)
        /\ items' = [items EXCEPT ![w].story = story, ![w].date = None, ![w].at = at]
        /\ UNCHANGED <<schedule, initiatives, stories>>
    BY <1>7 DEF MoveItem
  <2>2. /\ \A v \in DOMAIN items' \ {w} : v \in DOMAIN items /\ items'[v] = items[v]
        /\ w \in DOMAIN items'
        /\ items'[w].of = items[w].of /\ items'[w].date = None /\ items'[w].at = at
    BY <2>1 DEF TypeOK
  <2> QED
    BY <1>4, <2>1, <2>2
<1>8. ASSUME NEW w, NEW story, NEW date, RelinkItem(w, story, date)
      PROVE  Sound
  <2>1. /\ w \in DOMAIN items /\ date \in {items[w].date, None}
        /\ items' = [items EXCEPT ![w].story = story, ![w].date = date]
        /\ UNCHANGED <<schedule, initiatives, stories>>
    BY <1>8 DEF RelinkItem
  <2>2. \A v \in DOMAIN items' : ItemSteady(v) /\ items'[v].date \in {items[v].date, None}
    BY <2>1 DEF TypeOK
  <2>3. Late' \subseteq Late
    BY <2>1, <2>2, LateFewer DEF TypeOK
  <2>4. Outside' \subseteq Outside
    BY <2>1, <2>2, OutsideFewer
  <2>5. Misdated' \subseteq Misdated
    BY <2>1, <2>2, MisdatedFewer
  <2> QED
    BY <1>0, <2>3, <2>4, <2>5
<1>9. ASSUME NEW w, NEW confirm, DeleteItem(w, confirm)
      PROVE  Sound
  BY <1>0, <1>9, RemovalMovesNothing DEF DeleteItem
<1>10. ASSUME NEW board \in Boards, PutTeamBoard(board)
       PROVE  Sound
  BY <1>0, <1>10, SnapshotSound
<1> QED
  BY <1>1, <1>b, <1>2, <1>3, <1>5, <1>6, <1>7, <1>8, <1>9, <1>10 DEF TeamBoardCommand

LEMMA ProgramBoardSound ==
    ASSUME TypeOK, TypeOK', ProgramBoardCommand
    PROVE  Sound
<1>0. ASSUME Late' \subseteq Late, Outside' \subseteq Outside, Misdated' \subseteq Misdated
      PROVE  Sound
  BY <1>0 DEF Sound, LateStep, OutsideStep, MisdatedStep
<1>1. ASSUME NEW i, NEW sprint, MoveOnProgramBoard(i, sprint)
      PROVE  Sound
  <2> DEFINE at == InSprint(sprint)
  <2>1. /\ UNCHANGED <<schedule, stories, items>> /\ InSprints(at) /\ ChildrenFit(i, at)
        /\ initiatives' = [initiatives EXCEPT ![i].at = at]
    BY <1>1 DEF MoveOnProgramBoard
  <2> HIDE DEF at
  <2> QED
    BY <1>0, <2>1, ParentMoved
<1>2. ASSUME UNCHANGED <<schedule, initiatives, stories, items>>
      PROVE  Sound
  <2>1. /\ DOMAIN initiatives' \subseteq DOMAIN initiatives
        /\ \A i \in DOMAIN initiatives : InitiativeSteady(i)
        /\ \A s \in DOMAIN stories' : StorySteady(s)
        /\ \A w \in DOMAIN items' : ItemSteady(w) /\ items'[w].date = items[w].date
    BY <1>2 DEF InitiativeSteady, StorySteady, ItemSteady
  <2> QED
    BY <1>0, <1>2, <2>1, NothingMoves
<1> QED
  BY <1>1, <1>2 DEF ProgramBoardCommand, Connect, Reconnect, Disconnect, PutProgramBoard

(* A shorter schedule takes rows out of what they are late or outside of. *)
LEMMA CycleUpdated ==
    ASSUME TypeOK, TypeOK', NEW start, NEW count \in Nat \ {0}, NEW unassign,
           UpdateCycle(start, count, unassign)
    PROVE  /\ Late' \subseteq Late /\ Outside' \subseteq Outside
           /\ schedule' = schedule => Misdated' \subseteq Misdated
<1> USE PlanBoardAssumption
<1> DEFINE new(p) == Unassigned(p, count)
<1>1. /\ schedule' = [start |-> start, count |-> count]
      /\ DOMAIN initiatives' = DOMAIN initiatives
      /\ \A i \in DOMAIN initiatives : initiatives'[i].at = new(initiatives[i].at)
      /\ DOMAIN stories' = DOMAIN stories
      /\ \A s \in DOMAIN stories : /\ stories'[s].at = new(stories[s].at)
                                   /\ stories'[s].of = stories[s].of
      /\ DOMAIN items' = DOMAIN items
      /\ \A w \in DOMAIN items :
             /\ items'[w].at = new(items[w].at)
             /\ items'[w].of = items[w].of /\ items'[w].date = items[w].date
  BY DEF UpdateCycle, TypeOK
<1>2. /\ \A i \in DOMAIN initiatives : initiatives[i].at \in Position
      /\ \A s \in DOMAIN stories :
             stories[s].at \in Position /\ stories[s].of \in DOMAIN initiatives
      /\ \A w \in DOMAIN items :
             items[w].at \in Position /\ items[w].of \in DOMAIN initiatives
  BY DEF TypeOK
<1>3. \A p, q \in Position : After(new(p), new(q)) => After(p, q)
  BY DEF Unassigned, Beyond, Unplanned, InSprint, After, Position
<1>4. \A p \in Position : InSprints(p) => InSprints(new(p))'
  BY <1>1 DEF Unassigned, Beyond, Unplanned, InSprint, InSprints, Position
<1>5. Late' \subseteq Late
  <2> HIDE DEF new
  <2>1. LateStories' \subseteq LateStories
    BY <1>1, <1>2, <1>3 DEF LateStories
  <2>2. LateItems' \subseteq LateItems
    BY <1>1, <1>2, <1>3 DEF LateItems
  <2> QED
    BY <2>1, <2>2, LateRows
<1>6. Outside' \subseteq Outside
  <2> HIDE DEF new
  <2>1. OutInitiatives' \subseteq OutInitiatives
    BY <1>1, <1>2, <1>4 DEF OutInitiatives
  <2>2. OutStories' \subseteq OutStories
    BY <1>1, <1>2, <1>4 DEF OutStories
  <2>3. OutItems' \subseteq OutItems
    BY <1>1, <1>2, <1>4 DEF OutItems
  <2> QED
    BY <2>1, <2>2, <2>3, OutsideRows
<1>7. ASSUME schedule' = schedule
      PROVE  Misdated' \subseteq Misdated
  <2> SUFFICES ASSUME NEW w \in DOMAIN items, w \notin Misdated, items[w].date # None
               PROVE  DateInCycle(items[w].date) /\ items'[w].at = PeriodOf(items[w].date)
    BY <1>1, <1>7 DEF Misdated, DateInCycle, PeriodOf
  <2>1. DateInCycle(items[w].date) /\ items[w].at = PeriodOf(items[w].date)
    BY DEF Misdated
  <2>2. InSprints(items[w].at) /\ items[w].at.sprint # None
    BY <2>1, Types, PeriodInCycle DEF TypeOK, Tables
  <2>3. items'[w].at = items[w].at
    BY <1>1, <1>2, <1>7, <2>2 DEF Unassigned, Beyond, InSprints, Position
  <2> QED
    BY <2>1, <2>3
<1> QED
  BY <1>5, <1>6, <1>7

LEMMA CycleSound ==
    ASSUME TypeOK, TypeOK', CycleCommand
    PROVE  Sound
<1>0. ASSUME Late' \subseteq Late, Outside' \subseteq Outside, Misdated' \subseteq Misdated
      PROVE  Sound
  BY <1>0 DEF Sound, LateStep, OutsideStep, MisdatedStep
<1>1. ASSUME NEW start \in Starts, NEW count \in Counts, NEW unassign,
             UpdateCycle(start, count, unassign)
      PROVE  Sound
  BY <1>1, CycleUpdated, PlanBoardAssumption DEF Sound, LateStep, OutsideStep, MisdatedStep
<1>2. ASSUME NEW start \in Starts, NEW count \in Counts, StoreSchedule(start, count)
      PROVE  Sound
  <2>1. UNCHANGED <<initiatives, stories, items>>
    BY <1>2 DEF StoreSchedule
  <2>2. Late' \subseteq Late
    BY <2>1 DEF Late, Children, Child
  <2>3. MisdatedStep
    BY <2>1 DEF MisdatedStep, Misdated, DateInCycle, PeriodOf
  <2> QED
    BY <1>2, <2>2, <2>3 DEF Sound, LateStep, OutsideStep
<1>3. ASSUME NEW i, ResetInitiative(i)
      PROVE  Sound
  <2> DEFINE lost == StoriesOf(i) \cup ItemsOf(i)
  <2>1. /\ initiatives' = [initiatives EXCEPT ![i].on_board = FALSE, ![i].at = Unplanned]
        /\ stories' = Except(stories, lost) /\ items' = Except(items, lost)
        /\ UNCHANGED schedule
    BY <1>3 DEF ResetInitiative
  <2>2. /\ \A j \in DOMAIN initiatives' \ {i} : InitiativeSteady(j)
        /\ i \in DOMAIN initiatives' => initiatives'[i].at = Unplanned
    BY <2>1 DEF InitiativeSteady
  <2>3. \A s \in DOMAIN stories' : StorySteady(s) /\ stories[s].of # i
    BY <2>1 DEF Except, StorySteady, StoriesOf
  <2>4. \A w \in DOMAIN items' :
            ItemSteady(w) /\ items'[w].date = items[w].date /\ items[w].of # i
    BY <2>1 DEF Except, ItemSteady, ItemsOf
  <2>5. InSprints(Unplanned)
    BY DEF InSprints, InSprint, Unplanned
  <2>6. Late' \subseteq Late
    BY <2>2, <2>3, <2>4, LateFewer DEF TypeOK, StorySteady, ItemSteady
  <2>7. Outside' \subseteq Outside
    BY <2>1, <2>2, <2>3, <2>4, <2>5, OutsideFewer
  <2>8. Misdated' \subseteq Misdated
    BY <2>1, <2>4, MisdatedFewer
  <2> QED
    BY <1>0, <2>6, <2>7, <2>8
<1>4. ASSUME NEW W, DropItems(W)
      PROVE  Sound
  BY <1>0, <1>4, RemovalMovesNothing DEF DropItems
<1> QED
  BY <1>1, <1>2, <1>3, <1>4 DEF CycleCommand

LEMMA StepSound == TypeOK /\ [Next]_vars => [LateStep]_vars /\ [OutsideStep /\ MisdatedStep]_vars
BY StepTyped, PrePISound, TeamBoardSound, ProgramBoardSound, CycleSound DEF Next, Sound

(* Children become later than their initiative by the PUT of Pre PI, or when *)
(* a form places their service card, taken off the boards, again; in all     *)
(* else the checks of the focused commands, the snapshot of a team board,    *)
(* the move on the program board and the cut of the schedule agree with each *)
(* other (_validate_initiative_children_period, _period_after_parent).       *)
THEOREM LateByPrePIOnly == Spec => LateByPrePI
<1>1. TypeOK /\ [Next]_vars => [LateStep]_vars
  BY StepSound
<1>2. Spec => [][LateStep]_vars
  BY <1>1, RowsWellFormed, PTL DEF Spec
<1> QED
  BY <1>2 DEF LateByPrePI, LateStep

(* A row leaves the schedule only where a schedule is stored without a look *)
(* at the rows, or is created outside of it; a date and its period part     *)
(* only under a new schedule.                                               *)
THEOREM PlanStaysInSchedule == Spec => PlanInSchedule
<1> DEFINE ScheduleStep ==
        /\ \/ Outside' \subseteq Outside
           \/ \E start \in Starts, count \in Counts : StoreSchedule(start, count)
           \/ \E i \in Initiatives, at \in Posted : CreateInitiative(i, at)
        /\ Misdated' \subseteq Misdated \/ schedule' # schedule
<1>1. TypeOK /\ [Next]_vars => [ScheduleStep]_vars
  <2>1. OutsideStep /\ MisdatedStep => ScheduleStep
    BY DEF OutsideStep, MisdatedStep
  <2> HIDE DEF ScheduleStep
  <2> QED
    BY <2>1, StepSound
<1>2. Spec => [][ScheduleStep]_vars
  <2> HIDE DEF ScheduleStep
  <2> QED
    BY <1>1, RowsWellFormed, PTL DEF Spec
<1> QED
  BY <1>2 DEF PlanInSchedule

-----------------------------------------------------------------------------
(* Whatever deletes, replaces or resets rows of the plan, an arrow joins   *)
(* two different rows that exist, and no arrow is drawn twice              *)
(* (delete_dangling_connections, uq_board_connection_directed_edge).       *)
THEOREM NoDanglingArrow == Spec => []ArrowsLive
<1>1. Init => ArrowsLive
  BY DEF Init, Empty, ArrowsLive
<1>2. ArrowsLive /\ [Next]_vars => ArrowsLive'
  <2>1. ArrowsLive /\ UNCHANGED vars => ArrowsLive'
    BY DEF vars, ArrowsLive, Exists
  <2> QED
    BY <2>1, PrePIKeepsArrows, TeamBoardKeepsArrows, ProgramBoardKeepsArrows, CycleKeepsArrows
    DEF Next
<1> QED
  BY <1>1, <1>2, PTL DEF Spec

(* The step of a focused delete without its confirmation. *)
OneRowOnly ==
    Unconfirmed =>
        \E x \in Rows : /\ Rows' = Rows \ {x}
                        /\ \A c \in DOMAIN connections \ DOMAIN connections' :
                               x \in Initiatives /\ ~ OnBoard(x) /\ c \in ArrowsAt({x})

(* A focused delete that was not confirmed takes one row, and an arrow only *)
(* with an initiative that was withdrawn (CascadeRequired of the team       *)
(* boards and of Pre PI).                                                   *)
THEOREM UnconfirmedTakesOneRow == Spec => LossesConfirmed
<1>1. ASSUME Unconfirmed
      PROVE  \E x \in Rows : /\ Rows' = Rows \ {x}
                             /\ \A c \in DOMAIN connections \ DOMAIN connections' :
                                    x \in Initiatives /\ ~ OnBoard(x) /\ c \in ArrowsAt({x})
  <2>1. ASSUME NEW x, Remove({x})
        PROVE  /\ Rows' = Rows \ {x}
               /\ DOMAIN connections \ DOMAIN connections' \subseteq ArrowsAt({x})
    <3>1. Rows' = Rows \ {x}
      BY <2>1 DEF Remove, Rows, Except
    <3>2. DOMAIN connections' = DOMAIN connections \ ArrowsAt({x})
      BY <2>1 DEF Remove, Except
    <3> QED
      BY <3>1, <3>2
  <2>2. ASSUME NEW i \in Initiatives, DeleteInitiative(i, FALSE)
        PROVE  Remove({i}) /\ i \in Rows /\ ~ OnBoard(i)
    <3>1. {i} \cup StoriesOf(i) \cup ItemsOf(i) = {i} /\ ~ OnBoard(i)
      BY <2>2 DEF DeleteInitiative
    <3> QED
      BY <2>2, <3>1 DEF DeleteInitiative, Rows
  <2>3. ASSUME NEW s \in Stories, DeleteStory(s, FALSE)
        PROVE  Remove({s}) /\ s \in Rows /\ ArrowsAt({s}) = {}
    <3> DEFINE children == {w \in DOMAIN items : items[w].story = s}
    <3>1. children = {} /\ ArrowsAt({s} \cup children) = {} /\ Remove({s} \cup children)
      BY <2>3 DEF DeleteStory
    <3>2. {s} \cup children = {s}
      BY <3>1
    <3> QED
      BY <2>3, <3>1, <3>2 DEF DeleteStory, Rows
  <2>4. ASSUME NEW w \in WorkItems, DeleteItem(w, FALSE)
        PROVE  Remove({w}) /\ w \in Rows /\ ArrowsAt({w}) = {}
    BY <2>4 DEF DeleteItem, Rows
  <2>5. CASE \E i \in Initiatives : DeleteInitiative(i, FALSE)
    BY <2>1, <2>2, <2>5
  <2>6. CASE \E s \in Stories : DeleteStory(s, FALSE)
    BY <2>1, <2>3, <2>6
  <2>7. CASE \E w \in WorkItems : DeleteItem(w, FALSE)
    BY <2>1, <2>4, <2>7
  <2> QED
    BY <1>1, <2>5, <2>6, <2>7 DEF Unconfirmed
<1>2. [OneRowOnly]_vars
  BY <1>1 DEF OneRowOnly
<1>3. [][OneRowOnly]_vars
  BY <1>2, PTL
<1> QED
  BY <1>3, PTL DEF LossesConfirmed, OneRowOnly
=============================================================================
