# Verification of the PI planning service

TLA+ models of the service in this repository (a FastAPI backend over
PostgreSQL, a browser front end in plain JavaScript, a Jira client), the TLC
configurations that check them on small instances, and TLAPS proofs of the
main results for every value of the constants.

## 1. The system

Editors work on two kinds of *aggregates*: one global **backlog** and one **PI
cycle** per quarter.  A cycle has several sections (PI data, Pre PI, goals, team
boards, capacity, program board, risks); each section is a view of the browser
with a read model and commands of its own, but all sections of a cycle share
one version number.  The backend handles each command in one database
transaction and answers with the section's new read model.

| Component | State it keeps | Operations | What makes it correct |
| --- | --- | --- | --- |
| Optimistic locking (`services/optimistic_locking.py`, all of `api/`) | version rows `pi_cycles.version`, `backlog_board_state.version`; row locks; the version each page holds | lock, compare, raise, commit, roll back, answer, read | no edit is overwritten unseen; versions count edits; no deadlock |
| Browser synchronisation (`frontend/js/api.js`) | `cycleVersions`, one view per section, the mutation chain, save timers | section reads, commands, refresh after a command, reload after a conflict | a view that is sent back is as new as the version sent with it |
| Backlog board (`services/backlog_board.py`) | items, keys, order, status, `sent_to` | create, edit, delete, reorder, replace, dispatch into a cycle | unique keys; each initiative stays linked to its own item; sent is final |
| Jira limiter (`services/jira.py`) | two counters and a condition's queue | enter, wait, time out, be cancelled, leave | limits hold, counters never drift, no lost wake-up |
| Jira import and refresh (`api/jira.py`) | none of its own | read key, call Jira, lock, merge | nothing is written on the strength of a stale key |
| Pre PI (`services/pre_pi.py`) | initiatives: status, block, order, executors, attractions | edit, move, delete, submit, replace | the life cycle of an initiative; no dangling links |
| Team boards, program board | stories, work items, sprint positions, edges | create, move, agree, connect | children never before their parent; edges of live ends, each once |
| PI data and setup (`services/pi_cycle_data.py`, `cycle_setup.py`) | schedule, events, teams, options, tags | edit schedule, remove team, replace | nothing is scheduled outside the cycle or assigned to a removed team |
| Goals, risks, capacity | rows with links and orders; calendars | CRUD, links, reorder | links inside the cycle, orders total, workday arithmetic |
| Audit (`audit/`) | two sinks, a circuit breaker | write, fail, skip | one sink's failure does not touch the other |
| Authentication (`auth/`) | a signed cookie | log in, check | stateless |
| Navigation (`api/navigation.py`) | none | find or create a cycle | idempotent creation |

**How they interact.**  Every command takes the version row of its aggregate
with `SELECT ... FOR UPDATE`, compares the client's `expected_version`, raises
the version, changes the data and commits.  Backlog commands may reach into
cycles: a dispatch copies items into its target cycle, a confirmed delete or
replace unlinks initiatives in every cycle that holds copies; then those
cycles' rows are locked and raised as well.  Jira is called before the
transaction begins.  The browser sends its mutations through one queue per page
and re-reads neighbouring sections after a command.

**What is hard.**  Interleaved transactions at READ COMMITTED; reads made of
several statements; answers that are built after the lock is gone; a session
that keeps its objects over the commit; a missing row that two requests insert;
locks on several rows; asyncio tasks woken, timed out and cancelled at the same
moment; one shared version for views that were read at different times.
`PROJECT.json` lists these hazards at their lines, with the properties that
cover them.

## 2. Modules

| Module | What it is | Composes |
| --- | --- | --- |
| `VersionedStore` | abstract: an editor takes aggregates for itself and edits all of them at once; checked edits only from editors that have seen everything | |
| `OptimisticLocking` | transactions, row locks, versions, pages | refines `VersionedStore` |
| `OptimisticLocking_proofs` | theorems about it | |
| `SlotPool` | abstract: a pool of slots with a bounded waiting room | |
| `JiraLimiter` | counters, condition queue, timers | refines `SlotPool` |
| `JiraLimiter_proofs` | theorems about it | |
| `Backlog` | the items of the backlog, the initiatives of the cycles, the links, requests and service cards between them | |
| `Backlog_proofs` | theorems about it | |
| `SectionViews` | one browser page with the sections of a cycle, its two versions, its queue of commands and its parallel reads | stands on `OptimisticLocking`: the server is one check and one commit |
| `SectionViews_proofs` | theorems about it | |
| `CycleGoals` | goals, their links, and the block and publication of initiatives | |
| `CycleGoals_proofs` | theorems about it | |
| `PlanBoard` | positions of initiatives, stories and work items in the schedule, and the arrows between them, under the commands of four sections | |
| `PlanBoard_proofs` | theorems about it | |
| `CycleRoster` | the teams of a cycle, the rows of five tables that follow them, and the requests for other teams, which do not | |
| `CycleRoster_proofs` | theorems about it | |
| `JiraImport` | imports and refreshes from Jira, beside edits of the backlog and of the cycle's teams | stands on `OptimisticLocking` and `JiraLimiter`: an edit by others is one step, the limiter one of Jira's errors |
| `JiraImport_proofs` | theorems about it | |
| `MCBacklog`, `MCSectionViews`, `MCCycleGoals`, `MCPlanBoard`, `MCCycleRoster`, `MCJiraImport` | values and symmetry for the runs | |

### OptimisticLocking

`version[a]`, `edits[a]` and `seeded` are the committed database: the version
row of an aggregate, how many edits its contents have received, and whether the
backlog row exists.  `holder[a]`/`raised[a]` are the row lock and the version
its transaction will write.  `pc`, `cmd`, `todo`, `answer` are the request of
each client; `known` and `seen` are its page: the version it will send and the
edits contained in what it shows.

| Action | Code |
| --- | --- |
| `Send` | a page or client issues a command (`cycleMutation`, `backlogMutation`; the old POST methods send no version) |
| `LockFirst`, `Conflict` | `lock_cycle`, `lock_backlog`: lock, compare, raise or answer 409 |
| `MissMarker`, `InsertLost` | `lock_backlog` finds no row, inserts it, may lose the race |
| `LockNext` | the target cycle of a dispatch; the cycles of `_unlink_dispatched_initiatives`, ordered by id |
| `Commit`, `Abort` | `session.commit()`; any error, the rollback of the session |
| `AnswerVersion`, `AnswerContents` | the read model of the answer, built after the commit from re-read rows and from objects the session kept |
| `ReadVersion`, `ReadContents` | a GET: the version first, then the contents |
| `LoseAnswer` | the answer does not arrive |

`RereadPages` are the pages whose commands re-read the version row after the
commit: PI data and setup (`session.refresh`) and the backlog (`session.get`).
All other sections answer with the cycle object of their own transaction.

### JiraLimiter

One action per stretch of code between two suspensions of a task: `EnterFree`,
`EnterLine` (the immediate refusal changes nothing and is not an action),
`TakeSlot` and `WaitAgain` for a notified waiter, `Interrupt` for the timer or a
cancellation, `Leave` for the interrupted waiter, `Release` after the call.
`line` is the deque of pending futures of the `asyncio.Condition`, which is
external (Python 3.12: a waiter that leaves with an exception passes its
notification on).

### Backlog

`items` and `board` are the rows of the global backlog and their order;
`initiatives` the rows of all cycles with their link to an item (`item`), their
one resource row (`team`) and the flag of a service card (`generated`);
`requests` the attraction rows, by which an initiative asks a team for another
initiative in a sprint.  `raised` is the set of version rows the last command
raised.  Every command locks the version rows of what it touches before it
reads (`OptimisticLocking`), so a command is one action; one that fails is
rolled back and is none.

| Action | Code |
| --- | --- |
| `CreateItem`, `UpdateItem`, `DeleteItem`, `ReorderItems`, `ReplaceBoard` | the functions of `services/backlog_board.py` with their checks of keys and of the status "sent"; deletion unlinks the copies and raises their cycles (`Unlinked`, `CyclesHolding`) |
| `Dispatch` | `dispatch_backlog_items`: choice of a copy for every candidate (`CopyIn`, `Conflict`), all keys at once, the requests for the copies row by row (`RowsAfter`, `RowsStayUnique`) |
| `CreateInitiative`, `EditOwner`, `DeleteInitiative` | `create_initiative`, `update_pre_pi_initiative`, `delete_pre_pi_initiative` |
| `EditExecutors` | `_replace_executors`: checks, service cards for unknown keys, what a request fills in at its target, removal of cards nobody asks for any more |

The order of the board is a sequence that lists every item once; a deletion
takes its item out and leaves the order of the others (`OrderWithout`).
Keys are compared without case by the commands, hence abstract values here.
Which copy a dispatch uses is a parameter of the action; `Assignment` leaves
a choice only where the code makes a new row.

### SectionViews

`version` and `foreign` are the server: the version of the cycle and, section by
section, the version of the last edit of somebody else.  `known` is
`cycleVersions[id]`, `dataKnown` the version inside `piDataViews[id]`, `seen` the
version each section on the page was read at, `command` the head of
`aggregateMutationChain`, `reads` the GET requests in flight.  `unchecked` is
history: a version was taken that `noteCycleReadVersion` would have refused.

| Action | Code |
| --- | --- |
| `OpenCycle`, `Leave` | the landing page and `loadAuthorizedCycle`: the sections of the user one after another; a refusal closes the cycle |
| `SendCommand`, `TakeResult` | `cycleMutation` and `piDataCommand` with the `...Command` functions: what the answer replaces (`Answered`), what is re-read after it (`Reread`) |
| `TakeAnswer`, `RefuseAnswer`, `LoseRead` | `noteCycleReadVersion` and the `apply...` functions; the PI data are taken without the check |
| `TakeRefusal` | the PI data are read again after a conflict, the program board after a refused move |
| `TakeDispatch` | `sendBacklogToPrePI` forgets the version and learns it from the Pre PI view |
| `OtherEdit`, `ServeRead`, `CommitCommand`, `ConflictCommand`, `RefuseCommand` | the server |
| `LoseCommand` | the answer is lost after the commit |

### CycleGoals

`cards` are the initiatives of a cycle (block, publication, the flag of a service
card, the text shared with goals), `goals` the goals with their links, the
initiative they are filed under (`pi_goals.initiative_id`) and their copy of the
text.  Commands: those of `services/goals.py` with its PUT and `submit_pre_pi`; of
`services/pre_pi.py` the ones that create, edit, move and delete initiatives, and
its PUT (`PutPrePI`); the PUT of the team boards (`PutTeamBoards`), which writes
block and publication; the dispatch from the backlog.  `Untied` is
`_delete_or_unlink_goals_for_initiatives`.  `EditInitiative` is the form with
`_replace_executors`: `Served` creates and publishes the service cards it asks
for, and those it asks for no more (`gone`) go with their goals.  `GuardedCommand`
collects the commands that may demand a confirmation, `PutInitiatives` the two
PUTs that write initiatives as they are sent.  Who asks for which service card is
left to `Backlog`: here a form may abandon any of them, which is more than the
code does.  The executor of an initiative is a constant.

### PlanBoard

`schedule` is start and number of sprints; `initiatives`, `stories`, `items` are
the rows with their sprint and week; `connections` the arrows.  One action per
command of `services/team_boards.py` and `services/program_board.py`, with the
commands of Pre PI (`PrePICommand`) and of the cycle data (`CycleCommand`) that
reach into the same rows.  `After`, `ChildrenFit`, `DateInCycle`, `PeriodOf` are
the checks of a position; `Remove` is a deletion with
`delete_dangling_connections`; `Flushable` is what the unique constraint lets a
bulk PUT of arrows do.  `EditExecutors` is the form of Pre PI: `Served` puts a
service card that is not on the boards into the sprint it is asked for, `Replaced`
takes the abandoned ones away with children and arrows.

`Position` is what the two columns can hold, any numbers or none: the POST of an
initiative stores sprint and week as sent (`Posted`; its schema has no bounds and
its handler no check).  Every other command validates (`InSprints`).  `Snapshot` is
the shape of the PUT of the boards; that it names a child once is checked by the
command itself (`BoardAccepted`).

### CycleRoster

`roster` gives the teams of the cycle their competencies; `refs` holds the rows
that name a team: owners and executors, work items with competency and assignee,
members of the capacity, goals, risks, and requests (`asked`, the teams that
`initiative_attractions` of an executor's row name).  None is tied to the roster by
a foreign key.  The commands carry the rows of the first five tables along:
`Relinked` (`_relink_cycle_team`), `Dropped`, `Restricted`, and `Moved`, the swap by
way of temporary teams in `replace_pi_cycle_data`.  They do not touch requests,
which go with the executor's row and are checked only when the form is saved
(`Ask`, which hands owner and executor to the cards it asks for).  A deleted
initiative is one that has lost owner, executor and work items.  Left out: the
older list of requests inside an executor's row, by the *name* of the team, which
renames and removals do rewrite (`_replace_attraction_team`).

### JiraImport

`version`, `items` and `roster` are committed data: the backlog with the teams
each item names, and the teams of the cycle in their order.  `holder` is the row
lock.  Of each request, `page` is what its page showed (the item to refresh and
the version), `asked` the key sent to Jira, `answer` the issue, `command` what it
is about to write.

| Action | Code |
| --- | --- |
| `LoadPage` | the page reads the board with a GET |
| `AskImport`, `AskRefresh`, `ItemGone` | the two handlers of `api/jira.py` up to the call; a refresh reads the key in a transaction of its own |
| `JiraAnswers`, `JiraSilent`, `JiraRefuses` | `JiraClient.get_issue`: an issue (perhaps under a new key), an error that an import survives, any other error |
| `Lock`, `Conflict` | `lock_backlog`, then the board is read and the command made (`Imported`, `Unknown`, `Merged`) |
| `Save`, `Refuse` | the command is checked against the teams read again (`Fits`), and committed or rolled back |
| `HandEdit`, `EditRoster` | everybody else |

`Aliases` gives the names that a team's spelling may stand for (`_aliases`);
`Match` is the first team of the cycle among them (`_match_team`).

## 3. Runs

| Run | Bounds | Shows |
| --- | --- | --- |
| `LockingTwoPages` | 2 pages (one re-reads), backlog and 1 cycle, versions to 3, fair | no lost update for pages that do not re-read, 409 means somebody committed, every request answered, refinement of `VersionedStore` |
| `LockingCascade` | 2 re-reading pages, no backlog row, 2 cycles, versions to 1 | versions count edits over several rows; one lock order |
| `LockingStaleAnswer` | as `LockingTwoPages` | **violated**: see section 5 |
| `Limiter` | 5 requests, 2 slots, queue of 2, tasks run | counters, wake-ups, refinement of `SlotPool`; no free slot beside a sleeping queue; every waiter served or answered 429 |
| `BacklogLinks` | 2 items, 3 initiatives, 2 cycles, 2 keys, no requests | types, unique keys, links that match and stay, versions raised by every change; a dispatch brings every copy up to date and, sent again, changes nothing |
| `BacklogRequests` | 1 item, 3 initiatives, 1 cycle, 3 keys, 2 teams, 1 request per form | copies are no service cards; requests follow the key of what they ask for; a repeated dispatch of an item with a team keeps what its copy asks for |
| `BacklogSwap` | 2 items, 3 initiatives, 3 keys, 2 requests per form | **violated**: see section 5 |
| `SectionViews` | 1 page, 3 roles of 2 or 3 sections, versions to 3, 2 re-reads of a command | a page edits on top of what it does not show only after it took a version unchecked; alone it falls behind its own commands only in the named cases |
| `GoalLinks` | 2 goals, 2 initiatives of one team, one of which may be a service card, 2 snapshots for the PUTs | goals stay filed under a linked initiative; only service cards asked for by a form, and the PUTs, bring the unplanned to the boards; unconfirmed commands lose nothing but whole service cards; a repeated submission adds nothing |
| `PlanCommands` | 2 initiatives, one of which may be a service card, 1 story and 1 work item either may hold, 2 arrows, schedules of 1 and 2 sprints, a posted position in no schedule | arrows join rows that exist; unconfirmed deletes take one row; only Pre PI makes a child late, by its PUT or by asking again for a withdrawn service card; positions leave the schedule only by the commands named |
| `RosterCommands` | 2 teams, 2 competencies of which one comes and goes, one row of every kind | the references of five tables stay in the cycle and move together through renames and swaps while requests keep the old team; unconfirmed commands lose nothing; only the setup leaves misfits |
| `JiraRefresh` | 1 request, 1 item, 2 keys, 2 teams in 4 rosters, versions to 3 | a refresh writes only to the item its page showed, from the issue of its key; Jira never holds up the backlog |

*Bounds.*  `MaxVersion` bounds only the sending of commands: nothing is sent to
an aggregate that old.  A lost update needs two commits between a page's read
and its write, the faulty answer a third; versions up to 3 leave room for all
orders of these.  Cascades need two cycles for an order to matter; one command
of each of two clients suffices for a lock cycle.  For the backlog two items and two
keys allow an exchange of keys, a third initiative stands for one made by hand
or left over; two cycles let an item move from one to the other while its old
copy stays.  Requests need an initiative that asks, one that is asked for and a
copy.  In `SectionViews` a page goes blind with one foreign and one own commit,
and three versions leave room for one more that overtakes; the roles pair a
section that moves the version of the PI data with one that does not, and
sections that re-read each other.  Goals need two initiatives for the one they
are filed under to go while another link stays, and the second may be a service
card that the first asks for; one team suffices, as no command compares the teams
of two goals but by `Matching`.  A roster needs two teams to swap, and one row of a
kind shows whether the kind follows; a request needs a team that asks and one that
is asked, the target of which is then outside the instance.  A plan needs a parent
that a child is moved away from; two sprints of two weeks hold all relations of
two positions, and one position outside of them stands for what the POST stores.  For Jira a second request is to the first what a hand edit is, and
three versions let an item be made, renamed and renamed back; one team of two
that may be taken for the other shows every choice of a match.  These runs stop nowhere but where all ids or versions are used up,
which is why they do not check for deadlock.  The limiter needs more
requests than slots and queue places together, so that a newcomer exists when
both are full.

*Fairness.*  Row locks: PostgreSQL serves the waiters of a row in turn, hence
strong fairness of `LockFirst`, `Conflict` and `LockNext`; a handler that can
run goes on (weak fairness).  Nothing relies on a transaction failing or a
client sending.  Limiter: the event loop runs ready tasks (`LoopSpec`).  That no
slot stays free beside a sleeping queue needs no more; that every waiter leaves
also assumes `TimersFire`: timers fire (`asyncio.wait_for`) and calls end (httpx
timeout).  Jira import: a transaction that has its lock ends; nothing at all is
assumed of Jira.

## 4. Proofs

`OptimisticLocking_proofs` proves, for any sets of clients and cycles and any
bound, `TypeOK`, `VersionCountsEdits`, `LockOrder`, `OnlyCommittedVersions`,
`NoLostUpdate`, `CommitsOnCheckedVersion`, `ConflictBlamesCommit` and the
refinement of `VersionedStore`, from `OptimisticLockingAssumption` alone.  The
safety properties are not inductive: that a careful page is up to date needs
the relation of its version to the edits it shows, that relation needs the same
of every answer under way, and both need versions to count edits, which needs
the raised version of a locked row to be one above the committed one.  `IInv`
collects these; `InvariantInit`, `InvariantStep` prove it, `UpToDateUnderLock`
derives the lost-update property.  For the refinement the locked rows are what
an editor has taken; `LockFirstTakes`, `LockNextTakesMore`, `CommitIsEdit`,
`AbortIsDrop` and `PageIsObservation` map the steps to the abstract ones, and
`InvisibleStep` shows the rest to be stutters.

`JiraLimiter_proofs` proves `TypeOK`, `CountersExact`, `WithinLimits`,
`NoLostWakeup` and the refinement of `SlotPool` for any finite set of requests
and any limits.  The invariant relates the deque to the program counters (each
pending request exactly once) and the counters to cardinalities; the wake-up
bound is inductive only together with both.

`Backlog_proofs` proves `KeysUnique`, `LinksMatch`, `CopiesAreNoServiceCards`,
`RequestsMatch`, `LinksStay`, `SentForGood` and `ChangesRaiseVersions` for any
items, initiatives, cycles, keys and teams, from `BacklogAssumption`.  Each
command is shown to preserve the conjunction `IInv` (`...Good`), because no part
is inductive alone: a dispatch keeps keys unique only since each candidate has
one copy (`LinkedCopies`) and whoever holds a key that is given away is a copy
itself (`KeysAreFreed`), and it keeps links apart only since keys were unique.
That every change raises the right versions (`...Reported`) needs
`RequestsMatch`: requests do not cross cycles, so deleting what is asked for
disturbs no other cycle.

What a dispatch promises is proved from the same invariant.
`DispatchSynchronises` says that it leaves each planned item with a copy as the
item is now, and that the same dispatch, sent again after a lost answer, changes
nothing but versions.  The second half takes both invariants: each item has one
copy (`LinksMatch`), which has the item's key already, so no request is renamed,
and what a request asks for by name has that key too (`RequestsMatch`).
`DispatchKeepsRequests` compares what each copy asks for before and after
(`AskedBy`).  The types of the tables (`TablesOK`) are part of `IInv`; that the
board lists every item once is an invariant of its own (`BoardIInv`: as long as
the board says, and no item twice), kept by `BoardAppended`, `BoardShortened`
and `OrderOfAll`.  It needs the ids to be finite, as the ids in a table are.
Last, the extent of the second finding: the request rows always meet their
unique constraint (`RequestRowsStayUnique`), and a dispatch can only be stopped
by it where requests are `Crossed`, one for a copy that gets a new key and one,
of the same initiative to the same team in the same sprint, for that key
(`OnlyCrossedSwapsFail`).  A key that is taken over is a candidate's
(`KeysAreFreed`), so no other dispatch fails that way.

`SectionViews_proofs` proves `BlindOnlyIfUnchecked` and `AloneStaysUpToDate` for
any roles, re-reads and bounds.  The invariant has two parts.  `Past`: every
version on the page or under way is one the server has had.  And, while nothing
was taken unchecked, `Checked`: what the page shows contains every edit up to
the version it knows (`Complete`), the PI data hold no newer version
(`DataBehind`), and a command under way was sent with a version the page still
has, so its commit, if it comes, is the next one and nobody else's
(`CommandBehind`).  The second theorem needs `Past` only.  `TypeOK` says more
than types: the page has only sections its user may see, and an open page has
all of them.  That takes two more parts: what is on the page or under way belongs
to the user and is no newer than the server (`Owned`), and while the cycle loads
there is one read at a time, for the first section that is missing
(`LoadedInOrder`).

`CycleGoals_proofs` proves `PrimaryLinked`, `OnlyServiceCardsStray`,
`LossesConfirmed`, `SubmitSettles` and `TypeOK`.  The invariant joins what goals
promise (`GoalsSound`) to what the cards promise (`CardsOK`), since a goal is
filed under one of its live links and a card that goes takes its links with it.
The form takes two lemmas more: only service cards change their flags by it
(`EditStray`), and no goal keeps a link to what goes (`UntiedSound`).  That a submission settles needs no more than the invariant: it files each published card under a
goal of its team with the card's text and links the two.  `TypeOK` bounds the
order of a link by the number of initiatives (`Filing`): `add_goal_link` numbers
the new link by the count of the others.

`PlanBoard_proofs` proves `ArrowsLive` and `TypeOK`, both inductive as they
stand, `LossesConfirmed`, `LateByPrePI` and `PlanInSchedule`.  The first and
the third rest on what a removal leaves: rows that go take their arrows along
(`Swept`), and arrows of other rows stay (`Untouched`).  `TypeOK` says of
a position no more than that it holds numbers or nothing; its weight is in the
stories that work items belong to: a snapshot of the
team boards must not give a work item a story of somebody else
(`PutTeamBoardTyped`), which is where the command's check that a child is named
once is needed.  The last two compare the rows that are late or outside before
and after each step (`Sound`): a command that places a row has checked it against
its parent (`ParentMoved`, `SnapshotSound`), one that removes rows moves none
(`RemovalMovesNothing`), and one that cuts the schedule takes the positions
beyond it away (`CycleUpdated`).

`CycleRoster_proofs` proves all that its run checks: `RefsInCycle`, `TypeOK`,
`RefsMoveTogether`, `LossesConfirmed` and `MisfitsBySetupOnly`.  The invariant
has the rows well formed and naming teams of the cycle; there is one lemma for
each way the rows follow the roster, `RelinkedGood`, `DroppedGood`,
`RestrictedGood` and `MovedGood`, the last by way of the temporary teams, which
must be teams nobody has (`CycleRosterAssumption`; the code makes up their names
afresh).  The action properties rest on the exact rows each way leaves
(`RelinkedRows`, `DroppedRows`, `RestrictedRows`, `MovedRows`): a swap is a
relinking of owners, executors, work items, members, goals and risks along an
injective map, and leaves the requests of every executor that stays
(`ReplaceDataKeepsRequests`); without confirmation nothing named a dropped
team and nobody had a lost competency; and whoever still has a competency his
team lost had lost it before (`MisfitsFewer`).

`JiraImport_proofs` proves `TypeOK`, `RefreshesWhatWasShown` and
`RefreshClearsNoTeam`.  The invariant (`PageOK`) says that as long as the version
is the page's own the item is the one it showed and the key asked for is that
item's; it is inductive because whoever writes raises the version
(`RaisedSound`).  That a match is a team needs only that one of any teams of a
cycle comes first, which `JiraImportAssumption` states.

The type invariants of `OptimisticLocking`, `JiraLimiter` and `JiraImport`, and
`RefreshClearsNoTeam`, are proved and therefore left out of the runs.

Only model-checked: the four liveness properties, `EveryRequestAnswered`,
`FreeSlotTaken`, `EveryWaiterLeaves` and `BacklogStaysOpen` (the prover knows no
`ENABLED` and no fairness), and the two violated properties, which a run refutes.
Every other property of the runs is a theorem.

## 5. Findings

`StaleRequestRejected` states docs/optimistic-locking.md:14 for every page.  It
fails for pages whose answers re-read the version: `_commit_data` commits,
which frees the row, and then calls `session.refresh(cycle)`; another editor may
commit in between.  The session was made with `expire_on_commit=False`, so rows
it already holds are not loaded again: the answer carries the other editor's
version and this transaction's contents.  The page's next command passes the
check and overwrites the edit it never saw.

`SwapsGoThrough` states the comment at services/backlog_board.py:839: keys may
be exchanged among rows already sent.  For the initiatives this holds (run
`BacklogLinks`).  But the requests for them carry the key too and are renamed
copy by copy under `uq_initiative_attraction_target`.  An initiative that asks
one team in one sprint for both copies makes the first of these updates collide;
the error is not one the handler expects, and the dispatch of the tribe fails
until somebody changes the data.  Requests without a sprint do not collide, and
`OnlyCrossedSwapsFail` (section 4) proves that nothing else does.

The models show more places where code and documents differ.  They have no run
of their own; most are exceptions that a property names:

- `BlindOnlyIfUnchecked`: docs/optimistic-locking.md:29-31 has a user reload the
  page after a conflict.  The PI data tab reloads its own view and moves the
  version of all sections, so the next command of any other section passes the
  check with contents that lack the edit which caused the conflict.  After a
  dispatch the same happens by way of the Pre PI view.
- `AloneStaysUpToDate`: PI data read before the page's last command and answered
  after it turn the version back, and a lone editor is told that somebody else
  has changed the data.  So is one whose PI data command follows a command of
  the team boards, the capacity or the program board: their answers do not move
  `piDataViews[id].cycle.version`.
- `LateByPrePI`: docs/regression.md:42-44 says a parent cannot be moved before
  its children.  The PUT of Pre PI checks positions against the sprints only
  (services/pre_pi.py:893-900), and a form that asks again for a withdrawn service
  card puts it into the new sprint whatever children it kept
  (services/pre_pi.py:602-605).
- `Posted`: by docs/regression.md:30-31 the backend checks sprints, weeks and that
  a week needs a sprint.  The POST of an initiative does not: its schema has no
  bounds (schemas/pre_pi.py:26-27) and api/pre_pi.py:211-213 stores what it is sent.
- `OnlyServiceCardsStray`: a service card asked for without a sprint is published
  outside the planned block (services/pre_pi.py:602-608), and the PUTs of Pre PI and
  of the team boards write block and publication independently
  (services/pre_pi.py:893-898, services/team_boards.py:187-188).
- `LossesConfirmed` of `CycleGoals`: a form that no longer asks for a service card
  deletes it, published or not, with its goals and no confirmation
  (services/pre_pi.py:630-645).  docs/pre-pi-tab.md:69 announces the cascade, but
  every other command on Pre PI that takes a published initiative or a goal asks.
- `RefsMoveTogether`: docs/regression.md:28-29 wants the teams asked for to be in
  the setup of the cycle.  `_relink_cycle_team` and the removal of a team leave
  `initiative_attractions.target_team_id` alone, so a request keeps the old team;
  the next edit of the form that sends it is refused (services/pre_pi.py:543-549).
- `DispatchSynchronises`: docs/api.md:132 says that a repeated dispatch is rejected.
  The code has it succeed and synchronise the copies, as docs/backlog-tab.md:52 says.
- `PlanInSchedule`: PATCH of a cycle and PUT of its setup store a shorter schedule
  without the confirmation that the data command demands.
- `MisfitsBySetupOnly`: PUT of the setup takes competencies away and leaves the
  members who have them, whom every other command takes along.
- Service cards (`EditExecutors`, `DeleteInitiative`, `Dispatch`): by
  docs/pre-pi-tab.md:69 a service card goes with the last request for it.  The
  form of the initiative does that; deleting the initiative, or dispatching again
  an item that names no team, deletes the requests and leaves the card on the
  boards of the team that was asked.
- `Merged`: by the docstring at services/jira.py:365 an item keeps its team when
  Jira's is unknown to the cycle.  The code looks the current team up with
  `_match_team`, which takes "Alpha (Beta)" for any of three names and returns the
  first team of the cycle with one of them; a refresh then hands the item to Beta.
- Goals copy the text they share with initiatives (services/goals.py:224), so an
  edit on the Pre PI tab is not seen on the goals tab; docs/pre-pi-tab.md:53-56
  says the text is kept in the initiative alone, without copying.

## 6. Not modelled

In the order in which they would add most:

1. The keys of the bulk PUT of Pre PI and the identity of request rows; the older
   list of requests by name; the status table of initiatives.
2. `TeamRows`: the shared team rows that setup commands of different cycles
   update outside the lock order.
3. Tribes, which a renamed team may change while risks keep the old one; risks
   with the initiative they name.
4. Workdays and sprint calendars (`services/planning.py`), order normalisation:
   pure functions with unit tests of their own.
5. `AuditBreaker`: the two sinks and the circuit breaker of the database one.

Left out on purpose: authentication (stateless), rendering, migrations,
deployment, the load tool, the creation of cycles (two check-then-insert
handlers).
