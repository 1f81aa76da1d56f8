-------------------------- MODULE OptimisticLocking --------------------------
(***************************************************************************)
(* How requests of several editors change the versioned aggregates of the  *)
(* backend (app/services/optimistic_locking.py and the handlers that call  *)
(* it): every command is one PostgreSQL transaction that takes the version *)
(* row of its aggregate with SELECT ... FOR UPDATE, compares the version   *)
(* the client sent, raises it, changes the data and commits.  The backlog  *)
(* commands that reach into PI cycles (dispatch, and the unlinking done by *)
(* a confirmed delete or replace) then lock those cycles too.              *)
(*                                                                         *)
(* Data is abstracted to edits[a], the number of edits committed to a.     *)
(* Sessions run at READ COMMITTED: a read is two statements, the version   *)
(* and then the contents, and other transactions may commit in between.    *)
(***************************************************************************)
EXTENDS Integers

CONSTANTS Clients,      \* open pages and API clients, one request each
          RereadPages,  \* those whose commands answer with a re-read version
          Nobody,       \* the holder of an unlocked row
          Cycles,       \* PI cycles, numbered in the order of their ids
          MarkerSeeded, \* is the backlog version row there from the start
          MaxVersion    \* bound: no command is sent to an aggregate this old

(* Cycles are positive so that Backlog, 0, comes first in the lock order. *)
ASSUME OptimisticLockingAssumption ==
    /\ Nobody \notin Clients
    /\ RereadPages \subseteq Clients
    /\ Cycles \subseteq Nat \ {0}
    /\ MarkerSeeded \in BOOLEAN
    /\ MaxVersion \in Nat

Backlog == 0                          \* backlog_board_state, row id 1
Aggregates == {Backlog} \cup Cycles

VARIABLES
    version,  \* version[a]: committed version of the row of a
    edits,    \* edits[a]: committed edits of the contents of a
    seeded,   \* is there a committed backlog version row
    holder,   \* holder[a]: the client whose transaction locks the row of a
    raised,   \* raised[a]: the version that transaction will write to it
    pc,       \* where the request of each client is
    cmd,      \* cmd[c]: the aggregate the request is about, and is it checked
    todo,     \* todo[c]: cycles the transaction still has to lock
    answer,   \* answer[c]: the version that c's answer will carry, and the
              \* edits its own commit left behind
    known,    \* known[c][a]: version of a the client will send back
    seen      \* seen[c][a]: edits of a in the contents the client holds

rows == <<version, edits, seeded>>
locks == <<holder, raised>>
pages == <<known, seen>>
request == <<pc, cmd, todo, answer>>
vars == <<rows, locks, pages, request>>

Command == [target : Aggregates, checked : BOOLEAN]
NoCommand == [target |-> Backlog, checked |-> FALSE]
NoAnswer == [version |-> 0, edits |-> 0]

Locations ==
    {"idle", "queued", "inserting", "locked", "committed", "answering", "reading"}

TypeOK ==
    /\ version \in [Aggregates -> Nat]
    /\ edits \in [Aggregates -> Nat]
    /\ seeded \in BOOLEAN
    /\ holder \in [Aggregates -> Clients \cup {Nobody}]
    /\ raised \in [Aggregates -> Nat]
    /\ pc \in [Clients -> Locations]
    /\ cmd \in [Clients -> Command]
    /\ todo \in [Clients -> SUBSET Cycles]
    /\ answer \in [Clients -> [version : Nat, edits : Nat]]
    /\ known \in [Clients -> [Aggregates -> Nat]]
    /\ seen \in [Clients -> [Aggregates -> Nat]]

(* All pages were opened on the new database. *)
Init ==
    /\ version = [a \in Aggregates |-> 0]
    /\ edits = [a \in Aggregates |-> 0]
    /\ seeded = MarkerSeeded
    /\ holder = [a \in Aggregates |-> Nobody]
    /\ raised = [a \in Aggregates |-> 0]
    /\ pc = [c \in Clients |-> "idle"]
    /\ cmd = [c \in Clients |-> NoCommand]
    /\ todo = [c \in Clients |-> {}]
    /\ answer = [c \in Clients |-> NoAnswer]
    /\ known = [c \in Clients |-> [a \in Aggregates |-> 0]]
    /\ seen = [c \in Clients |-> [a \in Aggregates |-> 0]]

-----------------------------------------------------------------------------
Holds(c) == {a \in Aggregates : holder[a] = c}

(* Mutant of Raises: only the command's own aggregate is versioned, the *)
(* cycles it reaches into are changed silently.                         *)
RaisesTarget(c) == {cmd[c].target}

(* The rows whose version the transaction of c writes: all it locked. *)
Raises(c) == Holds(c)

(* Mutant of Stale: the comparison rejects pages from the future only. *)
StaleBackwards(c) ==
    /\ cmd[c].checked
    /\ version[cmd[c].target] < known[c][cmd[c].target]

(* The version comparison made under the row lock. *)
Stale(c) ==
    /\ cmd[c].checked
    /\ version[cmd[c].target] # known[c][cmd[c].target]

(* The row becomes c's; version += 1 is done in the session. *)
TakeRow(c, a) ==
    /\ holder[a] = Nobody
    /\ holder' = [holder EXCEPT ![a] = c]
    /\ raised' = [raised EXCEPT ![a] = version[a] + 1]

(* Mutant of ReleaseRows: the cycles a command locked besides stay locked. *)
ReleaseTarget(c) ==
    /\ holder' = [holder EXCEPT ![cmd[c].target] = IF @ = c THEN Nobody ELSE @]
    /\ raised' = [raised EXCEPT ![cmd[c].target] = 0]

(* COMMIT and ROLLBACK both end the transaction and free its rows. *)
ReleaseRows(c) ==
    /\ holder' = [a \in Aggregates |-> IF holder[a] = c THEN Nobody ELSE holder[a]]
    /\ raised' = [a \in Aggregates |-> IF holder[a] = c THEN 0 ELSE raised[a]]

GoTo(c, location) == pc' = [pc EXCEPT ![c] = location]

(* The request is over. *)
End(c) ==
    /\ GoTo(c, "idle")
    /\ cmd' = [cmd EXCEPT ![c] = NoCommand]
    /\ todo' = [todo EXCEPT ![c] = {}]
    /\ answer' = [answer EXCEPT ![c] = NoAnswer]

-----------------------------------------------------------------------------
(***************************************************************************)
(* A cycle command concerns one cycle and sends the version its page holds *)
(* (the old POST of an initiative, a goal or a risk sends none).  A        *)
(* backlog command always sends one; "rest" is the target cycle of a       *)
(* dispatch, or the cycles that an unlinking delete or replace reaches.    *)
(* The backlog commands all belong to pages whose answers are re-read.     *)
(***************************************************************************)
Send(c, a, checked, rest) ==
    /\ pc[c] = "idle"
    /\ a = Backlog => checked /\ c \in RereadPages
    /\ a # Backlog => rest = {}
    /\ \A b \in {a} \cup rest : version[b] < MaxVersion
    /\ cmd' = [cmd EXCEPT ![c] = [target |-> a, checked |-> checked]]
    /\ todo' = [todo EXCEPT ![c] = rest]
    /\ GoTo(c, "queued")
    /\ UNCHANGED <<rows, locks, pages, answer>>

(* SELECT ... FOR UPDATE found no row to lock. *)
MissMarker(c) ==
    /\ pc[c] = "queued"
    /\ cmd[c].target = Backlog
    /\ ~seeded
    /\ GoTo(c, "inserting")
    /\ UNCHANGED <<rows, locks, pages, cmd, todo, answer>>

(* The request is about to lock its first row and that row exists, or is *)
(* about to insert it and nobody else has.                               *)
AtFirstRow(c) ==
    \/ pc[c] = "queued" /\ (cmd[c].target = Backlog => seeded)
    \/ pc[c] = "inserting" /\ ~seeded

LockFirst(c) ==
    /\ AtFirstRow(c)
    /\ ~Stale(c)
    /\ TakeRow(c, cmd[c].target)
    /\ GoTo(c, "locked")
    /\ UNCHANGED <<rows, pages, cmd, todo, answer>>

(* HTTP 409 version_conflict: the transaction ends without any change. *)
Conflict(c) ==
    /\ AtFirstRow(c)
    /\ Stale(c)
    /\ holder[cmd[c].target] = Nobody
    /\ End(c)
    /\ UNCHANGED <<rows, locks, pages>>

(* The INSERT waited for another first writer, which committed: the primary *)
(* key is taken, the transaction fails.                                     *)
InsertLost(c) ==
    /\ pc[c] = "inserting"
    /\ seeded
    /\ End(c)
    /\ UNCHANGED <<rows, locks, pages>>

(* Mutant of IsNextRow: the newest cycle is locked first. *)
IsLastRow(c, a) == a \in todo[c] /\ \A b \in todo[c] : a >= b

(* Further cycles are locked one by one in the order of their ids. *)
IsNextRow(c, a) == a \in todo[c] /\ \A b \in todo[c] : a <= b

LockNext(c, a) ==
    /\ pc[c] = "locked"
    /\ IsNextRow(c, a)
    /\ TakeRow(c, a)
    /\ todo' = [todo EXCEPT ![c] = @ \ {a}]
    /\ UNCHANGED <<rows, pages, pc, cmd, answer>>

Commit(c) ==
    /\ pc[c] = "locked"
    /\ todo[c] = {}
    /\ version' = [a \in Aggregates |-> IF a \in Raises(c) THEN raised[a] ELSE version[a]]
    /\ edits' = [a \in Aggregates |-> IF a \in Holds(c) THEN edits[a] + 1 ELSE edits[a]]
    /\ seeded' = (seeded \/ Backlog \in Holds(c))
    /\ ReleaseRows(c)
    /\ LET a == cmd[c].target
       IN  answer' = [answer EXCEPT ![c] = [version |-> raised[a], edits |-> edits[a] + 1]]
    /\ GoTo(c, "committed")
    /\ UNCHANGED <<pages, cmd, todo>>

(* 404, 422, a cascade that needs confirmation, a database error or the   *)
(* loss of the connection: the session is rolled back, wherever it was.   *)
Abort(c) ==
    /\ pc[c] \in {"queued", "inserting", "locked"}
    /\ ReleaseRows(c)
    /\ End(c)
    /\ UNCHANGED <<rows, pages>>

-----------------------------------------------------------------------------
(* Mutant of PageTakes: the page notes the version after the answered one.   *)
PageTakesNext(c, v, n) ==
    /\ known' = [known EXCEPT ![c][cmd[c].target] = v + 1]
    /\ seen' = [seen EXCEPT ![c][cmd[c].target] = n]

(* The page now holds version v with contents that include n edits. *)
PageTakes(c, v, n) ==
    /\ known' = [known EXCEPT ![c][cmd[c].target] = v]
    /\ seen' = [seen EXCEPT ![c][cmd[c].target] = n]

(* A GET runs in a session of its own: it reads the version row first ... *)
ReadVersion(c, a) ==
    /\ pc[c] = "idle"
    /\ cmd' = [cmd EXCEPT ![c] = [target |-> a, checked |-> FALSE]]
    /\ answer' = [answer EXCEPT ![c] = [version |-> version[a], edits |-> 0]]
    /\ GoTo(c, "reading")
    /\ UNCHANGED <<rows, locks, pages, todo>>

(* Mutant of ReadContents: the page notes the version, keeps its contents. *)
NoteVersionOnly(c) ==
    /\ pc[c] = "reading"
    /\ PageTakes(c, answer[c].version, seen[c][cmd[c].target])
    /\ End(c)
    /\ UNCHANGED <<rows, locks>>

(* ... and the contents afterwards. *)
ReadContents(c) ==
    /\ pc[c] = "reading"
    /\ PageTakes(c, answer[c].version, edits[cmd[c].target])
    /\ End(c)
    /\ UNCHANGED <<rows, locks>>

(* The answer to a command is read after COMMIT, with the row unlocked.  It *)
(* carries the version the session wrote, unless the handler reads the row  *)
(* again (session.refresh in the PI data and setup handlers, session.get of *)
(* the backlog row): then perhaps a version somebody else wrote since.      *)
AnswerVersions(c) ==
    {answer[c].version} \cup
    (IF c \in RereadPages THEN {version[cmd[c].target]} ELSE {})

AnswerVersion(c) ==
    /\ pc[c] = "committed"
    /\ \E v \in AnswerVersions(c) : answer' = [answer EXCEPT ![c].version = v]
    /\ GoTo(c, "answering")
    /\ UNCHANGED <<rows, locks, pages, cmd, todo>>

(* Objects the session still holds are not loaded again (the session does  *)
(* not expire them on commit), so the contents are those of the own commit *)
(* or, where the query loads new objects, those committed by now.          *)
AnswerContents(c) ==
    /\ pc[c] = "answering"
    /\ \E n \in {answer[c].edits, edits[cmd[c].target]} : PageTakes(c, answer[c].version, n)
    /\ End(c)
    /\ UNCHANGED <<rows, locks>>

(* The answer never arrives: the page keeps what it had. *)
LoseAnswer(c) ==
    /\ pc[c] \in {"committed", "answering", "reading"}
    /\ End(c)
    /\ UNCHANGED <<rows, locks, pages>>

-----------------------------------------------------------------------------
Next ==
    \E c \in Clients :
        \/ \E a \in Aggregates, checked \in BOOLEAN, rest \in SUBSET Cycles :
               Send(c, a, checked, rest)
        \/ MissMarker(c) \/ LockFirst(c) \/ Conflict(c) \/ InsertLost(c)
        \/ \E a \in Cycles : LockNext(c, a)
        \/ Commit(c) \/ Abort(c)
        \/ \E a \in Aggregates : ReadVersion(c, a)
        \/ ReadContents(c) \/ AnswerVersion(c) \/ AnswerContents(c) \/ LoseAnswer(c)

(* A waiter for a row is woken when the row is freed and PostgreSQL serves *)
(* the waiters of a row in turn, hence strong fairness of the lock steps;  *)
(* a running handler goes on.  Nobody has to send a request, and nothing   *)
(* relies on a transaction failing.                                        *)
Fairness ==
    \A c \in Clients :
        /\ WF_vars(MissMarker(c)) /\ WF_vars(InsertLost(c))
        /\ SF_vars(LockFirst(c)) /\ SF_vars(Conflict(c))
        /\ \A a \in Cycles : SF_vars(LockNext(c, a))
        /\ WF_vars(Commit(c)) /\ WF_vars(ReadContents(c))
        /\ WF_vars(AnswerVersion(c)) /\ WF_vars(AnswerContents(c))

Spec == Init /\ [][Next]_vars

FairSpec == Spec /\ Fairness

-----------------------------------------------------------------------------
(* Every committed change of an aggregate raises its version by exactly one, *)
(* also when one transaction changes the backlog and several cycles, when a  *)
(* command fails half-way and when an old POST skips the comparison: "the    *)
(* version is raised in the same transaction as the business changes".       *)
VersionCountsEdits == \A a \in Aggregates : version[a] = edits[a]

(* A command that passed the version check of a page whose answers are not  *)
(* re-read works on contents that include every edit committed so far, and  *)
(* this stays so until it commits: no edit of somebody else is overwritten. *)
NoLostUpdate ==
    \A c \in Clients \ RereadPages :
        pc[c] = "locked" /\ cmd[c].checked
            => seen[c][cmd[c].target] = edits[cmd[c].target]

(* The comparison made when the row was locked still holds at the commit,   *)
(* for every page: of all the requests that carry one version of an         *)
(* aggregate - the very first ones, that insert the backlog row, included - *)
(* at most one commits.                                                     *)
CommitsOnCheckedVersion ==
    [][\A c \in Clients : Commit(c) /\ cmd[c].checked =>
          version[cmd[c].target] = known[c][cmd[c].target]]_vars

(* No page ever holds a version that was not committed: what a rolled back *)
(* transaction wrote to the row never reaches an answer.                   *)
OnlyCommittedVersions ==
    \A c \in Clients, a \in Aggregates : known[c][a] <= version[a]

(* A 409 is always due to a commit: the row is past the version the page   *)
(* holds, never behind it, so reloading the page clears the conflict.      *)
ConflictBlamesCommit ==
    [][\A c \in Clients : Conflict(c) =>
          version[cmd[c].target] > known[c][cmd[c].target]]_vars

(* Rows are taken in one global order, the backlog first and then cycles by *)
(* id: whatever a transaction waits for comes after all it holds, so no two *)
(* (or more) transactions ever wait for each other.                         *)
LockOrder ==
    \A c \in Clients : \A a \in Holds(c), b \in todo[c] : a < b

(* Every request is answered, whatever the other editors do. *)
EveryRequestAnswered ==
    \A c \in Clients : pc[c] = "queued" ~> pc[c] = "idle"

(* The promise: the locked rows are what an editor has taken, the pages that *)
(* do not re-read are the careful editors.                                   *)
Taken == [c \in Clients |-> Holds(c)]

Checks ==
    [c \in Clients |->
        IF pc[c] = "locked" /\ cmd[c].checked THEN {cmd[c].target} ELSE {}]

Store == INSTANCE VersionedStore WITH
    Editors <- Clients, Careful <- Clients \ RereadPages, taken <- Taken, checks <- Checks

ImplementsStore == Store!StoreSpec

(* docs/optimistic-locking.md: a stale request gets a 409 and changes no    *)
(* data - for every page.  Broken by answers that pair a re-read version    *)
(* with contents the session already held.                                  *)
StaleRequestRejected ==
    \A c \in Clients :
        pc[c] = "locked" /\ cmd[c].checked
            => seen[c][cmd[c].target] = edits[cmd[c].target]
=============================================================================
