---------------------------- MODULE SectionViews ----------------------------
(***************************************************************************)
(* One browser page that shows the sections of one PI cycle, against the   *)
(* server and the other editors (frontend/js/api.js, pi-data.js,           *)
(* backlog.js).  A page keeps one version for all sections of a cycle      *)
(* (cycleVersions[id]) and a second one inside its copy of the PI data     *)
(* (piDataViews[id].cycle.version); it sends the first with every command  *)
(* except those of the PI data tab, which send the second.  Commands wait  *)
(* for each other in aggregateMutationChain; reads do not wait, and are    *)
(* answered in any order.                                                  *)
(*                                                                         *)
(* The contents of a section are abstracted to the version it was read at, *)
(* and an edit of somebody else to the section it changes.  That the       *)
(* server checks the version and commits in one step, and what it answers  *)
(* with, is OptimisticLocking.  Left out: the versions of other cycles and *)
(* of the backlog, what is typed but not sent, commands queued behind the  *)
(* one in flight (the version is taken only when their turn comes).        *)
(***************************************************************************)
EXTENDS Naturals, FiniteSets

CONSTANTS
    Roles,        \* what a user may see: sets of sections, "backlog" included
    MaxVersion,   \* bounds how many commits there are
    MaxReads,     \* bounds how many reads are in flight
    None          \* a version the page does not know, an answer not given

(* The order in which loadAuthorizedCycle reads them. *)
LoadOrder == [data |-> 1, prePi |-> 2, goals |-> 3, boards |-> 4,
              capacity |-> 5, program |-> 6, risks |-> 7]

Sections == DOMAIN LoadOrder

ASSUME SectionViewsAssumption ==
    /\ MaxVersion \in Nat /\ MaxReads \in Nat
    /\ \A role \in Roles : role \cap Sections # {}
    /\ None \notin Nat

VARIABLES
    version,   \* pi_cycles.version on the server
    foreign,   \* the version of the last edit of others, section by section
    shown,     \* sections and tabs the user of the page may use
    mode,      \* "closed" (another page of the site), "loading" or "open"
    known,     \* cycleVersions[id]
    dataKnown, \* piDataViews[id].cycle.version
    seen,      \* the version each section was last read at
    prePiReady,\* prePiViews[id] is there
    command,   \* at the head of the mutation chain
    reads,     \* GET requests in flight
    unchecked  \* history: a version was taken that the check would refuse

server == <<version, foreign>>
page == <<shown, mode, known, dataKnown, seen, prePiReady, unchecked>>
vars == <<version, foreign, shown, mode, known, dataKnown, seen, prePiReady, command, reads,
          unchecked>>

Versions == 0..MaxVersion

(* What a command's answer replaces on the page, and what is re-read then. *)
Answered ==
    [data |-> {"data"}, prePi |-> {"prePi"}, submit |-> {"prePi", "goals"},
     goals |-> {"goals"}, boards |-> {"boards"}, putBoards |-> {},
     capacity |-> {"capacity"}, putCapacity |-> {}, program |-> {"program"},
     move |-> {"program"}, risks |-> {"risks"}, dispatch |-> {}]

Reread ==
    [data |-> Sections \ {"data"},
     prePi |-> Sections \ {"data", "prePi"},
     submit |-> {"boards", "capacity", "program", "risks"},
     goals |-> {}, boards |-> {"capacity", "program", "risks"},
     putBoards |-> {"capacity"}, capacity |-> {}, putCapacity |-> {},
     program |-> {}, move |-> {"boards", "capacity"}, risks |-> {}, dispatch |-> {}]

Kinds == DOMAIN Answered

(* The tab a command belongs to. *)
Tab(kind) ==
    CASE kind = "submit" -> "prePi"
      [] kind = "putBoards" -> "boards"
      [] kind = "putCapacity" -> "capacity"
      [] kind = "move" -> "program"
      [] kind = "dispatch" -> "backlog"
      [] OTHER -> kind

(* Sections whose arrival also moves the version inside the PI data. *)
Patching == {"prePi", "goals", "risks"}

NoCommand == [kind |-> None]

Command == [kind : Kinds, expected : Versions \cup {None}, version : Versions,
            status : {"sent", "done", "conflict", "refused"}]

(* prev: what the version is set back to when a re-learning read fails. *)
Read == [section : Sections, why : {"load", "refresh", "reload", "relearn"},
         prev : Versions \cup {None}, version : Versions \cup {None}]

(* The PI data are either not on the page or carry a version; an open page *)
(* shows every section its user may see.                                   *)
TypeOK ==
    /\ version \in Versions
    /\ foreign \in [Sections -> 0..version]
    /\ shown \in Roles
    /\ mode \in {"closed", "loading", "open"}
    /\ known \in (0..version) \cup {None}
    /\ dataKnown \in (0..version) \cup {None}
    /\ seen \in [Sections -> (0..version) \cup {None}]
    /\ \A s \in Sections : seen[s] # None => s \in shown
    /\ dataKnown = None <=> seen["data"] = None
    /\ mode = "open" => \A s \in shown \cap Sections : seen[s] # None
    /\ prePiReady \in BOOLEAN
    /\ command = NoCommand \/ command \in Command
    /\ \A r \in reads : r \in Read
    /\ unchecked \in BOOLEAN

(* After applyNavigation: the cycles are listed and no version is known. *)
Init ==
    /\ version = 0
    /\ foreign = [s \in Sections |-> 0]
    /\ shown \in Roles
    /\ mode = "closed"
    /\ known = None /\ dataKnown = None
    /\ seen = [s \in Sections |-> None]
    /\ prePiReady = FALSE
    /\ command = NoCommand
    /\ reads = {}
    /\ unchecked = FALSE

Asks(sections, why, prev) ==
    {[section |-> s, why |-> why, prev |-> prev, version |-> None] : s \in sections \cap shown}

-----------------------------------------------------------------------------
(* The server. *)

OtherEdit(s) ==
    /\ version < MaxVersion
    /\ version' = version + 1
    /\ foreign' = [foreign EXCEPT ![s] = version + 1]
    /\ UNCHANGED <<page, command, reads>>

ServeRead(r) ==
    /\ r \in reads /\ r.version = None
    /\ reads' = (reads \ {r}) \cup {[r EXCEPT !.version = version]}
    /\ UNCHANGED <<server, page, command>>

(* A dispatch raises the cycle's version whatever the page thinks it is. *)
Accepts == command.kind = "dispatch" \/ command.expected = version

Settle(status) ==
    /\ command' = [command EXCEPT !.status = status, !.version = version']
    /\ UNCHANGED <<foreign, page, reads>>

Pending == command # NoCommand /\ command.status = "sent"

CommitCommand ==
    /\ Pending /\ Accepts
    /\ version < MaxVersion
    /\ version' = version + 1
    /\ Settle("done")

ConflictCommand ==
    /\ Pending /\ ~Accepts
    /\ version' = version
    /\ Settle("conflict")

(* A rule of the section, a lacking confirmation, the backlog's version,   *)
(* or the request is lost.                                                 *)
RefuseCommand ==
    /\ Pending /\ Accepts
    /\ version' = version
    /\ Settle("refused")

-----------------------------------------------------------------------------
(* The page: opening a cycle. *)

(* The sections the user may see are read one after another. *)
Later(s) == {x \in Sections \cap shown : LoadOrder[x] > LoadOrder[s]}

FirstOf(ss) == {s \in ss : \A x \in ss : LoadOrder[s] <= LoadOrder[x]}

OpenCycle ==
    /\ mode = "closed"
    /\ mode' = "loading"
    /\ reads' = reads \cup Asks(FirstOf(Sections \cap shown), "load", None)
    /\ UNCHANGED <<server, shown, known, dataKnown, seen, prePiReady, command, unchecked>>

Leave ==
    /\ mode = "open"
    /\ mode' = "closed"
    /\ UNCHANGED <<server, shown, known, dataKnown, seen, prePiReady, command, reads,
                   unchecked>>

-----------------------------------------------------------------------------
(* The page: answers to reads. *)

(* Mutant of Fitting: every answer is taken. *)
AnyAnswer(r) == TRUE

(* The check of noteCycleReadVersion; the PI data are taken without it. *)
Fitting(r) == known \in {None, r.version}

Taken(r) == r.section = "data" \/ Fitting(r)

(* Mutant of Shows: a version is put into PI data that were never read. *)
ShowsAnyhow(sections, v) ==
    /\ known' = v
    /\ seen' = [s \in Sections |-> IF s \in sections \cap shown THEN v ELSE seen[s]]
    /\ dataKnown' = IF sections \cap (Patching \cup {"data"}) # {} THEN v ELSE dataKnown

(* Mutant of Shows: only the sections that move the version of the PI data *)
(* move the page's.                                                        *)
ShowsPatchingOnly(sections, v) ==
    /\ known' = IF sections \cap (Patching \cup {"data"}) # {} \/ known = None
                THEN v ELSE known
    /\ seen' = [s \in Sections |-> IF s \in sections \cap shown THEN v ELSE seen[s]]
    /\ dataKnown' = IF \/ "data" \in sections
                       \/ sections \cap Patching # {} /\ dataKnown # None
                    THEN v ELSE dataKnown

(* What the page puts on screen moves the versions it will send. *)
Shows(sections, v) ==
    /\ known' = v
    /\ seen' = [s \in Sections |-> IF s \in sections \cap shown THEN v ELSE seen[s]]
    /\ dataKnown' = IF \/ "data" \in sections
                       \/ sections \cap Patching # {} /\ dataKnown # None
                    THEN v ELSE dataKnown

TakeAnswer(r) ==
    /\ r \in reads /\ r.version # None /\ Taken(r)
    /\ Shows({r.section}, r.version)
    /\ prePiReady' = (prePiReady \/ r.section = "prePi")
    /\ reads' = (reads \ {r}) \cup
                IF r.why = "load" THEN Asks(FirstOf(Later(r.section)), "load", None) ELSE {}
    /\ mode' = IF r.why = "load" /\ Later(r.section) = {} THEN "open" ELSE mode
    /\ unchecked' = (unchecked \/ ~Fitting(r))
    /\ UNCHANGED <<server, shown, command>>

(* Nothing is retried.  A failed load closes the cycle; when the version   *)
(* could not be learned again, the one from before the dispatch is put     *)
(* back.                                                                   *)
Fails(r) ==
    /\ reads' = reads \ {r}
    /\ mode' = IF r.why = "load" THEN "closed" ELSE mode
    /\ known' = IF r.why = "relearn" /\ known = None THEN r.prev ELSE known
    /\ UNCHANGED <<server, shown, dataKnown, seen, prePiReady, command, unchecked>>

RefuseAnswer(r) == r \in reads /\ r.version # None /\ ~Taken(r) /\ Fails(r)

LoseRead(r) == r \in reads /\ r.version = None /\ Fails(r)

-----------------------------------------------------------------------------
(* The page: commands. *)

ToSend(kind) == IF kind = "data" THEN dataKnown ELSE known

SendCommand(kind) ==
    /\ mode = "open" /\ command = NoCommand
    /\ Tab(kind) \in shown
    /\ kind = "prePi" => prePiReady
    /\ kind # "dispatch" => ToSend(kind) # None
    /\ Cardinality(reads) + Cardinality(Reread[kind] \cap shown) <= MaxReads
    /\ command' = [kind |-> kind, version |-> 0, status |-> "sent",
                   expected |-> IF kind = "dispatch" THEN None ELSE ToSend(kind)]
    /\ UNCHANGED <<server, page, reads>>

(* loadPrePiCycles forgets the Pre PI view before it reads a new one. *)
TakeResult ==
    /\ command # NoCommand /\ command.status = "done" /\ command.kind # "dispatch"
    /\ Shows(Answered[command.kind], command.version)
    /\ reads' = reads \cup Asks(Reread[command.kind], "refresh", None)
    /\ prePiReady' = IF command.kind = "data" THEN FALSE
                     ELSE prePiReady \/ "prePi" \in Answered[command.kind]
    /\ command' = NoCommand
    /\ unchecked' = (unchecked \/ known # command.expected)
    /\ UNCHANGED <<server, shown, mode>>

(* The version is forgotten and learned again from the Pre PI view; who    *)
(* may not read that view keeps the old one.                               *)
TakeDispatch ==
    /\ command # NoCommand /\ command.status = "done" /\ command.kind = "dispatch"
    /\ known' = IF "prePi" \in shown THEN None ELSE known
    /\ reads' = reads \cup Asks({"prePi"}, "relearn", known)
    /\ prePiReady' = FALSE
    /\ command' = NoCommand
    /\ unchecked' = TRUE
    /\ UNCHANGED <<server, shown, mode, dataKnown, seen>>

(* The PI data tab reads itself again after a conflict, and so does the    *)
(* program board after a move.                                             *)
ReadAgain(kind) ==
    CASE kind = "data" -> {"data"} [] kind = "move" -> {"program"} [] OTHER -> {}

TakeRefusal ==
    /\ command # NoCommand /\ command.status \in {"conflict", "refused"}
    /\ reads' = IF command.status = "refused" THEN reads
                ELSE reads \cup Asks(ReadAgain(command.kind), "reload", None)
    /\ command' = NoCommand
    /\ UNCHANGED <<server, page>>

(* The answer is lost: the page learns nothing. *)
LoseCommand ==
    /\ command # NoCommand /\ ~Pending
    /\ command' = NoCommand
    /\ UNCHANGED <<server, page, reads>>

-----------------------------------------------------------------------------
Next ==
    \/ \E s \in shown \cap Sections : OtherEdit(s)
    \/ \E r \in reads : ServeRead(r) \/ TakeAnswer(r) \/ RefuseAnswer(r) \/ LoseRead(r)
    \/ CommitCommand \/ ConflictCommand \/ RefuseCommand
    \/ OpenCycle \/ Leave
    \/ \E kind \in Kinds : SendCommand(kind)
    \/ TakeResult \/ TakeDispatch \/ TakeRefusal \/ LoseCommand

Spec == Init /\ [][Next]_vars

-----------------------------------------------------------------------------
(* Properties. *)

(* The answer of the page's own last commit is still on its way. *)
Answering == command # NoCommand /\ command.status = "done" /\ command.version = version

(* A command of the page, in flight or sent next, can be accepted although *)
(* a section on it lacks the edit of somebody else: the lock fails unseen. *)
Acceptable ==
    \/ known = version
    \/ Pending /\ command.expected = version
    \/ Answering /\ command.kind # "dispatch"

Blind == Acceptable /\ \E s \in Sections : seen[s] # None /\ seen[s] < foreign[s]

(* Parallel answers, late ones and refused commands never let a page edit  *)
(* on top of what it does not show.  It takes a version taken unchecked:   *)
(* with the PI data, which move the version of all sections, as after a    *)
(* conflict (api.js:186), with the result of a command when the version    *)
(* has moved since it was sent (api.js:80), or after a dispatch has made   *)
(* the page forget its own (backlog.js:408).                               *)
BlindOnlyIfUnchecked == Blind => unchecked

UpToDate == known = version \/ Answering

(* The cycle was opened again, or the PI data read, before the page got    *)
(* the answer to a command, and somebody else has committed in between.    *)
OvertakenResult == TakeResult /\ command.version < version

(* A page that is alone never falls behind its own commands, whatever the  *)
(* order of the answers, and so gets no conflict; unless an answer to a    *)
(* command is lost, a dispatch has made it forget the version, or the PI   *)
(* data, taken without a check, cross a command: read before it they turn  *)
(* the version back, and so does its answer when they were read after it   *)
(* (api.js:186).                                                           *)
AloneStaysUpToDate ==
    [][ UpToDate /\ ~UpToDate' =>
           \/ foreign' # foreign
           \/ LoseCommand \/ TakeDispatch
           \/ OvertakenResult
           \/ \E r \in reads \ reads' : r.section = "data" /\ r.version # version ]_vars
=============================================================================
