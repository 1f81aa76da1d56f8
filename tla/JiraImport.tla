----------------------------- MODULE JiraImport -----------------------------
(***************************************************************************)
(* Import and refresh of backlog items from Jira (app/api/jira.py and the  *)
(* mapping in app/services/jira.py).  A request asks Jira without any lock *)
(* or transaction open; what Jira answers is merged into the backlog       *)
(* later, under the row lock and the check of the version that the page    *)
(* sent.  A refresh even takes the key it asks for from an earlier         *)
(* transaction.  Meanwhile others edit the backlog, and the teams of the   *)
(* cycle change, which no lock of the backlog prevents: a request reads    *)
(* them once to match Jira's names and again to check what it matched.     *)
(*                                                                         *)
(* All items and the import belong to one tribe.  A team stands for its    *)
(* name, unique in the cycle.  Title, product, type and systems come from  *)
(* Jira as they are and are one "text" here; efforts and what only people  *)
(* edit (description, quarter, priorities, status, tags) are left out, but *)
(* for the key.                                                            *)
(***************************************************************************)
EXTENDS Integers

CONSTANTS
    Requests,     \* pages that may ask for an import or a refresh
    ItemIds,      \* bounds the items that exist together
    Keys,         \* issue keys, in Jira and in the backlog
    Texts,        \* what Jira and people may write; NoText is among them
    NoText,
    Teams,
    Tribe,        \* the teams of the tribe
    Aliases,      \* the names a spelling of a team in Jira may stand for
    Rosters,      \* orders of the cycle's teams: team -> place
    MaxVersion,   \* bounds the edits of the backlog
    None

(* A roster gives every team of the cycle a place, so one of any of them   *)
(* comes first.                                                            *)
ASSUME JiraImportAssumption ==
    /\ NoText \in Texts
    /\ Tribe \subseteq Teams
    /\ Aliases \in [Teams -> SUBSET Teams]
    /\ \A places \in Rosters :
           /\ DOMAIN places \subseteq Teams
           /\ places \in [DOMAIN places -> Nat]
           /\ \A S \in (SUBSET DOMAIN places) \ {{}} :
                  \E t \in S : \A u \in S : places[t] <= places[u]
    /\ MaxVersion \in Nat
    /\ None \notin Requests \cup ItemIds \cup Keys \cup Teams

VARIABLES
    version,   \* of the backlog, committed
    items,     \* the backlog's items
    holder,    \* the request that has the row of the version locked
    roster,    \* the teams of the cycle in their order
    pc,        \* where each request is
    page,      \* what its page showed: the item to refresh, the version
    asked,     \* the key it asks Jira for
    answer,    \* what Jira said
    command    \* what it is about to write

vars == <<version, items, holder, roster, pc, page, asked, answer, command>>

Item == [key : Keys, text : Texts, owner : Teams \cup {None}, executor : Teams \cup {None}]

(* An issue that has moved answers with its new key. *)
Issue == [key : Keys, text : Texts, owners : SUBSET Teams, executors : SUBSET Teams]

Places == {"open", "asking", "answered", "locked"}

TypeOK ==
    /\ version \in 0..MaxVersion
    /\ DOMAIN items \subseteq ItemIds
    /\ items \in [DOMAIN items -> Item]
    /\ holder \in Requests \cup {None}
    /\ roster \in Rosters
    /\ pc \in [Requests -> Places \cup {"idle"}]
    /\ page \in [Requests -> [id : ItemIds \cup {None}, shown : Item \cup {None},
                              expected : 0..MaxVersion]]
    /\ asked \in [Requests -> Keys \cup {None}]
    /\ answer \in [Requests -> Issue \cup {None}]
    /\ command \in [Requests -> Item \cup {None}]

Blank == [id |-> None, shown |-> None, expected |-> 0]

Init ==
    /\ version = 0
    /\ items = [i \in {} |-> None]
    /\ holder = None
    /\ roster \in Rosters
    /\ pc = [r \in Requests |-> "idle"]
    /\ page = [r \in Requests |-> Blank]
    /\ asked = [r \in Requests |-> None]
    /\ answer = [r \in Requests |-> None]
    /\ command = [r \in Requests |-> None]

Refreshes(r) == page[r].id # None

-----------------------------------------------------------------------------
(* The mapping of services/jira.py. *)

(* _match_team: the first team that one of the names may stand for. *)
Matching(names, teams) ==
    {t \in DOMAIN roster \cap teams : \E n \in names : t \in Aliases[n]}

Match(names, teams) ==
    IF Matching(names, teams) = {} THEN None
    ELSE CHOOSE t \in Matching(names, teams) :
             \A u \in Matching(names, teams) : roster[t] <= roster[u]

(* The first of two that is a team. *)
Else(team, other) == IF team # None THEN team ELSE other

Name(team) == {team} \ {None}

(* jira_issue_to_backlog_command *)
Imported(issue, fallback) ==
    LET spare == Match(Name(fallback), Tribe)
        owner == Else(Match(issue.owners, Tribe), spare)
    IN  [key |-> issue.key, text |-> issue.text, owner |-> owner,
         executor |-> Else(Match(issue.executors, Teams), Else(spare, owner))]

(* empty_backlog_command *)
Unknown(key, fallback) ==
    [key |-> key, text |-> NoText, owner |-> fallback, executor |-> fallback]

(* jira_issue_to_backlog_refresh_command: a team that nothing matches stays *)
(* as it is, which the check of the command refuses.                       *)
Merged(issue, current) ==
    LET owner == Else(Match(issue.owners, Tribe), Match(Name(current.owner), Tribe))
        matched == Else(Match(issue.executors, Teams), Match(Name(current.executor), Teams))
    IN  [key |-> current.key, text |-> issue.text,
         owner |-> Else(owner, current.owner),
         executor |-> IF current.executor = None THEN Else(matched, owner)
                      ELSE Else(matched, current.executor)]

(* What create_backlog_item, update_backlog_item and _apply_item_fields    *)
(* demand of the item i with new contents.                                 *)
Fits(i, new) ==
    /\ \A j \in DOMAIN items \ {i} : items[j].key # new.key
    /\ new.owner \in (Tribe \cap DOMAIN roster) \cup {None}
    /\ new.executor \in DOMAIN roster \cup {None}

Written(i, new) == [j \in DOMAIN items \cup {i} |-> IF j = i THEN new ELSE items[j]]

-----------------------------------------------------------------------------
(* The life of a request. *)

(* The page loads the board; its user picks an item, or types a key. *)
LoadPage(r) ==
    /\ pc[r] = "idle" /\ version < MaxVersion
    /\ pc' = [pc EXCEPT ![r] = "open"]
    /\ \/ page' = [page EXCEPT ![r] = [Blank EXCEPT !.expected = version]]
       \/ \E i \in DOMAIN items :
              page' = [page EXCEPT ![r] = [id |-> i, shown |-> items[i], expected |-> version]]
    /\ UNCHANGED <<version, items, holder, roster, asked, answer, command>>

(* post_backlog_item_from_jira up to the call. *)
AskImport(r) ==
    /\ pc[r] = "open" /\ ~Refreshes(r)
    /\ \E k \in Keys : asked' = [asked EXCEPT ![r] = k]
    /\ pc' = [pc EXCEPT ![r] = "asking"]
    /\ UNCHANGED <<version, items, holder, roster, page, answer, command>>

(* Mutant of AskRefresh: the lock is taken before Jira is asked. *)
AskUnderLock(r) ==
    /\ pc[r] = "open" /\ Refreshes(r) /\ page[r].id \in DOMAIN items
    /\ holder = None /\ page[r].expected = version
    /\ holder' = r
    /\ asked' = [asked EXCEPT ![r] = items[page[r].id].key]
    /\ pc' = [pc EXCEPT ![r] = "asking"]
    /\ UNCHANGED <<version, items, roster, page, answer, command>>

(* refresh_backlog_item_from_jira up to the call: a transaction of its own *)
(* reads the key as it is now.                                             *)
AskRefresh(r) ==
    /\ pc[r] = "open" /\ Refreshes(r) /\ page[r].id \in DOMAIN items
    /\ asked' = [asked EXCEPT ![r] = items[page[r].id].key]
    /\ pc' = [pc EXCEPT ![r] = "asking"]
    /\ UNCHANGED <<version, items, holder, roster, page, answer, command>>

(* The request ends and leaves the backlog as it is; its page is reloaded. *)
Forget(r) ==
    /\ pc' = [pc EXCEPT ![r] = "idle"]
    /\ page' = [page EXCEPT ![r] = Blank]
    /\ asked' = [asked EXCEPT ![r] = None]
    /\ answer' = [answer EXCEPT ![r] = None]
    /\ command' = [command EXCEPT ![r] = None]

ItemGone(r) ==
    /\ pc[r] = "open" /\ Refreshes(r) /\ page[r].id \notin DOMAIN items
    /\ Forget(r)
    /\ UNCHANGED <<version, items, holder, roster>>

JiraAnswers(r) ==
    /\ pc[r] = "asking"
    /\ \E issue \in Issue : answer' = [answer EXCEPT ![r] = issue]
    /\ pc' = [pc EXCEPT ![r] = "answered"]
    /\ UNCHANGED <<version, items, holder, roster, page, asked, command>>

(* Not found, not configured or not available: an import goes on without   *)
(* the issue.                                                              *)
JiraSilent(r) ==
    /\ pc[r] = "asking" /\ ~Refreshes(r)
    /\ pc' = [pc EXCEPT ![r] = "answered"]
    /\ UNCHANGED <<version, items, holder, roster, page, asked, answer, command>>

(* Any other error, and every error of a refresh. *)
JiraRefuses(r) ==
    /\ pc[r] = "asking"
    /\ Forget(r)
    /\ UNCHANGED <<version, items, holder, roster>>

(* Mutant of Current: newer versions pass. *)
NotBefore(r) ==
    /\ page[r].expected <= version
    /\ Refreshes(r) => page[r].id \in DOMAIN items

(* The backlog is at the version the page sent, and the item is there. *)
Current(r) ==
    /\ page[r].expected = version
    /\ Refreshes(r) => page[r].id \in DOMAIN items

(* lock_backlog, then the board is read and the command made from it. *)
Lock(r) ==
    /\ pc[r] = "answered" /\ holder = None /\ Current(r)
    /\ holder' = r
    /\ pc' = [pc EXCEPT ![r] = "locked"]
    /\ \E fallback \in Teams \cup {None} :
           command' = [command EXCEPT ![r] =
               IF Refreshes(r) THEN Merged(answer[r], items[page[r].id])
               ELSE IF answer[r] = None THEN Unknown(asked[r], fallback)
               ELSE Imported(answer[r], fallback)]
    /\ UNCHANGED <<version, items, roster, page, asked, answer>>

Conflict(r) ==
    /\ pc[r] = "answered" /\ holder = None /\ ~Current(r)
    /\ Forget(r)
    /\ UNCHANGED <<version, items, holder, roster>>

(* The command is checked against the teams as they are by now, written    *)
(* and committed, or rolled back.                                          *)
Save(r) ==
    /\ pc[r] = "locked"
    /\ \E i \in IF Refreshes(r) THEN {page[r].id} ELSE ItemIds \ DOMAIN items :
           /\ Fits(i, command[r])
           /\ items' = Written(i, command[r])
    /\ version' = version + 1
    /\ holder' = None
    /\ Forget(r)
    /\ UNCHANGED roster

Refuse(r) ==
    /\ pc[r] = "locked"
    /\ \A i \in IF Refreshes(r) THEN {page[r].id} ELSE ItemIds \ DOMAIN items :
           ~Fits(i, command[r])
    /\ holder' = None
    /\ Forget(r)
    /\ UNCHANGED <<version, items, roster>>

-----------------------------------------------------------------------------
(* Everybody else. *)

(* Commands of the backlog: an item is written by hand, or deleted. *)
HandEdit ==
    /\ holder = None /\ version < MaxVersion
    /\ version' = version + 1
    /\ \/ \E i \in ItemIds : \E new \in Item : Fits(i, new) /\ items' = Written(i, new)
       \/ \E i \in DOMAIN items : items' = [j \in DOMAIN items \ {i} |-> items[j]]
    /\ UNCHANGED <<holder, roster, pc, page, asked, answer, command>>

(* The teams of the cycle change. *)
EditRoster ==
    /\ roster' \in Rosters \ {roster}
    /\ UNCHANGED <<version, items, holder, pc, page, asked, answer, command>>

Step(r) ==
    \/ LoadPage(r) \/ AskImport(r) \/ AskRefresh(r) \/ ItemGone(r)
    \/ JiraAnswers(r) \/ JiraSilent(r) \/ JiraRefuses(r)
    \/ Lock(r) \/ Conflict(r) \/ Save(r) \/ Refuse(r)

Next == (\E r \in Requests : Step(r)) \/ HandEdit \/ EditRoster

(* A transaction under way ends.  Nothing is assumed of Jira. *)
Spec == Init /\ [][Next]_vars /\ \A r \in Requests : WF_vars(Save(r) \/ Refuse(r))

-----------------------------------------------------------------------------
(* The refresh that gets to write finds the item as its page showed it, and *)
(* what Jira sent is for the key the item has: a rename, an edit or a      *)
(* deletion while Jira was asked, even one undone again, ends in a         *)
(* conflict (api/jira.py:168).                                             *)
RefreshesWhatWasShown ==
    \A r \in Requests : pc[r] = "locked" /\ Refreshes(r) =>
        /\ page[r].id \in DOMAIN items
        /\ items[page[r].id] = page[r].shown
        /\ asked[r] = items[page[r].id].key

(* A refresh takes no team away from an item, whatever Jira names and      *)
(* however the teams of the cycle change before and during it.             *)
RefreshClearsNoTeam ==
    [][\A r \in Requests : Save(r) /\ Refreshes(r) =>
           LET i == page[r].id IN
           /\ items[i].owner # None => items'[i].owner # None
           /\ items[i].executor # None => items'[i].executor # None]_vars

(* Jira may be as slow as it likes: the backlog is free again and again.   *)
BacklogStaysOpen == []<>(holder = None)
=============================================================================
