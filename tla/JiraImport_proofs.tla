-------------------------- MODULE JiraImport_proofs --------------------------
(***************************************************************************)
(* Theorems about JiraImport, for any requests, items, keys, teams,        *)
(* aliases and rosters.                                                    *)
(***************************************************************************)
EXTENDS JiraImport, TLAPS

Asks(r) == pc[r] \in {"asking", "answered", "locked"}

(* Exactly the request whose command is written has the row. *)
LockHeld == \A r \in Requests : pc[r] = "locked" <=> holder = r

(* While the version is the one a page was loaded with, the item is what    *)
(* the page showed; and the key, read at any time since, is the item's.    *)
PageOK(r) ==
    /\ page[r].expected < MaxVersion
    /\ page[r].expected <= version
    /\ Refreshes(r) /\ page[r].expected = version =>
           /\ page[r].id \in DOMAIN items
           /\ items[page[r].id] = page[r].shown
    /\ Asks(r) => asked[r] \in Keys
    /\ Asks(r) /\ Refreshes(r) /\ page[r].expected = version => asked[r] = page[r].shown.key

PagesOK == \A r \in Requests : pc[r] # "idle" => PageOK(r)

(* A refresh goes on only with an answer. *)
AnswersOK ==
    \A r \in Requests : pc[r] \in {"answered", "locked"} /\ Refreshes(r) => answer[r] \in Issue

(* A command under way was made at the version it will replace, and takes  *)
(* no team from the item it is for.                                        *)
CommandsOK ==
    \A r \in Requests : pc[r] = "locked" =>
        /\ page[r].expected = version
        /\ command[r] \in Item
        /\ Refreshes(r) =>
               /\ items[page[r].id].owner # None => command[r].owner # None
               /\ items[page[r].id].executor # None => command[r].executor # None

IInv == TypeOK /\ LockHeld /\ PagesOK /\ AnswersOK /\ CommandsOK

-----------------------------------------------------------------------------
(* What the mapping makes has the type of an item. *)
LEMMA MatchType ==
    ASSUME TypeOK, NEW names \in SUBSET Teams, NEW teams \in SUBSET Teams
    PROVE  Match(names, teams) \in Teams \cup {None}
<1>1. roster \in Rosters /\ DOMAIN roster \subseteq Teams
  BY JiraImportAssumption DEF TypeOK
<1>2. Matching(names, teams) \subseteq DOMAIN roster
  BY DEF Matching
<1>3. CASE Matching(names, teams) = {}
  BY <1>3 DEF Match
<1>4. CASE Matching(names, teams) # {}
  <2> DEFINE S == Matching(names, teams)
  <2>1. \E t \in S : \A u \in S : roster[t] <= roster[u]
    BY <1>1, <1>2, <1>4, JiraImportAssumption
  <2>2. Match(names, teams) \in S
    BY <1>4, <2>1 DEF Match
  <2> QED
    BY <1>1, <1>2, <2>2
<1> QED
  BY <1>3, <1>4

LEMMA NameType == \A team \in Teams \cup {None} : Name(team) \in SUBSET Teams
BY DEF Name

LEMMA ElseType ==
    \A a, b \in Teams \cup {None} :
        Else(a, b) \in Teams \cup {None} /\ (b # None => Else(a, b) # None)
BY DEF Else

LEMMA ImportedType ==
    ASSUME TypeOK, NEW issue \in Issue, NEW fallback \in Teams \cup {None}
    PROVE  Imported(issue, fallback) \in Item
<1>1. Tribe \in SUBSET Teams /\ issue.owners \in SUBSET Teams /\ issue.executors \in SUBSET Teams
      /\ issue.key \in Keys /\ issue.text \in Texts
  BY JiraImportAssumption DEF Issue
<1> DEFINE spare == Match(Name(fallback), Tribe)
           named == Match(issue.owners, Tribe)
           owner == Else(named, spare)
           other == Match(issue.executors, Teams)
<1>2. spare \in Teams \cup {None} /\ named \in Teams \cup {None} /\ other \in Teams \cup {None}
  BY <1>1, MatchType, NameType
<1> HIDE DEF spare, named, other
<1>3. owner \in Teams \cup {None} /\ Else(spare, owner) \in Teams \cup {None}
  BY <1>2, ElseType
<1>4. Else(other, Else(spare, owner)) \in Teams \cup {None}
  BY <1>2, <1>3, ElseType
<1>5. Imported(issue, fallback) = [key |-> issue.key, text |-> issue.text, owner |-> owner,
                                   executor |-> Else(other, Else(spare, owner))]
  BY DEF Imported, spare, named, other
<1> QED
  BY <1>1, <1>3, <1>4, <1>5 DEF Item

LEMMA MergedType ==
    ASSUME TypeOK, NEW issue \in Issue, NEW current \in Item
    PROVE  /\ Merged(issue, current) \in Item
           /\ current.owner # None => Merged(issue, current).owner # None
           /\ current.executor # None => Merged(issue, current).executor # None
<1>1. Tribe \in SUBSET Teams /\ issue.owners \in SUBSET Teams /\ issue.executors \in SUBSET Teams
      /\ current.key \in Keys /\ issue.text \in Texts
      /\ current.owner \in Teams \cup {None} /\ current.executor \in Teams \cup {None}
  BY JiraImportAssumption DEF Issue, Item
<1> DEFINE owner == Else(Match(issue.owners, Tribe), Match(Name(current.owner), Tribe))
           matched == Else(Match(issue.executors, Teams), Match(Name(current.executor), Teams))
           executor == IF current.executor = None THEN Else(matched, owner)
                       ELSE Else(matched, current.executor)
<1>2. owner \in Teams \cup {None} /\ matched \in Teams \cup {None}
  <2>1. /\ Match(issue.owners, Tribe) \in Teams \cup {None}
        /\ Match(Name(current.owner), Tribe) \in Teams \cup {None}
        /\ Match(issue.executors, Teams) \in Teams \cup {None}
        /\ Match(Name(current.executor), Teams) \in Teams \cup {None}
    BY <1>1, MatchType, NameType
  <2> QED
    BY <2>1, ElseType
<1>3. Merged(issue, current) = [key |-> current.key, text |-> issue.text,
                                owner |-> Else(owner, current.owner), executor |-> executor]
  BY DEF Merged
<1> HIDE DEF owner, matched
<1>4. Else(owner, current.owner) \in Teams \cup {None} /\ executor \in Teams \cup {None}
  BY <1>1, <1>2, ElseType
<1>5. /\ current.owner # None => Else(owner, current.owner) # None
      /\ current.executor # None => executor # None
  BY <1>1, <1>2, ElseType
<1> QED
  BY <1>1, <1>3, <1>4, <1>5 DEF Item

LEMMA UnknownType ==
    \A k \in Keys, fallback \in Teams \cup {None} : Unknown(k, fallback) \in Item
BY JiraImportAssumption DEF Unknown, Item

LEMMA WrittenType ==
    ASSUME TypeOK, NEW i \in ItemIds, NEW new \in Item
    PROVE  /\ DOMAIN Written(i, new) \subseteq ItemIds
           /\ Written(i, new) \in [DOMAIN Written(i, new) -> Item]
           /\ Written(i, new)[i] = new
BY DEF TypeOK, Written

-----------------------------------------------------------------------------
LEMMA InvInit == Init => IInv
<1> SUFFICES ASSUME Init PROVE IInv
  OBVIOUS
<1> USE JiraImportAssumption
<1>1. TypeOK
  BY DEF Init, TypeOK, Blank, Places
<1>2. LockHeld /\ PagesOK /\ AnswersOK /\ CommandsOK
  BY DEF Init, LockHeld, PagesOK, AnswersOK, CommandsOK
<1> QED
  BY <1>1, <1>2 DEF IInv

(* A step of one request leaves what the invariant says of the others,      *)
(* unless it raises the version.                                           *)
Others(r) ==
    \A q \in Requests \ {r} : /\ pc'[q] = pc[q] /\ page'[q] = page[q] /\ asked'[q] = asked[q]
                              /\ answer'[q] = answer[q] /\ command'[q] = command[q]

(* What the invariant says of one request. *)
Sound(r) ==
    /\ pc[r] = "locked" <=> holder = r
    /\ pc[r] # "idle" => PageOK(r)
    /\ pc[r] \in {"answered", "locked"} /\ Refreshes(r) => answer[r] \in Issue
    /\ pc[r] = "locked" =>
        /\ page[r].expected = version
        /\ command[r] \in Item
        /\ Refreshes(r) =>
               /\ items[page[r].id].owner # None => command[r].owner # None
               /\ items[page[r].id].executor # None => command[r].executor # None

LEMMA AllSound == IInv <=> TypeOK /\ \A r \in Requests : Sound(r)
BY DEF IInv, LockHeld, PagesOK, AnswersOK, CommandsOK, Sound

LEMMA OthersSound ==
    ASSUME NEW r, NEW q \in Requests \ {r}, Others(r), Sound(q),
           version' = version, items' = items, holder' = holder
    PROVE  Sound(q)'
BY DEF Others, Sound, PageOK, Asks, Refreshes

LEMMA ForgetType ==
    ASSUME TypeOK, NEW r \in Requests, Forget(r)
    PROVE  /\ pc' \in [Requests -> Places \cup {"idle"}]
           /\ page' \in [Requests -> [id : ItemIds \cup {None}, shown : Item \cup {None},
                                      expected : 0..MaxVersion]]
           /\ asked' \in [Requests -> Keys \cup {None}]
           /\ answer' \in [Requests -> Issue \cup {None}]
           /\ command' \in [Requests -> Item \cup {None}]
           /\ pc'[r] = "idle" /\ Others(r)
BY JiraImportAssumption DEF TypeOK, Forget, Blank, Others, Places

(* Steps that leave the backlog and its lock alone. *)
LEMMA AskingSteps ==
    ASSUME IInv, NEW r \in Requests,
           \/ LoadPage(r) \/ AskImport(r) \/ AskRefresh(r) \/ ItemGone(r)
           \/ JiraAnswers(r) \/ JiraSilent(r) \/ JiraRefuses(r) \/ Conflict(r)
    PROVE  IInv'
<1> USE JiraImportAssumption
<1>1. TypeOK /\ \A q \in Requests : Sound(q)
  BY AllSound
<1>2. version' = version /\ items' = items /\ holder' = holder /\ roster' = roster
  BY DEF LoadPage, AskImport, AskRefresh, ItemGone, JiraAnswers, JiraSilent, JiraRefuses, Conflict
<1>3. TypeOK' /\ Others(r) /\ Sound(r)'
  <2>1. CASE LoadPage(r)
    <3>1. PICK new \in [id : ItemIds \cup {None}, shown : Item \cup {None},
                        expected : 0..MaxVersion] :
              page' = [page EXCEPT ![r] = new]
      <4>1. [Blank EXCEPT !.expected = version]
                = [id |-> None, shown |-> None, expected |-> version]
        BY DEF Blank
      <4>2. \A i \in DOMAIN items : i \in ItemIds /\ items[i] \in Item
        BY <1>1 DEF TypeOK
      <4>3. version \in 0..MaxVersion
        BY <1>1 DEF TypeOK
      <4> QED
        BY <2>1, <4>1, <4>2, <4>3 DEF LoadPage
    <3>2. TypeOK' /\ Others(r)
      <4>1. page' \in [Requests -> [id : ItemIds \cup {None}, shown : Item \cup {None},
                                    expected : 0..MaxVersion]]
        BY <1>1, <3>1 DEF TypeOK
      <4>2. pc' \in [Requests -> Places \cup {"idle"}]
        BY <1>1, <2>1 DEF LoadPage, TypeOK, Places
      <4> QED
        BY <1>1, <1>2, <2>1, <3>1, <4>1, <4>2 DEF LoadPage, TypeOK, Others
    <3>3. pc'[r] = "open" /\ holder # r /\ page'[r].expected = version /\ version < MaxVersion
          /\ (page'[r].id # None =>
                  page'[r].id \in DOMAIN items /\ items[page'[r].id] = page'[r].shown)
      <4>1. [Blank EXCEPT !.expected = version]
                = [id |-> None, shown |-> None, expected |-> version]
        BY DEF Blank
      <4> QED
        BY <1>1, <2>1, <4>1 DEF LoadPage, TypeOK, Sound
    <3>4. Sound(r)'
      <4>1. version \in Nat
        BY <1>1 DEF TypeOK
      <4> QED
        BY <1>2, <3>3, <4>1 DEF Sound, PageOK, Asks, Refreshes
    <3> QED
      BY <3>2, <3>4
  <2>2. CASE AskImport(r)
    <3>1. TypeOK' /\ Others(r)
      BY <1>1, <1>2, <2>2 DEF AskImport, TypeOK, Places, Others
    <3>2. Sound(r)'
      BY <1>1, <1>2, <2>2 DEF AskImport, TypeOK, Sound, PageOK, Asks, Refreshes
    <3> QED
      BY <3>1, <3>2
  <2>3. CASE AskRefresh(r)
    <3>1. items[page[r].id].key \in Keys
      BY <1>1, <2>3 DEF AskRefresh, TypeOK, Item
    <3>2. TypeOK' /\ Others(r)
      BY <1>1, <1>2, <2>3, <3>1 DEF AskRefresh, TypeOK, Places, Others
    <3>3. Sound(r)'
      BY <1>1, <1>2, <2>3, <3>1 DEF AskRefresh, TypeOK, Sound, PageOK, Asks, Refreshes
    <3> QED
      BY <3>2, <3>3
  <2>4. CASE JiraAnswers(r)
    <3>1. TypeOK' /\ Others(r)
      BY <1>1, <1>2, <2>4 DEF JiraAnswers, TypeOK, Places, Others
    <3>2. Sound(r)'
      BY <1>1, <1>2, <2>4 DEF JiraAnswers, TypeOK, Sound, PageOK, Asks, Refreshes
    <3> QED
      BY <3>1, <3>2
  <2>5. CASE JiraSilent(r)
    <3>1. TypeOK' /\ Others(r)
      BY <1>1, <1>2, <2>5 DEF JiraSilent, TypeOK, Places, Others
    <3>2. Sound(r)'
      BY <1>1, <1>2, <2>5 DEF JiraSilent, TypeOK, Sound, PageOK, Asks, Refreshes
    <3> QED
      BY <3>1, <3>2
  <2>6. CASE Forget(r) /\ pc[r] # "locked"
    <3>1. TypeOK' /\ Others(r) /\ pc'[r] = "idle"
      BY <1>1, <1>2, <2>6, ForgetType DEF TypeOK
    <3>2. Sound(r)'
      BY <1>1, <1>2, <2>6, <3>1 DEF Sound
    <3> QED
      BY <3>1, <3>2
  <2> QED
    BY <2>1, <2>2, <2>3, <2>4, <2>5, <2>6 DEF ItemGone, JiraRefuses, Conflict
<1>4. \A q \in Requests \ {r} : Sound(q)'
  BY <1>1, <1>2, <1>3, OthersSound
<1>5. (\A q \in Requests : Sound(q))'
  BY <1>3, <1>4
<1> QED
  BY <1>3, <1>5 DEF IInv, LockHeld, PagesOK, AnswersOK, CommandsOK, Sound

LEMMA LockStep ==
    ASSUME IInv, NEW r \in Requests, Lock(r)
    PROVE  IInv'
<1> USE JiraImportAssumption
<1>1. TypeOK /\ \A q \in Requests : Sound(q)
  BY AllSound
<1>2. page[r].expected = version /\ PageOK(r) /\ pc[r] = "answered" /\ Asks(r)
  BY <1>1 DEF Lock, Current, Sound, Asks
<1>3. /\ command'[r] \in Item
      /\ Refreshes(r) =>
            /\ items[page[r].id].owner # None => command'[r].owner # None
            /\ items[page[r].id].executor # None => command'[r].executor # None
  <2>1. PICK fallback \in Teams \cup {None} :
            command'[r] = IF Refreshes(r) THEN Merged(answer[r], items[page[r].id])
                          ELSE IF answer[r] = None THEN Unknown(asked[r], fallback)
                          ELSE Imported(answer[r], fallback)
    BY <1>1 DEF Lock, TypeOK
  <2>2. CASE Refreshes(r)
    <3>1. answer[r] \in Issue /\ items[page[r].id] \in Item
      BY <1>1, <1>2, <2>2 DEF Sound, PageOK, TypeOK
    <3> QED
      BY <1>1, <2>1, <2>2, <3>1, MergedType
  <2>3. CASE ~Refreshes(r) /\ answer[r] = None
    BY <1>2, <2>1, <2>3, UnknownType DEF PageOK
  <2>4. CASE ~Refreshes(r) /\ answer[r] # None
    <3>1. answer[r] \in Issue
      BY <1>1, <2>4 DEF TypeOK
    <3> QED
      BY <1>1, <2>1, <2>4, <3>1, ImportedType
  <2> QED
    BY <2>2, <2>3, <2>4
<1>4. TypeOK' /\ Others(r)
  <2>1. command' = [command EXCEPT ![r] = command'[r]]
    BY <1>1 DEF Lock, TypeOK
  <2> QED
    BY <1>1, <1>3, <2>1 DEF Lock, TypeOK, Places, Others
<1>5. Sound(r)'
  BY <1>1, <1>2, <1>3 DEF Lock, TypeOK, Sound, PageOK, Asks, Refreshes
<1>6. ASSUME NEW q \in Requests \ {r} PROVE Sound(q)'
  <2>1. pc[q] # "locked" /\ holder' # q /\ Sound(q)
    BY <1>1 DEF Lock, Sound
  <2> QED
    BY <1>4, <2>1 DEF Lock, Others, Sound, PageOK, Asks, Refreshes
<1>7. (\A q \in Requests : Sound(q))'
  BY <1>5, <1>6
<1> QED
  BY <1>4, <1>7 DEF IInv, LockHeld, PagesOK, AnswersOK, CommandsOK, Sound

(* Whoever writes raises the version, so nobody else's page is current. *)
LEMMA RaisedSound ==
    ASSUME TypeOK, NEW q \in Requests, Sound(q), pc[q] # "locked", holder' # q,
           pc'[q] = pc[q], page'[q] = page[q], asked'[q] = asked[q], answer'[q] = answer[q],
           version' = version + 1
    PROVE  Sound(q)'
<1>1. version \in Nat /\ page[q].expected \in Nat
  BY DEF TypeOK
<1> QED
  BY <1>1 DEF Sound, PageOK, Asks, Refreshes

LEMMA SaveStep ==
    ASSUME IInv, NEW r \in Requests, Save(r)
    PROVE  IInv'
<1> USE JiraImportAssumption
<1>1. TypeOK /\ \A q \in Requests : Sound(q)
  BY AllSound
<1>2. /\ holder = r /\ command[r] \in Item /\ PageOK(r) /\ page[r].expected = version
  BY <1>1 DEF Save, Sound
<1>3. Others(r) /\ pc'[r] = "idle"
  BY <1>1, ForgetType DEF Save
<1>4. TypeOK'
  <2>1. PICK i \in IF Refreshes(r) THEN {page[r].id} ELSE ItemIds \ DOMAIN items :
            items' = Written(i, command[r])
    BY DEF Save
  <2>2. i \in ItemIds
    BY <1>1, <1>2, <2>1 DEF PageOK, TypeOK
  <2>3. DOMAIN items' \subseteq ItemIds /\ items' \in [DOMAIN items' -> Item]
    BY <1>1, <1>2, <2>1, <2>2, WrittenType
  <2>4. version' \in 0..MaxVersion
    BY <1>1, <1>2 DEF Save, PageOK, TypeOK
  <2> QED
    BY <1>1, <2>3, <2>4, ForgetType DEF Save, TypeOK
<1>5. Sound(r)'
  BY <1>1, <1>3 DEF Save, Sound
<1>6. ASSUME NEW q \in Requests \ {r} PROVE Sound(q)'
  <2>1. pc[q] # "locked" /\ holder' # q
    BY <1>1, <1>2 DEF Save, Sound
  <2> QED
    BY <1>1, <1>3, <2>1, RaisedSound DEF Save, Others
<1>7. (\A q \in Requests : Sound(q))'
  BY <1>5, <1>6
<1> QED
  BY <1>4, <1>7 DEF IInv, LockHeld, PagesOK, AnswersOK, CommandsOK, Sound

LEMMA RefuseStep ==
    ASSUME IInv, NEW r \in Requests, Refuse(r)
    PROVE  IInv'
<1> USE JiraImportAssumption
<1>1. TypeOK /\ \A q \in Requests : Sound(q)
  BY AllSound
<1>2. holder = r
  BY <1>1 DEF Refuse, Sound
<1>3. TypeOK' /\ Others(r) /\ pc'[r] = "idle"
  BY <1>1, ForgetType DEF Refuse, TypeOK
<1>4. Sound(r)'
  BY <1>1, <1>3 DEF Refuse, Sound
<1>5. ASSUME NEW q \in Requests \ {r} PROVE Sound(q)'
  <2>1. pc[q] # "locked" /\ holder' # q /\ Sound(q)
    BY <1>1, <1>2 DEF Refuse, Sound
  <2> QED
    BY <1>3, <2>1 DEF Refuse, Others, Sound, PageOK, Asks, Refreshes
<1>6. (\A q \in Requests : Sound(q))'
  BY <1>4, <1>5
<1> QED
  BY <1>3, <1>6 DEF IInv, LockHeld, PagesOK, AnswersOK, CommandsOK, Sound

LEMMA HandEditStep == IInv /\ HandEdit => IInv'
<1> SUFFICES ASSUME IInv, HandEdit PROVE IInv'
  OBVIOUS
<1> USE JiraImportAssumption
<1>1. TypeOK /\ \A q \in Requests : Sound(q)
  BY AllSound
<1>2. DOMAIN items' \subseteq ItemIds /\ items' \in [DOMAIN items' -> Item]
  <2>1. CASE \E i \in ItemIds : \E new \in Item : Fits(i, new) /\ items' = Written(i, new)
    BY <1>1, <2>1, WrittenType
  <2>2. CASE \E i \in DOMAIN items : items' = [j \in DOMAIN items \ {i} |-> items[j]]
    BY <1>1, <2>2 DEF TypeOK
  <2> QED
    BY <2>1, <2>2 DEF HandEdit
<1>3. TypeOK'
  BY <1>1, <1>2 DEF HandEdit, TypeOK
<1>4. ASSUME NEW q \in Requests PROVE Sound(q)'
  <2>1. pc[q] # "locked" /\ holder' # q
    BY <1>1 DEF HandEdit, Sound
  <2> QED
    BY <1>1, <2>1, RaisedSound DEF HandEdit
<1>5. (\A q \in Requests : Sound(q))'
  BY <1>4
<1> QED
  BY <1>3, <1>5 DEF IInv, LockHeld, PagesOK, AnswersOK, CommandsOK, Sound

LEMMA EditRosterStep == IInv /\ EditRoster => IInv'
BY DEF EditRoster, IInv, TypeOK, LockHeld, PagesOK, PageOK, Asks, AnswersOK, CommandsOK, Refreshes

LEMMA StutterStep == IInv /\ UNCHANGED vars => IInv'
BY DEF vars, IInv, TypeOK, LockHeld, PagesOK, PageOK, Asks, AnswersOK, CommandsOK, Refreshes

LEMMA InvStep == IInv /\ [Next]_vars => IInv'
<1> SUFFICES ASSUME IInv, [Next]_vars PROVE IInv'
  OBVIOUS
<1>1. ASSUME NEW r \in Requests, Step(r) PROVE IInv'
  BY <1>1, AskingSteps, LockStep, SaveStep, RefuseStep DEF Step
<1> QED
  BY <1>1, HandEditStep, EditRosterStep, StutterStep DEF Next

LEMMA Invariance == Spec => []IInv
BY InvInit, InvStep, PTL DEF Spec

-----------------------------------------------------------------------------
(* Every part of the state has its type, whatever Jira answers. *)
THEOREM TypesHold == Spec => []TypeOK
<1>1. IInv => TypeOK
  BY DEF IInv
<1> QED
  BY <1>1, Invariance, PTL

(* A refresh that gets to write (api/jira.py:168) finds the item its page  *)
(* showed, under the key Jira was asked for, for any number of other       *)
(* requests and of edits in between.                                       *)
THEOREM NoStaleRefresh == Spec => []RefreshesWhatWasShown
<1>1. IInv => RefreshesWhatWasShown
  <2> SUFFICES ASSUME IInv, NEW r \in Requests, pc[r] = "locked", Refreshes(r)
               PROVE  /\ page[r].id \in DOMAIN items
                      /\ items[page[r].id] = page[r].shown
                      /\ asked[r] = items[page[r].id].key
    BY DEF RefreshesWhatWasShown
  <2>1. PageOK(r) /\ page[r].expected = version /\ Asks(r)
    BY DEF IInv, PagesOK, CommandsOK, Asks
  <2> QED
    BY <2>1 DEF PageOK
<1> QED
  BY <1>1, Invariance, PTL

(* A refresh leaves no item without the owner or the executor it had       *)
(* (jira_issue_to_backlog_refresh_command), for any answer of Jira and any *)
(* change of the cycle's teams.                                            *)
THEOREM RefreshKeepsTeams == Spec => RefreshClearsNoTeam
<1> DEFINE Kept ==
        \A r \in Requests : Save(r) /\ Refreshes(r) =>
           LET i == page[r].id IN
           /\ items[i].owner # None => items'[i].owner # None
           /\ items[i].executor # None => items'[i].executor # None
<1>1. IInv /\ [Next]_vars => [Kept]_vars
  <2> SUFFICES ASSUME IInv, NEW r \in Requests, Save(r), Refreshes(r)
               PROVE  /\ items[page[r].id].owner # None => items'[page[r].id].owner # None
                      /\ items[page[r].id].executor # None => items'[page[r].id].executor # None
    OBVIOUS
  <2>1. items' = Written(page[r].id, command[r])
    BY DEF Save
  <2>2. items'[page[r].id] = command[r]
    BY <2>1 DEF Written
  <2>3. /\ items[page[r].id].owner # None => command[r].owner # None
        /\ items[page[r].id].executor # None => command[r].executor # None
    BY DEF IInv, CommandsOK, Save
  <2> QED
    BY <2>2, <2>3
<1> QED
  BY <1>1, Invariance, PTL DEF Spec, RefreshClearsNoTeam
=============================================================================
