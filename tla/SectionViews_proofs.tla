------------------------- MODULE SectionViews_proofs -------------------------
(***************************************************************************)
(* A page never edits on top of what it does not show, unless it has taken *)
(* a version without comparing it: proved for any roles and any bounds.    *)
(***************************************************************************)
EXTENDS SectionViews, TLAPS

Vers == Nat \cup {None}

(* None stands for "nothing known": it is not after anything. *)
UpTo(a, v) == a = None \/ a <= v

CommandsW == [kind : Kinds, expected : Vers, version : Nat,
              status : {"sent", "done", "conflict", "refused"}]

ReadsW == [section : Sections, why : {"load", "refresh", "reload", "relearn"},
           prev : Vers, version : Vers]

(* Every version on the page or on its way is one the server had. *)
Past ==
    /\ version \in Nat
    /\ foreign \in [Sections -> Nat]
    /\ \A s \in Sections : foreign[s] <= version
    /\ known \in Vers /\ UpTo(known, version)
    /\ dataKnown \in Vers
    /\ seen \in [Sections -> Vers]
    /\ command = NoCommand \/ command \in CommandsW
    /\ command # NoCommand => command.version <= version
    /\ \A r \in reads : r \in ReadsW /\ UpTo(r.version, version) /\ UpTo(r.prev, version)
    /\ unchecked \in BOOLEAN

(* What was edited after a section was read was edited after known. *)
Complete ==
    \A s \in Sections : seen[s] # None =>
        /\ known # None
        /\ foreign[s] <= seen[s] \/ foreign[s] > known

(* The PI data never know more than the page. *)
DataBehind == dataKnown # None => known # None /\ dataKnown <= known

(* A command was sent with a version the page still has, and its commit is *)
(* the next one and nobody else's.                                         *)
CommandBehind ==
    command # NoCommand =>
        IF command.kind = "dispatch" THEN command.expected = None
        ELSE /\ known # None /\ command.expected # None
             /\ command.expected <= known
             /\ command.status = "done" =>
                   /\ command.version = command.expected + 1
                   /\ \A s \in Sections : foreign[s] # command.version

NothingForgotten == \A r \in reads : r.why # "relearn"

Checked == Complete /\ DataBehind /\ CommandBehind /\ NothingForgotten

IInv == Past /\ (~unchecked => Checked)

-----------------------------------------------------------------------------
Whys == {"load", "refresh", "reload", "relearn"}

(* What the page asks for has no answer yet. *)
LEMMA AsksOK ==
    \A ss, why, prev : ss \in SUBSET Sections /\ why \in Whys /\ prev \in Vers =>
        \A q \in Asks(ss, why, prev) : /\ q \in ReadsW /\ q.version = None
                                          /\ q.why = why /\ q.prev = prev
BY DEF Asks, ReadsW, Whys, Vers

LEMMA SectionNames ==
    /\ \A s \in Sections : FirstOf(Later(s)) \in SUBSET Sections
    /\ FirstOf(Sections \cap shown) \in SUBSET Sections
    /\ {"prePi"} \in SUBSET Sections
    /\ \A kind \in Kinds : Reread[kind] \in SUBSET Sections
    /\ \A kind : ReadAgain(kind) \in SUBSET Sections
<1>1. Sections = {"data", "prePi", "goals", "boards", "capacity", "program", "risks"}
  BY DEF Sections, LoadOrder
<1>2. \A kind \in Kinds : Reread[kind] \in SUBSET Sections
  BY <1>1 DEF Kinds, Answered, Reread
<1> QED
  BY <1>1, <1>2 DEF FirstOf, Later, ReadAgain

(* A section read at v carries v, and so does the page. *)
LEMMA ShowsPast ==
    ASSUME Past, NEW ss, NEW v \in Nat, v <= version, Shows(ss, v)
    PROVE  /\ known' = v
           /\ dataKnown' \in {dataKnown, v} /\ dataKnown' \in Vers
           /\ seen' \in [Sections -> Vers]
BY DEF Past, Shows, Vers

LEMMA SettledOK ==
    ASSUME command \in CommandsW, version' \in Nat,
           NEW status \in {"done", "conflict", "refused"}, Settle(status)
    PROVE  /\ command' \in CommandsW
           /\ command'.version = version' /\ command'.status = status
           /\ command'.kind = command.kind /\ command'.expected = command.expected
<1> DEFINE d == [command EXCEPT !.status = status, !.version = version']
<1>1. /\ d \in CommandsW /\ d.status = status /\ d.version = version'
      /\ d.kind = command.kind /\ d.expected = command.expected
  BY DEF CommandsW
<1>2. command' = d
  BY DEF Settle
<1> QED
  BY <1>1, <1>2

LEMMA PastInit == Init => Past
<1> SUFFICES ASSUME Init
             PROVE  Past
  OBVIOUS
<1>1. unchecked \in BOOLEAN
  BY Zenon DEF Init
<1>2. \A r \in reads : r \in ReadsW /\ UpTo(r.version, version) /\ UpTo(r.prev, version)
  BY DEF Init
<1>3. command = NoCommand
  BY DEF Init
<1>4. /\ version = 0 /\ foreign = [s \in Sections |-> 0]
      /\ known = None /\ dataKnown = None /\ seen = [s \in Sections |-> None]
  BY DEF Init
<1>5. /\ version \in Nat /\ foreign \in [Sections -> Nat]
      /\ \A s \in Sections : foreign[s] <= version
      /\ known \in Vers /\ UpTo(known, version) /\ dataKnown \in Vers
      /\ seen \in [Sections -> Vers]
  BY <1>4 DEF Vers, UpTo
<1> QED
  BY <1>1, <1>2, <1>3, <1>5 DEF Past

LEMMA PastStep == Past /\ [Next]_vars => Past'
<1> SUFFICES ASSUME Past, [Next]_vars
             PROVE  Past'
  OBVIOUS
<1> USE SectionViewsAssumption DEF UpTo
<1>1. ASSUME NEW s \in Sections, OtherEdit(s)
      PROVE  Past'
  BY <1>1 DEF OtherEdit, Past, page, Vers, CommandsW, NoCommand, ReadsW
<1>2. ASSUME NEW r \in reads, ServeRead(r)
      PROVE  Past'
  <2> DEFINE q == [r EXCEPT !.version = version]
  <2>1. r \in ReadsW /\ UpTo(r.prev, version) /\ version \in Nat
    BY DEF Past
  <2>2. q \in ReadsW /\ q.version = version /\ q.prev = r.prev
    BY <2>1 DEF ReadsW, Vers
  <2>3. reads' = (reads \ {r}) \cup {q}
    BY <1>2 DEF ServeRead
  <2> HIDE DEF q
  <2> QED
    BY <1>2, <2>1, <2>2, <2>3 DEF ServeRead, Past, server, page
<1>3. ASSUME NEW r \in reads, TakeAnswer(r)
      PROVE  Past'
  <2>1. r.version \in Nat /\ r.version <= version /\ r.section \in Sections
    BY <1>3 DEF TakeAnswer, Past, ReadsW, Vers
  <2>2. /\ known' = r.version
        /\ dataKnown' \in Vers
        /\ seen' \in [Sections -> Vers]
    BY <1>3, <2>1, ShowsPast DEF TakeAnswer
  <2>3. \A q \in reads' : q \in ReadsW /\ UpTo(q.version, version) /\ UpTo(q.prev, version)
    <3>1. FirstOf(Later(r.section)) \in SUBSET Sections
      BY <2>1, SectionNames
    <3>2. \A q \in Asks(FirstOf(Later(r.section)), "load", None) :
              q \in ReadsW /\ UpTo(q.version, version) /\ UpTo(q.prev, version)
      BY <3>1, AsksOK DEF Whys, Vers
    <3> QED
      BY <1>3, <3>2 DEF TakeAnswer, Past
  <2>4. unchecked' \in BOOLEAN
    BY <1>3, Zenon DEF TakeAnswer
  <2> QED
    BY <1>3, <2>1, <2>2, <2>3, <2>4 DEF TakeAnswer, Past, server, Vers
<1>4. ASSUME NEW r \in reads, Fails(r)
      PROVE  Past'
  <2>0. r.prev \in Vers /\ UpTo(r.prev, version)
    BY DEF Past, ReadsW
  <2> QED
    BY <1>4, <2>0 DEF Fails, Past, server
<1>5. ASSUME CommitCommand
      PROVE  Past'
  <2>1. command \in CommandsW /\ version' = version + 1 /\ version \in Nat /\ version' \in Nat
    BY <1>5 DEF CommitCommand, Pending, Past
  <2>2. Settle("done")
    BY <1>5 DEF CommitCommand
  <2>3. command' \in CommandsW /\ command'.version = version'
    BY <2>1, <2>2, SettledOK
  <2>4. /\ \A s \in Sections : foreign'[s] <= version'
        /\ UpTo(known', version')
        /\ \A r \in reads' : UpTo(r.version, version') /\ UpTo(r.prev, version')
    BY <1>5, <2>1 DEF CommitCommand, Settle, page, Past, ReadsW, Vers
  <2> QED
    BY <1>5, <2>1, <2>3, <2>4 DEF CommitCommand, Settle, Past, page
<1>6. ASSUME ConflictCommand \/ RefuseCommand
      PROVE  Past'
  <2>1. command \in CommandsW /\ version' = version /\ version \in Nat
    BY <1>6 DEF ConflictCommand, RefuseCommand, Pending, Past
  <2>2. PICK status \in {"conflict", "refused"} : Settle(status)
    BY <1>6 DEF ConflictCommand, RefuseCommand
  <2>3. command' \in CommandsW /\ command'.version = version
    BY <2>1, <2>2, SettledOK
  <2> QED
    BY <2>1, <2>2, <2>3 DEF Settle, Past, page
<1>7. CASE OpenCycle
  <2>1. \A q \in Asks(FirstOf(Sections \cap shown), "load", None) :
            q \in ReadsW /\ UpTo(q.version, version) /\ UpTo(q.prev, version)
    BY AsksOK, SectionNames DEF Whys, Vers
  <2> QED
    BY <1>7, <2>1 DEF OpenCycle, Past, server
<1>8. CASE Leave
  BY <1>8 DEF Leave, Past, server
<1>9. ASSUME NEW kind \in Kinds, SendCommand(kind)
      PROVE  Past'
  <2>1. command' \in CommandsW /\ command'.version = 0
    BY <1>9 DEF SendCommand, ToSend, Past, CommandsW, Vers
  <2> QED
    BY <1>9, <2>1 DEF SendCommand, Past, server, page
<1>10. CASE TakeResult
  <2>1. command.version \in Nat /\ command.version <= version /\ command.kind \in Kinds
    BY <1>10 DEF TakeResult, Past, CommandsW
  <2>2. /\ known' = command.version
        /\ dataKnown' \in Vers
        /\ seen' \in [Sections -> Vers]
    BY <1>10, <2>1, ShowsPast DEF TakeResult
  <2>3. \A q \in reads' : q \in ReadsW /\ UpTo(q.version, version) /\ UpTo(q.prev, version)
    <3>1. \A q \in Asks(Reread[command.kind], "refresh", None) :
              q \in ReadsW /\ UpTo(q.version, version) /\ UpTo(q.prev, version)
      BY <2>1, AsksOK, SectionNames DEF Whys, Vers
    <3> QED
      BY <1>10, <3>1 DEF TakeResult, Past
  <2>4. unchecked' \in BOOLEAN
    BY <1>10, Zenon DEF TakeResult
  <2> QED
    BY <1>10, <2>1, <2>2, <2>3, <2>4 DEF TakeResult, Past, server, Vers
<1>11. CASE TakeDispatch
  <2>1. known \in Vers /\ "relearn" \in Whys
    BY DEF Past, Whys
  <2>2. \A q \in reads' : q \in ReadsW /\ UpTo(q.version, version) /\ UpTo(q.prev, version)
    BY <1>11, <2>1, AsksOK, SectionNames DEF TakeDispatch, Past
  <2> QED
    BY <1>11, <2>2 DEF TakeDispatch, Past, server, Vers
<1>12. CASE TakeRefusal
  BY <1>12, AsksOK, SectionNames DEF TakeRefusal, Past, server, page, Whys, Vers
<1>13. CASE LoseCommand
  BY <1>13 DEF LoseCommand, Past, server, page
<1>14. CASE UNCHANGED vars
  BY <1>14 DEF vars, Past
<1> QED
  BY <1>1, <1>2, <1>3, <1>4, <1>5, <1>6, <1>7, <1>8, <1>9, <1>10, <1>11, <1>12, <1>13, <1>14
  DEF Next, RefuseAnswer, LoseRead

-----------------------------------------------------------------------------
(* An unchecked version is never forgotten, so an action that leaves       *)
(* ~unchecked started from a page on which everything was checked.         *)

LEMMA CheckedInit == Init => Checked
<1> SUFFICES ASSUME Init
             PROVE  Checked
  OBVIOUS
<1>1. Complete
  BY DEF Init, Complete
<1>2. DataBehind /\ CommandBehind /\ NothingForgotten
  BY DEF Init, DataBehind, CommandBehind, NothingForgotten
<1> QED
  BY <1>1, <1>2 DEF Checked

(* Whatever was asked for before, or is asked for other than to re-learn.  *)
LEMMA AsksForgetNothing ==
    \A ss, why, prev : why # "relearn" => \A q \in Asks(ss, why, prev) : q.why # "relearn"
BY DEF Asks

(* The page takes the version it has, or its first.                        *)
LEMMA AnswerChecked ==
    ASSUME Past, Checked, NEW r \in reads, TakeAnswer(r), Fitting(r)
    PROVE  Checked'
<1> USE SectionViewsAssumption
<1>1. /\ r \in ReadsW /\ r.version \in Nat /\ r.section \in Sections
  BY DEF TakeAnswer, Past, ReadsW, Vers
<1>2. /\ known' = r.version /\ dataKnown' \in {dataKnown, r.version}
      /\ \A s \in Sections : seen'[s] \in {seen[s], r.version}
      /\ \A s \in Sections : s # r.section => seen'[s] = seen[s]
  BY <1>1 DEF TakeAnswer, Shows, Past
<1>3. known = None \/ known = r.version
  BY DEF Fitting
<1>4. known' # None
  BY <1>1, <1>2
<1>5. Complete'
  <2> SUFFICES ASSUME NEW s \in Sections, seen'[s] # None
               PROVE  foreign'[s] <= seen'[s] \/ foreign'[s] > known'
    BY <1>4 DEF Complete
  <2>1. foreign' = foreign /\ foreign[s] \in Nat
    BY DEF TakeAnswer, server, Past
  <2>2. CASE seen'[s] = r.version
    BY <1>1, <1>2, <2>1, <2>2
  <2>3. CASE seen'[s] = seen[s]
    BY <1>2, <1>3, <2>1, <2>3 DEF Checked, Complete
  <2> QED
    BY <1>2, <2>2, <2>3
<1>6. DataBehind'
  BY <1>1, <1>2, <1>3, <1>4 DEF Checked, DataBehind
<1>7. CommandBehind'
  <2>1. command' = command /\ foreign' = foreign
    BY DEF TakeAnswer, server
  <2> QED
    BY <1>2, <1>3, <1>4, <2>1 DEF Checked, CommandBehind
<1>8. NothingForgotten'
  BY AsksForgetNothing DEF TakeAnswer, Checked, NothingForgotten
<1> QED
  BY <1>5, <1>6, <1>7, <1>8 DEF Checked

(* The page takes the version after the one it has, the one of its own     *)
(* commit: what it does not show was edited later still.                   *)
LEMMA ResultChecked ==
    ASSUME Past, Checked, TakeResult, known = command.expected
    PROVE  Checked'
<1> USE SectionViewsAssumption
<1>1. /\ command \in CommandsW /\ command.version \in Nat /\ command.kind \in Kinds
      /\ known \in Nat /\ command.version = known + 1
      /\ \A s \in Sections : foreign[s] # command.version
  BY DEF TakeResult, Past, CommandsW, Vers, Checked, CommandBehind
<1>2. /\ known' = command.version /\ dataKnown' \in {dataKnown, command.version}
      /\ \A s \in Sections : seen'[s] \in {seen[s], command.version}
      /\ foreign' = foreign /\ command' = NoCommand
  BY <1>1 DEF TakeResult, Shows, Past, server
<1>3. known' # None
  BY <1>1, <1>2
<1>4. Complete'
  <2> SUFFICES ASSUME NEW s \in Sections, seen'[s] # None
               PROVE  foreign[s] <= seen'[s] \/ foreign[s] > known'
    BY <1>2, <1>3 DEF Complete
  <2>1. foreign[s] \in Nat
    BY DEF Past
  <2>2. CASE seen'[s] = command.version
    BY <1>1, <1>2, <2>1, <2>2
  <2>3. CASE seen'[s] = seen[s]
    BY <1>1, <1>2, <2>1, <2>3 DEF Checked, Complete
  <2> QED
    BY <1>2, <2>2, <2>3
<1>5. DataBehind'
  BY <1>1, <1>2, <1>3 DEF Checked, DataBehind, Past, Vers
<1>6. CommandBehind'
  BY <1>2 DEF CommandBehind
<1>7. NothingForgotten'
  BY AsksForgetNothing DEF TakeResult, Checked, NothingForgotten
<1> QED
  BY <1>4, <1>5, <1>6, <1>7 DEF Checked

LEMMA CheckedStep ==
    Past /\ (~unchecked => Checked) /\ [Next]_vars => (~unchecked' => Checked')
<1> SUFFICES ASSUME Past, ~unchecked => Checked, [Next]_vars, ~unchecked'
             PROVE  Checked'
  OBVIOUS
<1> USE SectionViewsAssumption
<1>0. ASSUME unchecked' = unchecked
      PROVE  Checked
  BY <1>0
<1>1. ASSUME NEW s \in Sections, OtherEdit(s)
      PROVE  Checked'
  <2>1. Checked
    BY <1>0, <1>1 DEF OtherEdit, page
  <2>2. UNCHANGED <<known, dataKnown, seen, command, reads>> /\ version' = version + 1
    BY <1>1 DEF OtherEdit, page
  <2>3. /\ version \in Nat /\ \A x \in Sections : foreign[x] \in Nat /\ foreign[x] <= version
        /\ \A x \in Sections : foreign'[x] \in {foreign[x], version + 1}
    BY <1>1 DEF OtherEdit, Past
  <2>4. Complete'
    BY <2>1, <2>2, <2>3 DEF Checked, Complete, Past, Vers, UpTo
  <2>5. CommandBehind'
    BY <2>1, <2>2, <2>3 DEF Checked, CommandBehind, Past, CommandsW
  <2> QED
    BY <2>1, <2>2, <2>4, <2>5 DEF Checked, DataBehind, NothingForgotten
<1>2. ASSUME NEW r \in reads, ServeRead(r)
      PROVE  Checked'
  <2> DEFINE q == [r EXCEPT !.version = version]
  <2>1. Checked /\ UNCHANGED <<foreign, known, dataKnown, seen, command>>
    BY <1>0, <1>2 DEF ServeRead, server, page
  <2>2. r \in ReadsW
    BY DEF Past
  <2>3. q.why = r.why
    BY <2>2 DEF ReadsW
  <2>4. reads' = (reads \ {r}) \cup {q}
    BY <1>2 DEF ServeRead
  <2> HIDE DEF q
  <2>5. NothingForgotten'
    BY <2>1, <2>3, <2>4 DEF Checked, NothingForgotten
  <2> QED
    BY <2>1, <2>5 DEF Checked, Complete, DataBehind, CommandBehind
<1>3. ASSUME NEW r \in reads, TakeAnswer(r)
      PROVE  Checked'
  <2>1. ~unchecked /\ Fitting(r)
    BY <1>3, Zenon DEF TakeAnswer
  <2> QED
    BY <1>3, <2>1, AnswerChecked
<1>4. ASSUME NEW r \in reads, Fails(r)
      PROVE  Checked'
  <2>1. Checked /\ UNCHANGED <<foreign, dataKnown, seen, command>>
    BY <1>0, <1>4 DEF Fails, server
  <2>2. known' = known
    BY <1>4, <2>1 DEF Fails, Checked, NothingForgotten
  <2>3. reads' \subseteq reads
    BY <1>4 DEF Fails
  <2> QED
    BY <2>1, <2>2, <2>3 DEF Checked, Complete, DataBehind, CommandBehind, NothingForgotten
<1>5. CASE CommitCommand
  <2>1. Checked /\ UNCHANGED <<foreign, known, dataKnown, seen, reads>>
    BY <1>0, <1>5 DEF CommitCommand, Settle, page
  <2>2. command \in CommandsW /\ version' = version + 1 /\ version \in Nat /\ version' \in Nat
    BY <1>5 DEF CommitCommand, Pending, Past
  <2>3. /\ command'.version = version + 1 /\ command'.kind = command.kind
        /\ command'.expected = command.expected /\ command # NoCommand
    BY <1>5, <2>2, SettledOK DEF CommitCommand, Pending
  <2>4. \A s \in Sections : foreign[s] \in Nat /\ foreign[s] <= version
    BY DEF Past
  <2>5. CommandBehind'
    BY <1>5, <2>1, <2>2, <2>3, <2>4 DEF CommitCommand, Accepts, Checked, CommandBehind
  <2> QED
    BY <2>1, <2>5 DEF Checked, Complete, DataBehind, NothingForgotten
<1>6. ASSUME ConflictCommand \/ RefuseCommand
      PROVE  Checked'
  <2>1. PICK status \in {"conflict", "refused"} : Settle(status)
    BY <1>6 DEF ConflictCommand, RefuseCommand
  <2>2. Checked /\ UNCHANGED <<foreign, known, dataKnown, seen, reads>>
    BY <1>0, <2>1 DEF Settle, page
  <2>3. command \in CommandsW /\ version' \in Nat /\ command # NoCommand
    BY <1>6 DEF ConflictCommand, RefuseCommand, Pending, Past
  <2>4. /\ command'.status = status /\ command'.kind = command.kind
        /\ command'.expected = command.expected
    BY <2>1, <2>3, SettledOK
  <2>5. CommandBehind'
    BY <2>2, <2>3, <2>4 DEF Checked, CommandBehind
  <2> QED
    BY <2>2, <2>5 DEF Checked, Complete, DataBehind, NothingForgotten
<1>7. CASE OpenCycle
  <2>1. Checked /\ UNCHANGED <<foreign, known, dataKnown, seen, command>>
    BY <1>0, <1>7 DEF OpenCycle, server
  <2>2. NothingForgotten'
    BY <1>7, <2>1, AsksForgetNothing DEF OpenCycle, Checked, NothingForgotten
  <2> QED
    BY <2>1, <2>2 DEF Checked, Complete, DataBehind, CommandBehind
<1>8. CASE Leave
  <2>1. Checked /\ UNCHANGED <<foreign, known, dataKnown, seen, command, reads>>
    BY <1>0, <1>8 DEF Leave, server
  <2> QED
    BY <2>1 DEF Checked, Complete, DataBehind, CommandBehind, NothingForgotten
<1>9. ASSUME NEW kind \in Kinds, SendCommand(kind)
      PROVE  Checked'
  <2>1. Checked /\ UNCHANGED <<foreign, known, dataKnown, seen, reads>>
    BY <1>0, <1>9 DEF SendCommand, server, page
  <2>2. /\ command'.kind = kind /\ command'.status = "sent"
        /\ kind = "dispatch" => command'.expected = None
        /\ kind # "dispatch" => command'.expected = ToSend(kind) /\ ToSend(kind) # None
    BY <1>9 DEF SendCommand
  <2>3. kind # "dispatch" => known # None /\ ToSend(kind) <= known
    BY <2>1, <2>2 DEF ToSend, Checked, DataBehind, Past, Vers
  <2>4. CommandBehind'
    BY <2>1, <2>2, <2>3 DEF CommandBehind
  <2> QED
    BY <2>1, <2>4 DEF Checked, Complete, DataBehind, NothingForgotten
<1>10. CASE TakeResult
  <2>1. ~unchecked /\ known = command.expected
    BY <1>10, Zenon DEF TakeResult
  <2> QED
    BY <1>10, <2>1, ResultChecked
<1>11. CASE TakeDispatch
  BY <1>11 DEF TakeDispatch
<1>12. CASE TakeRefusal
  <2>1. Checked /\ UNCHANGED <<foreign, known, dataKnown, seen>> /\ command' = NoCommand
    BY <1>0, <1>12 DEF TakeRefusal, server, page
  <2>2. NothingForgotten'
    BY <1>12, <2>1, AsksForgetNothing DEF TakeRefusal, Checked, NothingForgotten
  <2> QED
    BY <2>1, <2>2 DEF Checked, Complete, DataBehind, CommandBehind
<1>13. CASE LoseCommand
  <2>1. Checked /\ UNCHANGED <<foreign, known, dataKnown, seen, reads>> /\ command' = NoCommand
    BY <1>0, <1>13 DEF LoseCommand, server, page
  <2> QED
    BY <2>1 DEF Checked, Complete, DataBehind, CommandBehind, NothingForgotten
<1>14. CASE UNCHANGED vars
  <2>1. Checked /\ UNCHANGED <<foreign, known, dataKnown, seen, command, reads>>
    BY <1>0, <1>14 DEF vars
  <2> QED
    BY <2>1 DEF Checked, Complete, DataBehind, CommandBehind, NothingForgotten
<1> QED
  BY <1>1, <1>2, <1>3, <1>4, <1>5, <1>6, <1>7, <1>8, <1>9, <1>10, <1>11, <1>12, <1>13, <1>14
  DEF Next, RefuseAnswer, LoseRead

(* The invariant rules the blind edit out, in each of its three forms: the *)
(* page has the server's version, has sent it, or is about to get it.      *)
LEMMA CheckedSees == Past /\ Checked => ~Blind
<1> SUFFICES ASSUME Past, Checked, NEW s \in Sections,
                    Acceptable, seen[s] # None, seen[s] < foreign[s]
             PROVE  FALSE
  BY DEF Blind
<1> USE SectionViewsAssumption
<1>1. /\ version \in Nat /\ foreign[s] \in Nat /\ foreign[s] <= version
      /\ known \in Nat /\ known <= version /\ seen[s] \in Nat /\ foreign[s] > known
  BY DEF Past, Vers, UpTo, Checked, Complete
<1>2. CASE known = version
  BY <1>1, <1>2
<1>3. CASE Pending /\ command.expected = version
  <2>1. command \in CommandsW
    BY <1>3 DEF Pending, Past
  <2>2. CASE command.kind # "dispatch"
    BY <1>1, <1>3, <2>2 DEF Pending, Checked, CommandBehind
  <2>3. CASE command.kind = "dispatch"
    BY <1>1, <1>3, <2>3 DEF Pending, Checked, CommandBehind
  <2> QED
    BY <2>2, <2>3
<1>4. CASE Answering /\ command.kind # "dispatch"
  <2>1. /\ command.expected \in Nat /\ command.expected <= known
        /\ version = command.expected + 1 /\ foreign[s] # version
    BY <1>4 DEF Answering, Checked, CommandBehind, Past, CommandsW, Vers
  <2> QED
    BY <1>1, <2>1
<1> QED
  BY <1>2, <1>3, <1>4 DEF Acceptable

-----------------------------------------------------------------------------
(* No page, whatever sections its user sees, whatever is lost or answered  *)
(* late, sends a command the server can accept while one of its sections   *)
(* lacks the edit of somebody else, unless it has taken a version without  *)
(* comparing it (api.js:186, api.js:80, backlog.js:408).                   *)
THEOREM NeverBlind == Spec => []BlindOnlyIfUnchecked
<1>1. Init => IInv
  BY PastInit, CheckedInit DEF IInv
<1>2. IInv /\ [Next]_vars => IInv'
  BY PastStep, CheckedStep DEF IInv
<1>3. IInv => BlindOnlyIfUnchecked
  BY CheckedSees DEF IInv, BlindOnlyIfUnchecked
<1> QED
  BY <1>1, <1>2, <1>3, PTL DEF Spec

-----------------------------------------------------------------------------
FallsBehind ==
    UpToDate /\ ~UpToDate' =>
       \/ foreign' # foreign
       \/ LoseCommand \/ TakeDispatch
       \/ OvertakenResult
       \/ \E r \in reads \ reads' : r.section = "data" /\ r.version # version

LEMMA BehindStep == Past /\ [Next]_vars => FallsBehind \/ UNCHANGED vars
<1> SUFFICES ASSUME Past, Next, UpToDate, ~UpToDate'
             PROVE  \/ foreign' # foreign
                    \/ LoseCommand \/ TakeDispatch
                    \/ OvertakenResult
                    \/ \E r \in reads \ reads' : r.section = "data" /\ r.version # version
  BY DEF FallsBehind
<1> USE SectionViewsAssumption
<1>0. ASSUME UNCHANGED <<version, known, command>>
      PROVE  FALSE
  BY <1>0 DEF UpToDate, Answering
<1>1. ASSUME NEW s \in Sections, OtherEdit(s)
      PROVE  foreign' # foreign
  <2>1. version \in Nat /\ foreign[s] <= version /\ foreign[s] \in Nat
    BY DEF Past
  <2>2. foreign'[s] = version + 1
    BY <1>1 DEF OtherEdit, Past
  <2> QED
    BY <2>1, <2>2
<1>2. ASSUME NEW r \in reads, ServeRead(r)
      PROVE  FALSE
  BY <1>0, <1>2 DEF ServeRead, server, page
<1>3. ASSUME NEW r \in reads, TakeAnswer(r)
      PROVE  \E q \in reads \ reads' : q.section = "data" /\ q.version # version
  <2>1. r.version # None /\ known' = r.version /\ UNCHANGED <<version, command>>
    BY <1>3 DEF TakeAnswer, Shows, server
  <2>2. ~Answering
    BY <2>1 DEF UpToDate, Answering
  <2>3. known = version /\ known # None /\ r.version # version
    BY <2>1, <2>2 DEF UpToDate, Past
  <2>4. r.section = "data"
    BY <1>3, <2>3 DEF TakeAnswer, Taken, Fitting
  <2>5. r \notin reads'
    <3>1. \A ss, why, prev : \A q \in Asks(ss, why, prev) : q.version = None
      BY DEF Asks
    <3> QED
      BY <1>3, <2>1, <3>1 DEF TakeAnswer
  <2> QED
    BY <2>3, <2>4, <2>5
<1>4. ASSUME NEW r \in reads, Fails(r)
      PROVE  FALSE
  <2>1. UNCHANGED <<version, command>>
    BY <1>4 DEF Fails, server
  <2>2. known = version
    BY <2>1 DEF UpToDate, Answering
  <2>3. known' = known
    BY <1>4, <2>2 DEF Fails, Past
  <2> QED
    BY <1>0, <2>1, <2>3
<1>5. CASE CommitCommand
  <2>1. command \in CommandsW /\ version' \in Nat /\ command # NoCommand
    BY <1>5 DEF CommitCommand, Pending, Past
  <2>2. Settle("done")
    BY <1>5 DEF CommitCommand
  <2>3. command'.status = "done" /\ command'.version = version' /\ command' \in CommandsW
    BY <2>1, <2>2, SettledOK
  <2>4. command' # NoCommand
    BY <2>3 DEF CommandsW, NoCommand
  <2> QED
    BY <2>3, <2>4 DEF UpToDate, Answering
<1>6. ASSUME ConflictCommand \/ RefuseCommand
      PROVE  FALSE
  BY <1>6 DEF ConflictCommand, RefuseCommand, Pending, Settle, page, UpToDate, Answering
<1>7. CASE OpenCycle
  BY <1>0, <1>7 DEF OpenCycle, server
<1>8. CASE Leave
  BY <1>0, <1>8 DEF Leave, server
<1>9. ASSUME NEW kind \in Kinds, SendCommand(kind)
      PROVE  FALSE
  BY <1>9 DEF SendCommand, server, page, UpToDate, Answering
<1>10. CASE TakeResult
  <2>1. known' = command.version /\ version' = version
    BY <1>10 DEF TakeResult, Shows, server
  <2>2. command.version # version
    BY <2>1 DEF UpToDate
  <2>3. command.version <= version /\ command.version \in Nat /\ version \in Nat
    BY <1>10 DEF TakeResult, Past, CommandsW
  <2> QED
    BY <1>10, <2>2, <2>3 DEF OvertakenResult
<1>11. CASE TakeRefusal
  BY <1>11 DEF TakeRefusal, server, page, UpToDate, Answering
<1> QED
  BY <1>1, <1>2, <1>3, <1>4, <1>5, <1>6, <1>7, <1>8, <1>9, <1>10, <1>11
  DEF Next, RefuseAnswer, LoseRead

(* A page that is alone falls behind the server only when an answer to a   *)
(* command is lost or overtaken, a dispatch makes it forget its version,   *)
(* or the PI data are taken unchecked.                                     *)
THEOREM FallsBehindInNamedCases == Spec => AloneStaysUpToDate
<1>1. Past /\ [Next]_vars => [FallsBehind]_vars
  BY BehindStep
<1>2. Past /\ [Next]_vars => Past'
  BY PastStep
<1>3. Spec => [][FallsBehind]_vars
  BY PastInit, <1>1, <1>2, PTL DEF Spec
<1> QED
  BY <1>3 DEF AloneStaysUpToDate, FallsBehind
-----------------------------------------------------------------------------
(* What is on the page belongs to the user and was read no later than now. *)
Owned ==
    /\ version <= MaxVersion
    /\ shown \in Roles
    /\ mode \in {"closed", "loading", "open"}
    /\ prePiReady \in BOOLEAN
    /\ UpTo(dataKnown, version)
    /\ dataKnown = None <=> seen["data"] = None
    /\ \A s \in Sections : UpTo(seen[s], version) /\ (seen[s] # None => s \in shown)
    /\ \A r \in reads : r.section \in shown
    /\ command # NoCommand => Tab(command.kind) \in shown /\ UpTo(command.expected, version)

(* A cycle is loaded section by section, one at a time: those before the   *)
(* one that is being read are there, and in the end all of them.           *)
LoadedInOrder ==
    /\ mode = "open" => \A s \in shown \cap Sections : seen[s] # None
    /\ \A r \in reads : r.why = "load" =>
           /\ mode = "loading"
           /\ \A s \in shown \cap Sections :
                  LoadOrder[s] < LoadOrder[r.section] => seen[s] # None
    /\ \A r, q \in reads : r.why = "load" /\ q.why = "load" => r = q

LEMMA SectionNumbers ==
    /\ "data" \in Sections
    /\ \A s \in Sections : LoadOrder[s] \in Nat
    /\ \A s, x \in Sections : LoadOrder[s] = LoadOrder[x] => s = x
<1>1. Sections = {"data", "prePi", "goals", "boards", "capacity", "program", "risks"}
  BY DEF Sections, LoadOrder
<1> QED
  BY <1>1 DEF LoadOrder

LEMMA AnsweredData ==
    \A kind \in Kinds : "data" \in Answered[kind] => Tab(kind) = "data"
BY DEF Kinds, Answered, Tab

LEMMA AsksShown ==
    \A ss, why, prev : \A q \in Asks(ss, why, prev) :
        q.section \in ss \cap shown /\ q.why = why
BY DEF Asks

(* The page shows what its user may see, at a version the server had.      *)
LEMMA ShowsOwned ==
    ASSUME Past, Owned, NEW ss, NEW v \in Nat, v <= version, Shows(ss, v), version' = version,
           "data" \in ss => "data" \in shown
    PROVE  /\ UpTo(dataKnown', version')
           /\ dataKnown' = None <=> seen'["data"] = None
           /\ \A s \in Sections : /\ UpTo(seen'[s], version')
                                  /\ seen'[s] # None => s \in shown
                                  /\ seen[s] # None => seen'[s] # None
                                  /\ s \in ss \cap shown => seen'[s] # None
<1> USE SectionViewsAssumption
<1>1. \A s \in Sections : seen'[s] = IF s \in ss \cap shown THEN v ELSE seen[s]
  BY DEF Shows
<1>2. v # None
  OBVIOUS
<1>3. \A s \in Sections : /\ UpTo(seen'[s], version')
                          /\ seen'[s] # None => s \in shown
                          /\ seen[s] # None => seen'[s] # None
                          /\ s \in ss \cap shown => seen'[s] # None
  BY <1>1, <1>2 DEF Owned, UpTo
<1>4. UpTo(dataKnown', version')
  BY DEF Shows, Owned, UpTo
<1>5. dataKnown' = None <=> seen'["data"] = None
  BY <1>1, <1>2, SectionNumbers DEF Shows, Owned
<1> QED
  BY <1>3, <1>4, <1>5

(* Steps that leave the page as it is.                                     *)
LEMMA SamePageOwned ==
    ASSUME Past, Owned, version <= version', version' <= MaxVersion, version' \in Nat,
           UNCHANGED <<shown, dataKnown, seen>>,
           mode' \in {"closed", "loading", "open"}, prePiReady' \in BOOLEAN,
           \A r \in reads' : r.section \in shown,
           command' # NoCommand => /\ Tab(command'.kind) \in shown
                                   /\ UpTo(command'.expected, version)
                                   /\ command'.expected \in Vers
    PROVE  Owned'
<1> USE SectionViewsAssumption
<1>1. \A a \in Vers : UpTo(a, version) => UpTo(a, version')
  BY DEF Past, Vers, UpTo
<1>2. UpTo(dataKnown', version') /\ \A s \in Sections : UpTo(seen'[s], version')
  BY <1>1 DEF Past, Owned
<1>3. command' # NoCommand => Tab(command'.kind) \in shown' /\ UpTo(command'.expected, version')
  BY <1>1
<1> QED
  BY <1>2, <1>3 DEF Owned

LEMMA OwnedStep == Past /\ Owned /\ [Next]_vars => Owned'
<1> SUFFICES ASSUME Past, Owned, [Next]_vars
             PROVE  Owned'
  OBVIOUS
<1> USE SectionViewsAssumption
<1>0. /\ version \in Nat /\ version <= MaxVersion /\ version <= version
      /\ mode \in {"closed", "loading", "open"} /\ prePiReady \in BOOLEAN
      /\ \A r \in reads : r.section \in shown
      /\ command # NoCommand => /\ Tab(command.kind) \in shown
                                /\ UpTo(command.expected, version)
                                /\ command.expected \in Vers
  BY DEF Past, Owned, CommandsW
<1>1. ASSUME NEW s \in Sections, OtherEdit(s)
      PROVE  Owned'
  <2>1. UNCHANGED <<shown, dataKnown, seen, mode, prePiReady, reads, command>>
    BY <1>1 DEF OtherEdit, page
  <2>2. version' = version + 1 /\ version < MaxVersion
    BY <1>1 DEF OtherEdit
  <2>3. version <= version' /\ version' <= MaxVersion /\ version' \in Nat
    BY <1>0, <2>2
  <2> QED
    BY <1>0, <2>1, <2>3, SamePageOwned
<1>2. ASSUME NEW r \in reads, ServeRead(r)
      PROVE  Owned'
  <2> DEFINE q == [r EXCEPT !.version = version]
  <2>1. UNCHANGED <<version, shown, dataKnown, seen, mode, prePiReady, command>>
        /\ reads' = (reads \ {r}) \cup {q}
    BY <1>2 DEF ServeRead, server, page
  <2>2. q.section = r.section
    BY DEF Past, ReadsW
  <2> HIDE DEF q
  <2>3. \A x \in reads' : x.section \in shown
    BY <1>0, <2>1, <2>2
  <2> QED
    BY <1>0, <2>1, <2>3, SamePageOwned
<1>3. ASSUME NEW r \in reads, TakeAnswer(r)
      PROVE  Owned'
  <2>1. r.version \in Nat /\ r.version <= version /\ r.section \in Sections /\ r.section \in shown
    BY <1>3 DEF TakeAnswer, Past, ReadsW, Vers, UpTo, Owned
  <2>2. Shows({r.section}, r.version) /\ UNCHANGED <<version, shown, command>>
    BY <1>3 DEF TakeAnswer, server
  <2>3. /\ UpTo(dataKnown', version')
        /\ dataKnown' = None <=> seen'["data"] = None
        /\ \A s \in Sections : UpTo(seen'[s], version') /\ (seen'[s] # None => s \in shown)
    BY <2>1, <2>2, ShowsOwned
  <2>4. \A q \in reads' : q.section \in shown
    BY <1>0, <1>3, AsksShown DEF TakeAnswer
  <2>5. mode' \in {"closed", "loading", "open"} /\ prePiReady' \in BOOLEAN
    <3>1. mode' \in {"closed", "loading", "open"}
      BY <1>0, <1>3 DEF TakeAnswer
    <3>2. prePiReady' \in BOOLEAN
      BY <1>3, Zenon DEF TakeAnswer
    <3> QED
      BY <3>1, <3>2
  <2> QED
    BY <1>0, <2>2, <2>3, <2>4, <2>5 DEF Owned
<1>4. ASSUME NEW r \in reads, Fails(r)
      PROVE  Owned'
  <2>1. /\ UNCHANGED <<version, shown, dataKnown, seen, prePiReady, command>>
        /\ reads' \subseteq reads /\ mode' \in {"closed", mode}
    BY <1>4 DEF Fails, server
  <2> QED
    BY <1>0, <2>1, SamePageOwned
<1>5. ASSUME NEW status \in {"done", "conflict", "refused"}, Settle(status), Pending,
             (version' = version + 1 /\ version < MaxVersion) \/ version' = version
      PROVE  Owned'
  <2>1. UNCHANGED <<shown, dataKnown, seen, mode, prePiReady, reads>>
    BY <1>5 DEF Settle, page
  <2>2. version <= version' /\ version' <= MaxVersion /\ version' \in Nat
    BY <1>0, <1>5
  <2>3. command \in CommandsW /\ command # NoCommand
    BY <1>5 DEF Pending, Past
  <2>4. command'.kind = command.kind /\ command'.expected = command.expected
    BY <1>5, <2>2, <2>3, SettledOK
  <2> QED
    BY <1>0, <2>1, <2>2, <2>3, <2>4, SamePageOwned
<1>6. CASE CommitCommand
  BY <1>5, <1>6 DEF CommitCommand
<1>7. CASE ConflictCommand \/ RefuseCommand
  BY <1>5, <1>7 DEF ConflictCommand, RefuseCommand
<1>8. CASE OpenCycle
  <2>1. UNCHANGED <<version, shown, dataKnown, seen, prePiReady, command>> /\ mode' = "loading"
    BY <1>8 DEF OpenCycle, server
  <2>2. \A q \in reads' : q.section \in shown
    BY <1>0, <1>8, AsksShown DEF OpenCycle
  <2> QED
    BY <1>0, <2>1, <2>2, SamePageOwned
<1>9. CASE Leave
  <2>1. UNCHANGED <<version, shown, dataKnown, seen, prePiReady, command, reads>> /\ mode' = "closed"
    BY <1>9 DEF Leave, server
  <2> QED
    BY <1>0, <2>1, SamePageOwned
<1>10. ASSUME NEW kind \in Kinds, SendCommand(kind)
       PROVE  Owned'
  <2>1. UNCHANGED <<version, shown, dataKnown, seen, prePiReady, mode, reads>>
    BY <1>10 DEF SendCommand, server, page
  <2>2. /\ command'.kind = kind /\ Tab(kind) \in shown
        /\ command'.expected = IF kind = "dispatch" THEN None ELSE ToSend(kind)
    BY <1>10 DEF SendCommand
  <2>3. command'.expected \in Vers /\ UpTo(command'.expected, version)
    BY <2>2 DEF ToSend, Past, Owned, UpTo, Vers
  <2> QED
    BY <1>0, <2>1, <2>2, <2>3, SamePageOwned
<1>11. CASE TakeResult
  <2>1. /\ command \in CommandsW /\ command # NoCommand
        /\ command.version \in Nat /\ command.version <= version /\ command.kind \in Kinds
    BY <1>11 DEF TakeResult, Past, CommandsW
  <2>2. /\ Shows(Answered[command.kind], command.version)
        /\ UNCHANGED <<version, shown, mode>> /\ command' = NoCommand
    BY <1>11 DEF TakeResult, server
  <2>3. "data" \in Answered[command.kind] => "data" \in shown
    BY <1>0, <2>1, AnsweredData
  <2>4. /\ UpTo(dataKnown', version')
        /\ dataKnown' = None <=> seen'["data"] = None
        /\ \A s \in Sections : UpTo(seen'[s], version') /\ (seen'[s] # None => s \in shown)
    BY <2>1, <2>2, <2>3, ShowsOwned
  <2>5. \A q \in reads' : q.section \in shown
    BY <1>0, <1>11, AsksShown DEF TakeResult
  <2>6. prePiReady' \in BOOLEAN
    BY <1>11, Zenon DEF TakeResult
  <2> QED
    BY <1>0, <2>2, <2>4, <2>5, <2>6 DEF Owned
<1>12. CASE TakeDispatch
  <2>1. UNCHANGED <<version, shown, dataKnown, seen, mode>> /\ command' = NoCommand /\ prePiReady' = FALSE
    BY <1>12 DEF TakeDispatch, server
  <2>2. \A q \in reads' : q.section \in shown
    BY <1>0, <1>12, AsksShown DEF TakeDispatch
  <2> QED
    BY <1>0, <2>1, <2>2, SamePageOwned
<1>13. CASE TakeRefusal
  <2>1. UNCHANGED <<version, shown, dataKnown, seen, mode, prePiReady>> /\ command' = NoCommand
    BY <1>13 DEF TakeRefusal, server, page
  <2>2. \A q \in reads' : q.section \in shown
    BY <1>0, <1>13, AsksShown DEF TakeRefusal
  <2> QED
    BY <1>0, <2>1, <2>2, SamePageOwned
<1>14. CASE LoseCommand
  <2>1. UNCHANGED <<version, shown, dataKnown, seen, mode, prePiReady, reads>> /\ command' = NoCommand
    BY <1>14 DEF LoseCommand, server, page
  <2> QED
    BY <1>0, <2>1, SamePageOwned
<1>15. CASE UNCHANGED vars
  BY <1>0, <1>15, SamePageOwned DEF vars
<1> QED
  BY <1>1, <1>2, <1>3, <1>4, <1>6, <1>7, <1>8, <1>9, <1>10, <1>11, <1>12, <1>13, <1>14, <1>15
  DEF Next, RefuseAnswer, LoseRead
(* Steps that begin and end no reading of a section of the load.           *)
LEMMA SameLoads ==
    ASSUME LoadedInOrder, mode' = mode, shown' = shown,
           \A s \in Sections : seen[s] # None => seen'[s] # None,
           \A r \in reads' : r.why = "load" => r \in reads
    PROVE  LoadedInOrder'
BY DEF LoadedInOrder

(* At most one section is next, and those before it are read already.      *)
LEMMA NextSection ==
    ASSUME NEW ss \in SUBSET Sections
    PROVE  /\ \A s, x \in FirstOf(ss) : s = x
           /\ \A s \in FirstOf(ss), x \in ss : ~(LoadOrder[x] < LoadOrder[s])
           /\ FirstOf(ss) \subseteq ss
<1>1. \A s, x \in FirstOf(ss) : LoadOrder[s] = LoadOrder[x]
  BY SectionNumbers DEF FirstOf
<1> QED
  BY <1>1, SectionNumbers DEF FirstOf

LEMMA OneAsked ==
    ASSUME NEW ss, \A s, x \in ss : s = x, NEW why, NEW prev
    PROVE  \A r, q \in Asks(ss, why, prev) : r = q
BY DEF Asks

LEMMA LoadAnswered ==
    ASSUME Past, Owned, LoadedInOrder, NEW r \in reads, TakeAnswer(r), r.why = "load"
    PROVE  LoadedInOrder'
<1> USE SectionViewsAssumption
<1> DEFINE later == Later(r.section)
           asked == Asks(FirstOf(later), "load", None)
<1>1. r.version \in Nat /\ r.version <= version /\ r.section \in Sections /\ r.section \in shown
  BY DEF TakeAnswer, Past, ReadsW, Vers, UpTo, Owned
<1>2. /\ Shows({r.section}, r.version) /\ shown' = shown /\ version' = version
      /\ reads' = (reads \ {r}) \cup asked
      /\ mode' = IF later = {} THEN "open" ELSE mode
  BY DEF TakeAnswer, server
<1>3. \A s \in Sections : /\ seen[s] # None => seen'[s] # None
                          /\ s = r.section => seen'[s] # None
  <2>1. /\ "data" \in {r.section} => "data" \in shown
        /\ r.section \in {r.section} \cap shown
    BY <1>1
  <2> QED
    BY <1>1, <1>2, <2>1, ShowsOwned
<1>4. \A s \in shown \cap Sections : LoadOrder[s] <= LoadOrder[r.section] => seen'[s] # None
  BY <1>1, <1>3, SectionNumbers DEF LoadedInOrder
<1>5. \A q \in reads \ {r} : q.why # "load"
  BY DEF LoadedInOrder
<1>6. later \in SUBSET Sections
      /\ \A s \in shown \cap Sections : s \notin later => LoadOrder[s] <= LoadOrder[r.section]
  BY <1>1, SectionNumbers DEF Later
<1>7. \A q \in asked : /\ q.section \in FirstOf(later)
                       /\ \A s \in shown \cap Sections :
                              LoadOrder[s] < LoadOrder[q.section] => seen'[s] # None
  BY <1>4, <1>6, NextSection, AsksShown
<1>8. \A q, p \in asked : q = p
  BY <1>6, NextSection, OneAsked
<1>9. mode = "loading"
  BY DEF LoadedInOrder
<1>10. later = {} => asked = {}
  BY DEF Asks, FirstOf
<1>11. mode' = "open" => \A s \in shown' \cap Sections : seen'[s] # None
  BY <1>2, <1>4, <1>6, <1>9
<1> HIDE DEF asked, later
<1> QED
  BY <1>2, <1>5, <1>7, <1>8, <1>9, <1>10, <1>11 DEF LoadedInOrder

LEMMA LoadedStep == Past /\ Owned /\ LoadedInOrder /\ [Next]_vars => LoadedInOrder'
<1> SUFFICES ASSUME Past, Owned, LoadedInOrder, [Next]_vars
             PROVE  LoadedInOrder'
  OBVIOUS
<1> USE SectionViewsAssumption
<1>1. ASSUME NEW s \in Sections, OtherEdit(s)
      PROVE  LoadedInOrder'
  BY <1>1, SameLoads DEF OtherEdit, page
<1>2. ASSUME NEW r \in reads, ServeRead(r)
      PROVE  LoadedInOrder'
  <2> DEFINE q == [r EXCEPT !.version = version]
  <2>1. UNCHANGED <<shown, seen, mode>> /\ reads' = (reads \ {r}) \cup {q}
    BY <1>2 DEF ServeRead, server, page
  <2>2. q.section = r.section /\ q.why = r.why
    BY DEF Past, ReadsW
  <2> HIDE DEF q
  <2>3. \A x \in reads' : x.why = "load" =>
            /\ mode = "loading"
            /\ \A s \in shown \cap Sections :
                   LoadOrder[s] < LoadOrder[x.section] => seen[s] # None
    BY <2>1, <2>2 DEF LoadedInOrder
  <2>4. \A x, y \in reads' : x.why = "load" /\ y.why = "load" => x = y
    BY <2>1, <2>2 DEF LoadedInOrder
  <2>5. mode' = "open" => \A s \in shown' \cap Sections : seen'[s] # None
    BY <2>1 DEF LoadedInOrder
  <2> QED
    BY <2>1, <2>3, <2>4, <2>5 DEF LoadedInOrder
<1>3. ASSUME NEW r \in reads, TakeAnswer(r)
      PROVE  LoadedInOrder'
  <2>1. CASE r.why = "load"
    BY <1>3, <2>1, LoadAnswered
  <2>2. CASE r.why # "load"
    <3>1. /\ Shows({r.section}, r.version)
          /\ reads' \subseteq reads /\ mode' = mode /\ shown' = shown
          /\ r.version # None
      BY <1>3, <2>2 DEF TakeAnswer
    <3>2. \A s \in Sections : seen[s] # None => seen'[s] # None
      BY <3>1 DEF Shows
    <3> QED
      BY <3>1, <3>2, SameLoads
  <2> QED
    BY <2>1, <2>2
<1>4. ASSUME NEW r \in reads, Fails(r)
      PROVE  LoadedInOrder'
  <2>1. UNCHANGED <<shown, seen>> /\ reads' = reads \ {r}
        /\ mode' = IF r.why = "load" THEN "closed" ELSE mode
    BY <1>4 DEF Fails, server
  <2>2. CASE r.why = "load"
    <3>1. \A q \in reads' : q.why # "load"
      BY <2>1, <2>2 DEF LoadedInOrder
    <3> QED
      BY <2>1, <2>2, <3>1 DEF LoadedInOrder
  <2>3. CASE r.why # "load"
    BY <2>1, <2>3, SameLoads
  <2> QED
    BY <2>2, <2>3
<1>5. CASE CommitCommand \/ ConflictCommand \/ RefuseCommand
  BY <1>5, SameLoads DEF CommitCommand, ConflictCommand, RefuseCommand, Settle, page
<1>6. CASE OpenCycle
  <2> DEFINE asked == Asks(FirstOf(Sections \cap shown), "load", None)
  <2>1. /\ UNCHANGED <<shown, seen>> /\ mode = "closed" /\ mode' = "loading"
        /\ reads' = reads \cup asked
    BY <1>6 DEF OpenCycle, server
  <2>2. \A r \in reads : r.why # "load"
    BY <2>1 DEF LoadedInOrder
  <2>3. Sections \cap shown \in SUBSET Sections
    OBVIOUS
  <2>4. \A q \in asked : \A s \in shown \cap Sections : ~(LoadOrder[s] < LoadOrder[q.section])
    BY <2>3, NextSection, AsksShown
  <2>5. \A q, p \in asked : q = p
    BY <2>3, NextSection, OneAsked
  <2> HIDE DEF asked
  <2> QED
    BY <2>1, <2>2, <2>4, <2>5 DEF LoadedInOrder
<1>7. CASE Leave
  <2>1. UNCHANGED <<shown, seen, reads>> /\ mode = "open" /\ mode' = "closed"
    BY <1>7 DEF Leave, server
  <2> QED
    BY <2>1 DEF LoadedInOrder
<1>8. ASSUME NEW kind \in Kinds, SendCommand(kind)
      PROVE  LoadedInOrder'
  BY <1>8, SameLoads DEF SendCommand, server, page
<1>9. CASE TakeResult
  <2>1. /\ Shows(Answered[command.kind], command.version) /\ UNCHANGED <<shown, mode>>
        /\ reads' = reads \cup Asks(Reread[command.kind], "refresh", None)
        /\ command.version \in Nat
    BY <1>9 DEF TakeResult, server, Past, CommandsW
  <2>2. \A s \in Sections : seen[s] # None => seen'[s] # None
    BY <2>1 DEF Shows
  <2>3. \A r \in reads' : r.why = "load" => r \in reads
    BY <2>1, AsksShown
  <2> QED
    BY <2>1, <2>2, <2>3, SameLoads
<1>10. CASE TakeDispatch
  <2>1. UNCHANGED <<shown, mode, seen>> /\ reads' = reads \cup Asks({"prePi"}, "relearn", known)
    BY <1>10 DEF TakeDispatch, server
  <2>2. \A r \in reads' : r.why = "load" => r \in reads
    BY <2>1, AsksShown
  <2> QED
    BY <2>1, <2>2, SameLoads
<1>11. CASE TakeRefusal
  <2>1. UNCHANGED <<shown, mode, seen>>
    BY <1>11 DEF TakeRefusal, server, page
  <2>2. \A r \in reads' : r.why = "load" => r \in reads
    BY <1>11, AsksShown DEF TakeRefusal
  <2> QED
    BY <2>1, <2>2, SameLoads
<1>12. CASE LoseCommand \/ UNCHANGED vars
  BY <1>12, SameLoads DEF LoseCommand, page, vars
<1> QED
  BY <1>1, <1>2, <1>3, <1>4, <1>5, <1>6, <1>7, <1>8, <1>9, <1>10, <1>11, <1>12
  DEF Next, RefuseAnswer, LoseRead

LEMMA OwnedInit == Init => Owned /\ LoadedInOrder
<1> SUFFICES ASSUME Init
             PROVE  Owned /\ LoadedInOrder
  OBVIOUS
<1> USE SectionViewsAssumption, SectionNumbers
<1>1. /\ version = 0 /\ shown \in Roles /\ mode = "closed" /\ dataKnown = None
      /\ seen = [s \in Sections |-> None] /\ command = NoCommand /\ reads = {}
  BY DEF Init
<1>2. prePiReady \in BOOLEAN
  BY Zenon DEF Init
<1>3. Owned
  BY <1>1, <1>2 DEF Owned, UpTo
<1>4. LoadedInOrder
  BY <1>1 DEF LoadedInOrder
<1> QED
  BY <1>3, <1>4

(* An open page shows all its user may see, the PI data carry a version    *)
(* exactly when they are there, and no version is one the server never had. *)
THEOREM PagesWellFormed == Spec => []TypeOK
<1>1. Past /\ Owned /\ LoadedInOrder => TypeOK
  <2> SUFFICES ASSUME Past, Owned, LoadedInOrder
               PROVE  TypeOK
    OBVIOUS
  <2> USE SectionViewsAssumption
  <2>1. version \in Nat /\ version <= MaxVersion /\ MaxVersion \in Nat
    BY DEF Past, Owned
  <2>2. \A a \in Vers : UpTo(a, version) =>
            a \in (0..version) \cup {None} /\ a \in Versions \cup {None}
    BY <2>1 DEF Vers, UpTo, Versions
  <2>3. version \in Versions /\ foreign \in [Sections -> 0..version]
    BY <2>1 DEF Past, Versions
  <2>4. /\ known \in (0..version) \cup {None} /\ dataKnown \in (0..version) \cup {None}
        /\ seen \in [Sections -> (0..version) \cup {None}]
    BY <2>2 DEF Past, Owned
  <2>5. command = NoCommand \/ command \in Command
    <3> SUFFICES ASSUME command # NoCommand
                 PROVE  command \in Command
      OBVIOUS
    <3>1. command \in CommandsW /\ command.version <= version
      BY DEF Past
    <3>2. command.version \in Versions
      BY <2>1, <3>1 DEF CommandsW, Versions
    <3>3. command.expected \in Versions \cup {None}
      BY <2>2, <3>1 DEF Owned, CommandsW
    <3> QED
      BY <3>1, <3>2, <3>3 DEF CommandsW, Command
  <2>6. ASSUME NEW r \in reads
        PROVE  r \in Read
    <3>1. r \in ReadsW /\ UpTo(r.version, version) /\ UpTo(r.prev, version)
      BY DEF Past
    <3>2. r.version \in Versions \cup {None} /\ r.prev \in Versions \cup {None}
      BY <2>2, <3>1 DEF ReadsW
    <3> QED
      BY <3>1, <3>2 DEF ReadsW, Read
  <2>7. shown \in Roles /\ mode \in {"closed", "loading", "open"} /\ prePiReady \in BOOLEAN
    BY DEF Owned
  <2>8. /\ \A s \in Sections : seen[s] # None => s \in shown
        /\ dataKnown = None <=> seen["data"] = None
        /\ mode = "open" => \A s \in shown \cap Sections : seen[s] # None
        /\ unchecked \in BOOLEAN
    BY DEF Past, Owned, LoadedInOrder
  <2> QED
    BY <2>3, <2>4, <2>5, <2>6, <2>7, <2>8 DEF TypeOK
<1> QED
  BY PastInit, OwnedInit, PastStep, OwnedStep, LoadedStep, <1>1, PTL DEF Spec
=============================================================================
