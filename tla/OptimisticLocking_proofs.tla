---------------------- MODULE OptimisticLocking_proofs ----------------------
(***************************************************************************)
(* Proofs about OptimisticLocking for any set of clients and cycles.       *)
(***************************************************************************)
EXTENDS OptimisticLocking, TLAPS

(* Each variable keeps its type under every action. *)
LEMMA TypeStep == TypeOK /\ [Next]_vars => TypeOK'
<1> SUFFICES ASSUME TypeOK, [Next]_vars
             PROVE  TypeOK'
  OBVIOUS
<1> USE OptimisticLockingAssumption DEF TypeOK, Locations, GoTo, rows, locks, pages, request
<1>1. ASSUME NEW c \in Clients, NEW a \in Aggregates, NEW checked \in BOOLEAN,
             NEW rest \in SUBSET Cycles, Send(c, a, checked, rest)
      PROVE  TypeOK'
  BY <1>1 DEF Send, Command
<1>2. ASSUME NEW c \in Clients, MissMarker(c)
      PROVE  TypeOK'
  BY <1>2 DEF MissMarker
<1>3. ASSUME NEW c \in Clients, LockFirst(c)
      PROVE  TypeOK'
  <2>1. cmd[c].target \in Aggregates /\ version[cmd[c].target] + 1 \in Nat
    BY DEF Command
  <2> QED
    BY <1>3, <2>1 DEF LockFirst, TakeRow
<1>4. ASSUME NEW c \in Clients, Conflict(c)
      PROVE  TypeOK'
  BY <1>4 DEF Conflict, End, Command, NoCommand, NoAnswer, Aggregates
<1>5. ASSUME NEW c \in Clients, InsertLost(c)
      PROVE  TypeOK'
  BY <1>5 DEF InsertLost, End, Command, NoCommand, NoAnswer, Aggregates
<1>6. ASSUME NEW c \in Clients, NEW a \in Cycles, LockNext(c, a)
      PROVE  TypeOK'
  <2>1. a \in Aggregates /\ version[a] + 1 \in Nat
    BY DEF Aggregates
  <2> QED
    BY <1>6, <2>1 DEF LockNext, TakeRow
<1>7. ASSUME NEW c \in Clients, Commit(c)
      PROVE  TypeOK'
  BY <1>7 DEF Commit, ReleaseRows, Command
<1>8. ASSUME NEW c \in Clients, Abort(c)
      PROVE  TypeOK'
  BY <1>8 DEF Abort, ReleaseRows, End, Command, NoCommand, NoAnswer, Aggregates
<1>9. ASSUME NEW c \in Clients, NEW a \in Aggregates, ReadVersion(c, a)
      PROVE  TypeOK'
  BY <1>9 DEF ReadVersion, Command
<1>10. ASSUME NEW c \in Clients, ReadContents(c)
       PROVE  TypeOK'
  BY <1>10 DEF ReadContents, PageTakes, End, Command, NoCommand, NoAnswer, Aggregates
<1>11. ASSUME NEW c \in Clients, AnswerVersion(c)
       PROVE  TypeOK'
  BY <1>11 DEF AnswerVersion, AnswerVersions, Command
<1>12. ASSUME NEW c \in Clients, AnswerContents(c)
       PROVE  TypeOK'
  <2>1. PICK n \in {answer[c].edits, edits[cmd[c].target]} : PageTakes(c, answer[c].version, n)
    BY <1>12 DEF AnswerContents
  <2>2. n \in Nat /\ answer[c].version \in Nat /\ cmd[c].target \in Aggregates
    BY DEF Command
  <2>3. known' \in [Clients -> [Aggregates -> Nat]] /\ seen' \in [Clients -> [Aggregates -> Nat]]
    BY <2>1, <2>2 DEF PageTakes
  <2> QED
    BY <1>12, <2>3 DEF AnswerContents, End, Command, NoCommand, NoAnswer, Aggregates
<1>13. ASSUME NEW c \in Clients, LoseAnswer(c)
       PROVE  TypeOK'
  BY <1>13 DEF LoseAnswer, End, Command, NoCommand, NoAnswer, Aggregates
<1>14. CASE UNCHANGED vars
  BY <1>14 DEF vars
<1> QED
  BY <1>1, <1>2, <1>3, <1>4, <1>5, <1>6, <1>7, <1>8, <1>9, <1>10, <1>11,
     <1>12, <1>13, <1>14 DEF Next

(* Type correctness of the rows, the locks, the requests and the pages. *)
THEOREM TypeCorrect == Spec => []TypeOK
<1>1. Init => TypeOK
  BY OptimisticLockingAssumption DEF Init, TypeOK, Aggregates, Backlog, Locations, Command, NoCommand, NoAnswer
<1> QED
  BY <1>1, TypeStep, PTL DEF Spec

-----------------------------------------------------------------------------
(***************************************************************************)
(* The inductive invariant.  Locking: a locked row belongs to a running    *)
(* transaction that will write its next version, and what was compared     *)
(* under the lock stays true.  Reaching: only backlog commands lock        *)
(* further cycles.  Answers: what an answer may carry.  Pages: what a page *)
(* holds is not from the future, and a page without re-read answers holds  *)
(* contents at least as new as its version.                                *)
(***************************************************************************)
Careful == Clients \ RereadPages

Locking ==
    /\ \A a \in Aggregates : holder[a] # Nobody =>
           pc[holder[a]] = "locked" /\ raised[a] = version[a] + 1
    /\ \A c \in Clients : pc[c] = "locked" =>
           /\ holder[cmd[c].target] = c
           /\ cmd[c].checked => known[c][cmd[c].target] = version[cmd[c].target]

Reaching ==
    \A c \in Clients :
        /\ pc[c] = "idle" => todo[c] = {}
        /\ todo[c] # {} => cmd[c].target = Backlog

Answers ==
    \A c \in Clients :
        /\ pc[c] \in {"committed", "answering", "reading"} =>
               answer[c].version <= version[cmd[c].target]
        /\ pc[c] \in {"committed", "answering"} =>
               /\ seen[c][cmd[c].target] <= answer[c].edits
               /\ answer[c].edits <= edits[cmd[c].target]
               /\ c \in Careful => answer[c].version = answer[c].edits

Pages ==
    \A c \in Clients, a \in Aggregates :
        /\ known[c][a] <= version[a]
        /\ seen[c][a] <= edits[a]
        /\ c \in Careful => known[c][a] <= seen[c][a]

IInv ==
    /\ TypeOK
    /\ VersionCountsEdits
    /\ LockOrder
    /\ Locking
    /\ Reaching
    /\ Answers
    /\ Pages

LEMMA InvariantInit == Init => IInv
<1> SUFFICES ASSUME Init
             PROVE  IInv
  OBVIOUS
<1>1. TypeOK
  BY OptimisticLockingAssumption DEF Init, TypeOK, Aggregates, Backlog, Locations, Command, NoCommand, NoAnswer
<1>2. VersionCountsEdits /\ LockOrder /\ Locking /\ Reaching /\ Answers /\ Pages
  BY DEF Init, VersionCountsEdits, LockOrder, Holds, Locking, Reaching, Answers, Pages,
         Careful, NoCommand, NoAnswer, Aggregates, Backlog
<1> QED
  BY <1>1, <1>2 DEF IInv

(***************************************************************************)
(* The rows.  Only a commit touches them, and it raises the version of a   *)
(* row and its edits together.                                             *)
(***************************************************************************)
LEMMA CommitRaises ==
    ASSUME TypeOK, Locking, NEW c \in Clients, Commit(c)
    PROVE  \A a \in Aggregates :
               /\ version'[a] = IF holder[a] = c THEN version[a] + 1 ELSE version[a]
               /\ edits'[a] = IF holder[a] = c THEN edits[a] + 1 ELSE edits[a]
<1>1. \A a \in Aggregates : holder[a] = c => raised[a] = version[a] + 1
  BY OptimisticLockingAssumption DEF Locking
<1> QED
  BY <1>1 DEF TypeOK, Commit, Raises, Holds

LEMMA RowsStep ==
    ASSUME [Next]_vars, ~ \E c \in Clients : Commit(c)
    PROVE  UNCHANGED <<version, edits>>
  BY DEF Next, vars, rows, Send, MissMarker, LockFirst, Conflict, InsertLost, LockNext,
     Abort, ReadVersion, ReadContents, AnswerVersion, AnswerContents, LoseAnswer

LEMMA RowsGrow ==
    ASSUME TypeOK, Locking, [Next]_vars
    PROVE  \A a \in Aggregates : version[a] <= version'[a] /\ edits[a] <= edits'[a]
<1>1. \A a \in Aggregates : version[a] \in Nat /\ edits[a] \in Nat
  BY DEF TypeOK
<1>2. CASE \E c \in Clients : Commit(c)
  BY <1>1, <1>2, CommitRaises
<1>3. CASE ~ \E c \in Clients : Commit(c)
  BY <1>1, <1>3, RowsStep
<1> QED
  BY <1>2, <1>3

LEMMA CountStep ==
    ASSUME TypeOK, Locking, VersionCountsEdits, [Next]_vars
    PROVE  VersionCountsEdits'
<1>1. CASE \E c \in Clients : Commit(c)
  BY <1>1, CommitRaises DEF VersionCountsEdits
<1>2. CASE ~ \E c \in Clients : Commit(c)
  BY <1>2, RowsStep DEF VersionCountsEdits
<1> QED
  BY <1>1, <1>2

(***************************************************************************)
(* The locks.                                                              *)
(***************************************************************************)
LEMMA LockingStep ==
    ASSUME TypeOK, TypeOK', Locking, [Next]_vars
    PROVE  Locking'
<1> USE OptimisticLockingAssumption DEF TypeOK, Command, GoTo, rows, locks, pages, request
<1>1. ASSUME NEW c \in Clients, NEW a \in Aggregates, NEW checked \in BOOLEAN,
             NEW rest \in SUBSET Cycles, Send(c, a, checked, rest)
      PROVE  Locking'
  BY <1>1 DEF Send, Locking
<1>2. ASSUME NEW c \in Clients, MissMarker(c)
      PROVE  Locking'
  BY <1>2 DEF MissMarker, Locking
<1>3. ASSUME NEW c \in Clients, LockFirst(c)
      PROVE  Locking'
  BY <1>3 DEF LockFirst, TakeRow, AtFirstRow, Stale, Locking
<1>4. ASSUME NEW c \in Clients, pc[c] # "locked", End(c),
             UNCHANGED <<version, holder, raised>>,
             \A d \in Clients \ {c} : known'[d] = known[d]
      PROVE  Locking'
  BY <1>4 DEF End, Locking
<1>12. ASSUME NEW c \in Clients,
              Conflict(c) \/ InsertLost(c) \/ ReadContents(c) \/ AnswerContents(c) \/ LoseAnswer(c)
       PROVE  /\ pc[c] # "locked" /\ End(c)
              /\ UNCHANGED <<version, holder, raised>>
              /\ \A d \in Clients \ {c} : known'[d] = known[d]
  BY <1>12 DEF Conflict, InsertLost, AtFirstRow, ReadContents, AnswerContents, LoseAnswer, PageTakes
<1>5. ASSUME NEW c \in Clients, NEW a \in Cycles, LockNext(c, a)
      PROVE  Locking'
  BY <1>5 DEF LockNext, TakeRow, Locking, Aggregates
<1>6. ASSUME NEW c \in Clients, Commit(c)
      PROVE  Locking'
  <2>1. \A a \in Aggregates : holder'[a] # Nobody =>
            holder[a] # c /\ holder'[a] = holder[a] /\ raised'[a] = raised[a]
    BY <1>6 DEF Commit, ReleaseRows
  <2>2. \A a \in Aggregates : holder[a] # c =>
            version'[a] = version[a] /\ holder'[a] = holder[a]
    BY <1>6, CommitRaises DEF Commit, ReleaseRows
  <2>3. \A d \in Clients : pc'[d] = "locked" => d # c /\ pc[d] = "locked"
    BY <1>6 DEF Commit
  <2>4. UNCHANGED <<cmd, known>> /\ \A d \in Clients \ {c} : pc'[d] = pc[d]
    BY <1>6 DEF Commit
  <2> QED
    BY <2>1, <2>2, <2>3, <2>4 DEF Locking
<1>7. ASSUME NEW c \in Clients, Abort(c)
      PROVE  Locking'
  BY <1>7 DEF Abort, ReleaseRows, End, Locking
<1>8. ASSUME NEW c \in Clients, NEW a \in Aggregates, ReadVersion(c, a)
      PROVE  Locking'
  BY <1>8 DEF ReadVersion, Locking
<1>9. ASSUME NEW c \in Clients, AnswerVersion(c)
      PROVE  Locking'
  BY <1>9 DEF AnswerVersion, Locking
<1>10. CASE UNCHANGED vars
  BY <1>10 DEF vars, Locking
<1> QED
  BY <1>1, <1>2, <1>3, <1>4, <1>5, <1>6, <1>7, <1>8, <1>9, <1>10, <1>12 DEF Next

LEMMA ReachingStep ==
    ASSUME TypeOK, Reaching, [Next]_vars
    PROVE  Reaching'
  BY DEF TypeOK, Command, Reaching, Next, vars, rows, locks, pages, request, GoTo, End,
     Send, MissMarker, LockFirst, Conflict, InsertLost, LockNext, Commit, Abort,
     ReadVersion, ReadContents, AnswerVersion, AnswerContents, LoseAnswer, NoCommand

LEMMA LockOrderStep ==
    ASSUME TypeOK, Locking, Reaching, LockOrder, [Next]_vars
    PROVE  LockOrder'
<1> USE OptimisticLockingAssumption DEF TypeOK, GoTo, rows, locks, pages, request
<1>1. ASSUME NEW c \in Clients, NEW a \in Aggregates, NEW checked \in BOOLEAN,
             NEW rest \in SUBSET Cycles, Send(c, a, checked, rest)
      PROVE  LockOrder'
  BY <1>1 DEF Send, LockOrder, Holds, Locking
<1>2. ASSUME NEW c \in Clients, LockFirst(c)
      PROVE  LockOrder'
  <2>1. \A a \in Aggregates : holder'[a] = c => a = cmd[c].target
    BY <1>2 DEF LockFirst, TakeRow, AtFirstRow, Locking
  <2>2. \A b \in todo[c] : cmd[c].target < b
    <3>1. \A b \in todo[c] : b \in Nat \ {0}
      OBVIOUS
    <3>2. todo[c] # {} => cmd[c].target = 0
      BY DEF Reaching, Backlog
    <3> QED
      BY <3>1, <3>2
  <2>3. \A d \in Clients \ {c}, a \in Aggregates : holder'[a] = d => holder[a] = d
    BY <1>2 DEF LockFirst, TakeRow
  <2>4. todo' = todo
    BY <1>2 DEF LockFirst
  <2> QED
    BY <2>1, <2>2, <2>3, <2>4 DEF LockOrder, Holds
<1>3. ASSUME NEW c \in Clients, NEW a \in Cycles, LockNext(c, a)
      PROVE  LockOrder'
  <2>1. \A b \in todo'[c] : a < b /\ b \in todo[c]
    <3>1. \A b \in todo[c] : a <= b /\ b \in Nat /\ a \in Nat
      BY <1>3 DEF LockNext, IsNextRow
    <3>2. todo'[c] = todo[c] \ {a}
      BY <1>3 DEF LockNext
    <3>3. \A b \in todo[c] : b # a => a < b
      BY <3>1
    <3> QED
      BY <3>2, <3>3
  <2>2. \A b \in Aggregates : holder'[b] = c => b = a \/ holder[b] = c
    BY <1>3 DEF LockNext, TakeRow
  <2>3. \A d \in Clients \ {c} : /\ todo'[d] = todo[d]
                                 /\ \A b \in Aggregates : holder'[b] = d => holder[b] = d
    BY <1>3 DEF LockNext, TakeRow
  <2>4. ASSUME NEW d \in Clients, NEW x \in Aggregates, holder'[x] = d, NEW y \in todo'[d]
        PROVE  x < y
    <3>1. CASE d = c
      BY <2>1, <2>2, <2>4, <3>1 DEF LockOrder, Holds
    <3>2. CASE d # c
      BY <2>3, <2>4, <3>2 DEF LockOrder, Holds
    <3> QED
      BY <3>1, <3>2
  <2> QED
    BY <2>4 DEF LockOrder, Holds
<1>4. ASSUME NEW c \in Clients, Commit(c) \/ Abort(c)
      PROVE  LockOrder'
  <2>1. \A d \in Clients, a \in Aggregates : holder'[a] = d => holder[a] = d
    BY <1>4 DEF Commit, Abort, ReleaseRows
  <2>2. \A d \in Clients : todo'[d] \subseteq todo[d]
    BY <1>4 DEF Commit, Abort, End
  <2> QED
    BY <2>1, <2>2 DEF LockOrder, Holds
<1>5. ASSUME NEW c \in Clients,
             Conflict(c) \/ InsertLost(c) \/ ReadContents(c) \/ AnswerContents(c) \/ LoseAnswer(c)
      PROVE  LockOrder'
  BY <1>5 DEF Conflict, InsertLost, ReadContents, AnswerContents, LoseAnswer, End, LockOrder, Holds
<1>6. ASSUME UNCHANGED <<holder, todo>>
      PROVE  LockOrder'
  BY <1>6 DEF LockOrder, Holds
<1>7. ASSUME NEW c \in Clients,
             MissMarker(c) \/ AnswerVersion(c) \/ \E a \in Aggregates : ReadVersion(c, a)
      PROVE  UNCHANGED <<holder, todo>>
  BY <1>7 DEF MissMarker, AnswerVersion, ReadVersion
<1> QED
  BY <1>1, <1>2, <1>3, <1>4, <1>5, <1>6, <1>7 DEF Next, vars

(***************************************************************************)
(* The answers and the pages.                                              *)
(***************************************************************************)
LEMMA AnswersStep ==
    ASSUME TypeOK, Locking, VersionCountsEdits, Answers, Pages, [Next]_vars
    PROVE  Answers'
<1> USE DEF TypeOK, Command, GoTo, rows, locks, pages, request
<1>1. \A a \in Aggregates, k \in Nat :
          (k <= version[a] => k <= version'[a]) /\ (k <= edits[a] => k <= edits'[a])
  <2>1. version' \in [Aggregates -> Nat] /\ edits' \in [Aggregates -> Nat]
    BY TypeStep
  <2> QED
    BY <2>1, RowsGrow
<1>2. ASSUME NEW c \in Clients, End(c),
             \A d \in Clients \ {c} : seen'[d] = seen[d]
      PROVE  Answers'
  <2>1. \A d \in Clients \ {c} : /\ answer'[d] = answer[d] /\ pc'[d] = pc[d]
                                 /\ cmd'[d] = cmd[d] /\ seen'[d] = seen[d]
    BY <1>2 DEF End
  <2>2. pc'[c] = "idle"
    BY <1>2 DEF End
  <2> QED
    BY <1>1, <2>1, <2>2 DEF Answers
<1>3. ASSUME NEW c \in Clients, pc'[c] \in {"queued", "inserting", "locked"},
             \A d \in Clients \ {c} : cmd'[d] = cmd[d] /\ pc'[d] = pc[d], UNCHANGED <<answer, seen>>
      PROVE  Answers'
  BY <1>1, <1>3 DEF Answers
<1>4. ASSUME NEW c \in Clients, NEW a \in Aggregates, NEW checked \in BOOLEAN,
             NEW rest \in SUBSET Cycles, Send(c, a, checked, rest)
      PROVE  Answers'
  BY <1>3, <1>4 DEF Send
<1>5. ASSUME NEW c \in Clients, MissMarker(c)
      PROVE  Answers'
  BY <1>3, <1>5 DEF MissMarker
<1>6. ASSUME NEW c \in Clients, LockFirst(c)
      PROVE  Answers'
  BY <1>3, <1>6 DEF LockFirst
<1>7. ASSUME NEW c \in Clients, NEW a \in Cycles, LockNext(c, a)
      PROVE  Answers'
  BY <1>3, <1>7 DEF LockNext
<1>8. ASSUME NEW c \in Clients, Commit(c)
      PROVE  Answers'
  <2>1. cmd[c].target \in Aggregates /\ holder[cmd[c].target] = c
    BY <1>8 DEF Commit, Locking
  <2>2. /\ answer'[c].version = version'[cmd[c].target]
        /\ answer'[c].edits = edits'[cmd[c].target]
        /\ seen'[c] = seen[c] /\ seen[c][cmd[c].target] <= edits[cmd[c].target]
        /\ cmd' = cmd
    BY <1>8, <2>1, CommitRaises DEF Commit, Raises, Holds, Pages
  <2>3. version'[cmd[c].target] = edits'[cmd[c].target]
    BY <2>1, CountStep DEF VersionCountsEdits
  <2>4. \A d \in Clients \ {c} : /\ answer'[d] = answer[d] /\ pc'[d] = pc[d]
                                 /\ cmd'[d] = cmd[d] /\ seen'[d] = seen[d]
    BY <1>8 DEF Commit
  <2>5. version' \in [Aggregates -> Nat] /\ edits' \in [Aggregates -> Nat]
    BY TypeStep
  <2> QED
    BY <1>1, <2>1, <2>2, <2>3, <2>4, <2>5 DEF Answers
<1>9. ASSUME NEW c \in Clients,
             Conflict(c) \/ InsertLost(c) \/ Abort(c) \/ LoseAnswer(c)
      PROVE  Answers'
  BY <1>2, <1>9 DEF Conflict, InsertLost, Abort, LoseAnswer
<1>10. ASSUME NEW c \in Clients, NEW a \in Aggregates, ReadVersion(c, a)
       PROVE  Answers'
  BY <1>10 DEF ReadVersion, Answers
<1>11. ASSUME NEW c \in Clients, ReadContents(c)
       PROVE  Answers'
  BY <1>2, <1>11 DEF ReadContents, PageTakes
<1>12. ASSUME NEW c \in Clients, AnswerVersion(c)
       PROVE  Answers'
  BY <1>12 DEF AnswerVersion, AnswerVersions, Answers, Careful
<1>13. ASSUME NEW c \in Clients, AnswerContents(c)
       PROVE  Answers'
  BY <1>2, <1>13 DEF AnswerContents, PageTakes
<1>14. CASE UNCHANGED vars
  BY <1>14 DEF vars, Answers
<1> QED
  BY <1>4, <1>5, <1>6, <1>7, <1>8, <1>9, <1>10, <1>11, <1>12, <1>13, <1>14 DEF Next

(* What an answer carries may be put on a page. *)
LEMMA AnswerFitsPage ==
    ASSUME TypeOK, VersionCountsEdits, Answers, NEW c \in Clients,
           NEW v, NEW n, PageTakes(c, v, n), cmd[c].target \in Aggregates,
           \/ ReadContents(c) /\ v = answer[c].version /\ n = edits[cmd[c].target]
           \/ /\ AnswerContents(c) /\ v = answer[c].version
              /\ n \in {answer[c].edits, edits[cmd[c].target]}
    PROVE  /\ v <= version[cmd[c].target]
           /\ n <= edits[cmd[c].target]
           /\ c \in Careful => v <= n
<1>1. CASE ReadContents(c) /\ n = edits[cmd[c].target]
  BY <1>1 DEF ReadContents, Answers, VersionCountsEdits, TypeOK
<1>2. CASE AnswerContents(c) /\ n \in {answer[c].edits, edits[cmd[c].target]}
  BY <1>2 DEF AnswerContents, Answers, TypeOK
<1> QED
  BY <1>1, <1>2

LEMMA PagesStep ==
    ASSUME TypeOK, Locking, VersionCountsEdits, Answers, Pages, [Next]_vars
    PROVE  Pages'
<1>1. \A a \in Aggregates : version[a] <= version'[a] /\ edits[a] <= edits'[a]
  BY RowsGrow
<1>2. TypeOK'
  BY TypeStep
<1>3. ASSUME UNCHANGED pages
      PROVE  Pages'
  BY <1>1, <1>2, <1>3 DEF TypeOK, pages, Pages
<1>4. ASSUME NEW c \in Clients, NEW v, NEW n, PageTakes(c, v, n), UNCHANGED rows,
             cmd[c].target \in Aggregates, v <= version[cmd[c].target],
             n <= edits[cmd[c].target], c \in Careful => v <= n
      PROVE  Pages'
  BY <1>4 DEF TypeOK, PageTakes, rows, Pages
<1>5. \A c \in Clients : cmd[c].target \in Aggregates
  BY DEF TypeOK, Command
<1>6. ASSUME NEW c \in Clients, ReadContents(c)
      PROVE  Pages'
  BY <1>4, <1>5, <1>6, AnswerFitsPage DEF ReadContents
<1>7. ASSUME NEW c \in Clients, AnswerContents(c)
      PROVE  Pages'
  BY <1>4, <1>5, <1>7, AnswerFitsPage DEF AnswerContents
<1>8. CASE ~ \E c \in Clients : ReadContents(c) \/ AnswerContents(c)
  BY <1>3, <1>8 DEF Next, vars, Send, MissMarker, LockFirst, Conflict, InsertLost, LockNext,
     Commit, Abort, ReadVersion, AnswerVersion, LoseAnswer
<1> QED
  BY <1>6, <1>7, <1>8

-----------------------------------------------------------------------------
LEMMA InvariantStep == IInv /\ [Next]_vars => IInv'
  BY TypeStep, CountStep, LockOrderStep, LockingStep, ReachingStep, AnswersStep, PagesStep
     DEF IInv

THEOREM Invariance == Spec => []IInv
  BY InvariantInit, InvariantStep, PTL DEF Spec

-----------------------------------------------------------------------------
(* lock_cycle and lock_backlog raise the version once per committed edit, *)
(* whatever interleaving of commands, failures and unchecked posts.       *)
THEOREM VersionsCount == Spec => []VersionCountsEdits
<1>1. IInv => VersionCountsEdits
  BY DEF IInv
<1> QED
  BY <1>1, Invariance, PTL

(* Transactions take their rows in one order, so none ever waits in a cycle. *)
THEOREM LocksOrdered == Spec => []LockOrder
<1>1. IInv => LockOrder
  BY DEF IInv
<1> QED
  BY <1>1, Invariance, PTL

(* No rolled back version ever reaches a page. *)
THEOREM VersionsCommitted == Spec => []OnlyCommittedVersions
<1>1. IInv => OnlyCommittedVersions
  BY DEF IInv, Pages, OnlyCommittedVersions
<1> QED
  BY <1>1, Invariance, PTL

LEMMA UpToDateUnderLock == IInv => NoLostUpdate
<1> SUFFICES ASSUME IInv, NEW c \in Careful, pc[c] = "locked", cmd[c].checked
             PROVE  seen[c][cmd[c].target] = edits[cmd[c].target]
  BY DEF NoLostUpdate, Careful
<1> DEFINE a == cmd[c].target
<1>1. a \in Aggregates /\ known[c][a] = version[a] /\ version[a] = edits[a]
  BY DEF IInv, TypeOK, Command, Careful, Locking, VersionCountsEdits
<1>2. known[c][a] <= seen[c][a] /\ seen[c][a] <= edits[a]
  BY <1>1 DEF IInv, Pages, Careful
<1>3. known[c][a] \in Nat /\ seen[c][a] \in Nat /\ edits[a] \in Nat
  BY <1>1 DEF IInv, TypeOK, Careful
<1> QED
  BY <1>1, <1>2, <1>3

(* A checked command of a page whose answers are not re-read never overwrites *)
(* an edit its page has not seen.                                             *)
THEOREM NoUpdateLost == Spec => []NoLostUpdate
  BY UpToDateUnderLock, Invariance, PTL

(* The version compared under the row lock is still current at the commit. *)
THEOREM CommitsChecked == Spec => CommitsOnCheckedVersion
<1>1. IInv /\ [Next]_vars =>
          [\A c \in Clients : Commit(c) /\ cmd[c].checked =>
              version[cmd[c].target] = known[c][cmd[c].target]]_vars
  BY DEF IInv, Locking, Commit
<1> QED
  BY <1>1, Invariance, PTL DEF Spec, CommitsOnCheckedVersion

(* A 409 is always owed to a commit the page has not seen. *)
THEOREM ConflictsBlameCommits == Spec => ConflictBlamesCommit
<1>1. IInv /\ [Next]_vars =>
          [\A c \in Clients : Conflict(c) =>
              version[cmd[c].target] > known[c][cmd[c].target]]_vars
  <2> SUFFICES ASSUME IInv, NEW c \in Clients, Conflict(c)
               PROVE  version[cmd[c].target] > known[c][cmd[c].target]
    OBVIOUS
  <2>1. cmd[c].target \in Aggregates
    BY DEF IInv, TypeOK, Command
  <2>2. /\ version[cmd[c].target] \in Nat /\ known[c][cmd[c].target] \in Nat
        /\ known[c][cmd[c].target] <= version[cmd[c].target]
    BY <2>1 DEF IInv, TypeOK, Pages
  <2>3. version[cmd[c].target] # known[c][cmd[c].target]
    BY DEF Conflict, Stale
  <2> QED
    BY <2>2, <2>3
<1> QED
  BY <1>1, Invariance, PTL DEF Spec, ConflictBlamesCommit

-----------------------------------------------------------------------------
(***************************************************************************)
(* The refinement.  Locking a row is taking the aggregate, a commit is the *)
(* edit of all that was taken, an aborted transaction drops it, the end of *)
(* a read or of an answer is an observation, and every other step is       *)
(* invisible.                                                              *)
(***************************************************************************)
LEMMA HoldersAreLocked ==
    ASSUME IInv, NEW c \in Clients
    PROVE  /\ Holds(c) \in SUBSET Aggregates
           /\ pc[c] # "locked" => Holds(c) = {}
           /\ pc[c] = "locked" => cmd[c].target \in Holds(c)
  BY OptimisticLockingAssumption DEF IInv, TypeOK, Command, Locking, Holds

(* A row that nobody locks is free in the store. *)
LEMMA UnlockedIsFree ==
    ASSUME NEW a \in Aggregates, holder[a] = Nobody
    PROVE  Store!Free(a)
  BY OptimisticLockingAssumption DEF Store!Free, Taken, Holds

LEMMA TakeRowTakes ==
    ASSUME IInv, NEW c \in Clients, NEW a \in Aggregates, TakeRow(c, a)
    PROVE  Taken' = [Taken EXCEPT ![c] = @ \cup {a}]
<1>1. \A d \in Clients : Holds(d)' = IF d = c THEN Holds(d) \cup {a} ELSE Holds(d)
  BY OptimisticLockingAssumption DEF TakeRow, IInv, TypeOK, Holds
<1> QED
  BY <1>1 DEF Taken

LEMMA LockFirstTakes ==
    ASSUME IInv, NEW c \in Clients, LockFirst(c)
    PROVE  Store!StoreNext
<1> DEFINE a == cmd[c].target
           check == cmd[c].checked
<1>1. a \in Aggregates /\ check \in BOOLEAN /\ pc[c] # "locked" /\ TakeRow(c, a)
  BY DEF LockFirst, AtFirstRow, IInv, TypeOK, Command
<1>2. Taken[c] = {} /\ Store!Free(a)
  BY <1>1, HoldersAreLocked, UnlockedIsFree DEF Taken, TakeRow
<1>3. Taken' = [Taken EXCEPT ![c] = {a}]
  BY <1>1, <1>2, TakeRowTakes
<1>4. Checks' = [Checks EXCEPT ![c] = IF check THEN {a} ELSE {}]
  BY <1>1 DEF Checks, LockFirst, GoTo, IInv, TypeOK
<1>5. Store!Take(c, a, check)
  BY <1>2, <1>3, <1>4 DEF Store!Take, LockFirst, rows, pages
<1> QED
  BY <1>1, <1>5 DEF Store!StoreNext

LEMMA LockNextTakesMore ==
    ASSUME IInv, NEW c \in Clients, NEW a \in Cycles, LockNext(c, a)
    PROVE  Store!StoreNext
<1>1. a \in Aggregates /\ TakeRow(c, a)
  BY DEF LockNext, Aggregates
<1>2. Taken[c] # {} /\ Store!Free(a)
  BY <1>1, HoldersAreLocked, UnlockedIsFree DEF Taken, TakeRow, LockNext
<1>3. Taken' = [Taken EXCEPT ![c] = @ \cup {a}]
  BY <1>1, TakeRowTakes
<1>4. Checks' = Checks
  BY DEF Checks, LockNext
<1>5. Store!TakeMore(c, a)
  BY <1>2, <1>3, <1>4 DEF Store!TakeMore, LockNext, rows, pages
<1> QED
  BY <1>1, <1>5 DEF Store!StoreNext

LEMMA ReleaseGivesBack ==
    ASSUME IInv, NEW c \in Clients, pc[c] = "locked", ReleaseRows(c),
           NEW l \in Locations \ {"locked"}, GoTo(c, l),
           \A d \in Clients \ {c} : cmd'[d] = cmd[d]
    PROVE  Store!GiveBack(c)
<1>1. \A d \in Clients : Holds(d)' = IF d = c THEN {} ELSE Holds(d)
  BY OptimisticLockingAssumption DEF ReleaseRows, IInv, TypeOK, Holds
<1>2. Taken' = [Taken EXCEPT ![c] = {}] /\ Taken[c] # {}
  BY <1>1, HoldersAreLocked DEF Taken
<1>3. Checks' = [Checks EXCEPT ![c] = {}]
  BY DEF Checks, GoTo, IInv, TypeOK
<1> QED
  BY <1>2, <1>3 DEF Store!GiveBack

LEMMA CommitIsEdit ==
    ASSUME IInv, NEW c \in Clients, Commit(c)
    PROVE  Store!StoreNext
<1>1. Store!GiveBack(c)
  BY ReleaseGivesBack DEF Commit, Locations
<1>2. c \in Careful => \A a \in Checks[c] : seen[c][a] = edits[a]
  BY UpToDateUnderLock DEF NoLostUpdate, Commit, Careful, Checks
<1>3. Store!Edit(c)
  BY <1>1, <1>2 DEF Store!Edit, Commit, pages, Careful, Taken
<1> QED
  BY <1>3 DEF Store!StoreNext

LEMMA AbortIsDrop ==
    ASSUME IInv, NEW c \in Clients, Abort(c)
    PROVE  Store!StoreNext \/ UNCHANGED Store!storeVars
<1>1. CASE pc[c] = "locked"
  <2>1. \A d \in Clients \ {c} : cmd'[d] = cmd[d]
    BY DEF Abort, End, IInv, TypeOK
  <2>2. Store!GiveBack(c)
    BY <1>1, <2>1, ReleaseGivesBack DEF Abort, End, Locations
  <2> QED
    BY <2>2 DEF Store!StoreNext, Store!Drop, Abort, rows, pages
<1>2. CASE pc[c] # "locked"
  <2>1. Taken' = Taken
    BY <1>2, HoldersAreLocked DEF Abort, ReleaseRows, Taken, Holds
  <2>2. Checks' = Checks
    BY <1>2 DEF Abort, End, GoTo, Checks, IInv, TypeOK
  <2> QED
    BY <2>1, <2>2 DEF Abort, rows, pages, Store!storeVars
<1> QED
  BY <1>1, <1>2

LEMMA PageIsObservation ==
    ASSUME IInv, NEW c \in Clients, ReadContents(c) \/ AnswerContents(c)
    PROVE  Store!StoreNext
<1> DEFINE a == cmd[c].target
<1>1. a \in Aggregates /\ edits[a] \in Nat /\ seen[c][a] \in Nat
  BY DEF IInv, TypeOK, Command
<1>2. PICK n : PageTakes(c, answer[c].version, n) /\ n \in seen[c][a] .. edits[a]
  <2>1. CASE ReadContents(c)
    BY <1>1, <2>1 DEF ReadContents, IInv, Pages
  <2>2. CASE AnswerContents(c)
    BY <1>1, <2>2 DEF AnswerContents, IInv, TypeOK, Answers, Pages
  <2> QED
    BY <2>1, <2>2
<1>3. UNCHANGED <<edits, Taken>>
  BY DEF ReadContents, AnswerContents, rows, locks, Taken, Holds
<1>4. UNCHANGED Checks
  BY DEF ReadContents, AnswerContents, End, GoTo, Checks, IInv, TypeOK
<1>5. Store!Observe(c, a)
  BY <1>2, <1>3, <1>4 DEF Store!Observe, PageTakes
<1> QED
  BY <1>1, <1>5 DEF Store!StoreNext

(* Steps that neither lock, nor release, nor change contents or pages. *)
LEMMA InvisibleStep ==
    ASSUME IInv, NEW c \in Clients,
           \/ \E a \in Aggregates, checked \in BOOLEAN, rest \in SUBSET Cycles :
                  Send(c, a, checked, rest)
           \/ \E a \in Aggregates : ReadVersion(c, a)
           \/ MissMarker(c) \/ Conflict(c) \/ InsertLost(c)
           \/ AnswerVersion(c) \/ LoseAnswer(c)
    PROVE  UNCHANGED Store!storeVars
<1>1. UNCHANGED <<edits, seen, Taken>>
  BY DEF Send, ReadVersion, MissMarker, Conflict, InsertLost, AnswerVersion, LoseAnswer,
     rows, locks, pages, Taken, Holds
<1>2. \A d \in Clients \ {c} : pc'[d] = pc[d] /\ cmd'[d] = cmd[d]
  BY DEF Send, ReadVersion, MissMarker, Conflict, InsertLost, AnswerVersion, LoseAnswer,
     End, GoTo, IInv, TypeOK
<1>3. pc[c] # "locked" /\ pc'[c] # "locked"
  BY DEF Send, ReadVersion, MissMarker, Conflict, InsertLost, AnswerVersion, LoseAnswer,
     AtFirstRow, End, GoTo, IInv, TypeOK
<1>4. UNCHANGED Checks
  BY <1>2, <1>3 DEF Checks
<1> QED
  BY <1>1, <1>4 DEF Store!storeVars

(* The locking protocol implements the store it is meant to provide. *)
THEOREM Refinement == Spec => ImplementsStore
<1>1. Init => Store!StoreInit
  BY OptimisticLockingAssumption DEF Init, Store!StoreInit, Taken, Checks, Holds
<1>2. IInv /\ [Next]_vars => [Store!StoreNext]_(Store!storeVars)
  <2> SUFFICES ASSUME IInv, [Next]_vars
               PROVE  Store!StoreNext \/ UNCHANGED Store!storeVars
    OBVIOUS
  <2>1. CASE UNCHANGED vars
    BY <2>1 DEF vars, rows, locks, pages, request, Store!storeVars, Taken, Holds, Checks
  <2>2. CASE Next
    BY <2>2, LockFirstTakes, LockNextTakesMore, CommitIsEdit, AbortIsDrop,
       PageIsObservation, InvisibleStep DEF Next
  <2> QED
    BY <2>1, <2>2
<1> QED
  BY <1>1, <1>2, Invariance, PTL DEF Spec, ImplementsStore, Store!StoreSpec
=============================================================================
