------------------------------- MODULE Backlog -------------------------------
(***************************************************************************)
(* The global backlog and the initiatives of the PI cycles it feeds:       *)
(* services/backlog_board.py and the executor part of services/pre_pi.py.  *)
(*                                                                         *)
(* Every command holds the backlog row or the row of its cycle (module     *)
(* OptimisticLocking) from its first read to its commit, so it is one step *)
(* here.  A command that ends in an error is rolled back: it changes       *)
(* nothing and is no step.  Confirmations of a cascade are always given:   *)
(* without one the command is such an error.                               *)
(*                                                                         *)
(* Texts, priorities, tags and efforts go the way of the key and are left  *)
(* out.  An initiative has one resource row at most, which every command   *)
(* checks, so it is the field "team" of the initiative.  Every team takes  *)
(* part in every cycle.  The block, status and board position of an        *)
(* initiative are not part of this module, nor is the bulk PUT of Pre PI.  *)
(***************************************************************************)
EXTENDS Naturals, Sequences, FiniteSets, Functions

CONSTANTS
    Items,          \* ids a backlog item can get
    Initiatives,    \* ids an initiative can get
    Keys,           \* issue keys
    Cycles,
    Tribes,
    Teams,
    Sprints,
    Drafts,         \* the field values clients send for a backlog item
    Staffings,      \* the owner and team clients give an initiative
    Backlog,        \* names the version row of the backlog
    None,
    MaxWanted       \* bounds the requests of one command

Draft == [tribe : Tribes, period : Cycles \cup {None}, owner : Teams \cup {None},
          team : Teams \cup {None}, sent : BOOLEAN]

Staffing == [owner : Teams \cup {None}, team : Teams \cup {None}]

VARIABLES
    items,          \* the backlog rows, None where the id is free
    board,          \* their order
    initiatives,    \* the initiatives of all cycles, None where the id is free
    requests,       \* the attraction rows of the initiatives' executors
    raised          \* the version rows the last command raised

vars == <<items, board, initiatives, requests, raised>>

Item == [key : Keys, tribe : Tribes, period : Cycles \cup {None},
         owner : Teams \cup {None}, team : Teams \cup {None},
         sent : BOOLEAN, sentTo : SUBSET Cycles]

Initiative == [cycle : Cycles, item : Items \cup {None}, key : Keys,
               owner : Teams \cup {None}, team : Teams \cup {None},
               generated : BOOLEAN]

Request == [from : Initiatives, key : Keys, target : Initiatives \cup {None},
            team : Teams, sprint : Sprints \cup {None}]

ASSUME BacklogAssumption ==
    /\ Drafts \subseteq Draft
    /\ Staffings \subseteq Staffing
    /\ None \notin Items \cup Initiatives \cup Keys \cup Cycles \cup Teams \cup Sprints
    /\ None \notin Item /\ None \notin Initiative
    /\ Backlog \notin Cycles
    /\ IsFiniteSet(Items)
    /\ MaxWanted \in Nat

Init ==
    /\ items = [x \in Items |-> None]
    /\ board = <<>>
    /\ initiatives = [n \in Initiatives |-> None]
    /\ requests = {}
    /\ raised = {}

Live == {x \in Items : items[x] # None}
KeysOf(S) == {items[x].key : x \in S}
InCycle(c) == {n \in Initiatives : initiatives[n] # None /\ initiatives[n].cycle = c}
Linked == {n \in Initiatives : initiatives[n] # None /\ initiatives[n].item # None}

-----------------------------------------------------------------------------
(* Commands on the backlog.                                                *)

\* MUTANT: edits may set and reset the status "sent".
PermittedAlways(x, draft) == TRUE

\* The status "sent" is neither given nor taken back by an edit.
Permitted(x, draft) == draft.sent = (x \in Live /\ items[x].sent)

Written(x, key, draft) ==
    [key |-> key, tribe |-> draft.tribe, period |-> draft.period,
     owner |-> draft.owner, team |-> draft.team, sent |-> draft.sent,
     sentTo |-> IF x \in Live THEN items[x].sentTo ELSE {}]

CreateItem(x, key, draft) ==
    /\ x \notin Live
    /\ key \notin KeysOf(Live)
    /\ Permitted(x, draft)
    /\ items' = [items EXCEPT ![x] = Written(x, key, draft)]
    /\ board' = Append(board, x)
    /\ raised' = {Backlog}
    /\ UNCHANGED <<initiatives, requests>>

UpdateItem(x, key, draft) ==
    /\ x \in Live
    /\ key \notin KeysOf(Live \ {x})
    /\ Permitted(x, draft)
    /\ items' = [items EXCEPT ![x] = Written(x, key, draft)]
    /\ raised' = {Backlog}
    /\ UNCHANGED <<board, initiatives, requests>>

\* _unlink_dispatched_initiatives: the copies of removed items stay, on their
\* own, and every cycle that holds one gets a new version.
CopiesOf(gone) == {n \in Linked : initiatives[n].item \in gone}

\* MUTANT: copies keep their link.
StillLinked(gone) == initiatives

Unlinked(gone) ==
    [n \in Initiatives |-> IF n \in CopiesOf(gone)
                           THEN [initiatives[n] EXCEPT !.item = None]
                           ELSE initiatives[n]]

\* MUTANT: only the backlog gets a new version.
NoCycles(gone) == {}

CyclesHolding(gone) == {initiatives[n].cycle : n \in CopiesOf(gone)}

\* The order of the other items stays.
OrderWithout(x) ==
    LET at == CHOOSE k \in 1 .. Len(board) : board[k] = x
    IN  [k \in 1 .. Len(board) - 1 |-> board[IF k < at THEN k ELSE k + 1]]

DeleteItem(x) ==
    /\ x \in Live
    /\ items' = [items EXCEPT ![x] = None]
    /\ board' = OrderWithout(x)
    /\ initiatives' = Unlinked({x})
    /\ raised' = {Backlog} \cup CyclesHolding({x})
    /\ UNCHANGED requests

ReorderItems(order) ==
    /\ IsInjective(order) /\ Range(order) = Live
    /\ board' = order
    /\ raised' = {Backlog}
    /\ UNCHANGED <<items, initiatives, requests>>

\* MUTANT: rows that the page no longer sends stay, at the place they had.
ReplaceWritten(order, keys, drafts) ==
    LET written == Range(order)
    IN  /\ IsInjective(order) /\ IsInjective(keys)
        /\ \A x \in written : Permitted(x, drafts[x])
        /\ \A x \in written \ Live : keys[x] \notin KeysOf(Live)
        /\ items' = [x \in Items |-> IF x \in written
                                     THEN Written(x, keys[x], drafts[x]) ELSE items[x]]
        /\ board' = order
        /\ raised' = {Backlog}
        /\ UNCHANGED <<initiatives, requests>>

\* The whole board at once.  A row without an id goes to the item that has its
\* key now, so an item is new only if no item has its key now.
ReplaceBoard(order, keys, drafts) ==
    LET written == Range(order)
        gone == Live \ written
    IN  /\ IsInjective(order) /\ IsInjective(keys)
        /\ \A x \in written : Permitted(x, drafts[x])
        /\ \A x \in written \ Live : keys[x] \notin KeysOf(Live)
        /\ items' = [x \in Items |-> IF x \in written
                                     THEN Written(x, keys[x], drafts[x]) ELSE None]
        /\ board' = order
        /\ initiatives' = Unlinked(gone)
        /\ raised' = {Backlog} \cup CyclesHolding(gone)
        /\ UNCHANGED requests

-----------------------------------------------------------------------------
(* Dispatch: the items of a tribe that are planned for a cycle get, or      *)
(* renew, their copies there.                                              *)

Candidates(c, t) == {x \in Live : items[x].tribe = t /\ items[x].period = c}

LinkedTo(c, x) == {n \in InCycle(c) : initiatives[n].item = x}
Keyed(c, key) == {n \in InCycle(c) : initiatives[n].key = key}

\* MUTANT: a copy takes the key of an initiative that nothing is linked to.
ConflictAmongCopies(c, t, x) ==
    \E n \in Keyed(c, items[x].key) \ LinkedTo(c, x) :
        /\ initiatives[n].item \notin Candidates(c, t)
        /\ initiatives[n].item # None

\* The key is taken by an initiative that cannot give it up.
Conflict(c, t, x) ==
    \E n \in Keyed(c, items[x].key) \ LinkedTo(c, x) :
        /\ initiatives[n].item \notin Candidates(c, t)
        /\ LinkedTo(c, x) # {} \/ initiatives[n].item # None

\* MUTANT: the copy is found by its key before it is found by its link.
CopyByKey(c, x) ==
    IF Keyed(c, items[x].key) # {} THEN Keyed(c, items[x].key) ELSE LinkedTo(c, x)

\* The initiative that is to become, or already is, the copy of x.
CopyIn(c, x) ==
    IF LinkedTo(c, x) # {} THEN LinkedTo(c, x)
    ELSE {n \in Keyed(c, items[x].key) : initiatives[n].item = None}

Assignment(c, t, copy) ==
    /\ Candidates(c, t) # {}
    /\ \A x \in Candidates(c, t) : ~Conflict(c, t, x)
    /\ \A x \in Candidates(c, t) : IF CopyIn(c, x) # {} THEN copy[x] \in CopyIn(c, x)
                                   ELSE initiatives[copy[x]] = None
    /\ IsInjective(copy)

\* The resource row of the copy: the item's, or the owner without effort.
CopyTeam(x) == IF items[x].team # None THEN items[x].team ELSE items[x].owner

\* MUTANT: the copy belongs to the team that works on it.
RenewedForTeam(c, x) ==
    [cycle |-> c, item |-> x, key |-> items[x].key, owner |-> items[x].team,
     team |-> CopyTeam(x), generated |-> FALSE]

\* MUTANT: an adopted service card stays one.
RenewedAsFound(c, x) ==
    [cycle |-> c, item |-> x, key |-> items[x].key, owner |-> items[x].owner,
     team |-> CopyTeam(x),
     generated |-> \E n \in CopyIn(c, x) : initiatives[n].generated]

\* What a dispatch makes of the copy of x, new, adopted or already linked.
Renewed(c, x) ==
    [cycle |-> c, item |-> x, key |-> items[x].key, owner |-> items[x].owner,
     team |-> CopyTeam(x), generated |-> FALSE]

\* MUTANT: the copy starts again without requests.
RowsAnew(copy, done) == {q \in requests : \A x \in done : copy[x] # q.from}

\* MUTANT: requests for the copy keep its old key.
RowsNotRenamed(copy, done) ==
    {q \in requests : \A x \in done : copy[x] = q.from => CopyTeam(x) # None}

\* The attraction rows after the copies of the items in done were written: a
\* copy without a resource row loses its requests, requests for a copy follow
\* its key.
RowsAfter(copy, done) ==
    {IF \E x \in done : copy[x] = r.target
     THEN [r EXCEPT !.key = items[CHOOSE x \in done : copy[x] = r.target].key]
     ELSE r : r \in {q \in requests : \A x \in done : copy[x] = q.from => CopyTeam(x) # None}}

\* The unique constraint of the attraction rows, which the database checks
\* after each row: a row without a sprint equals no other.
Distinct(r, q) == <<r.from, r.key, r.team, r.sprint>> # <<q.from, q.key, q.team, q.sprint>>
UniqueRows(rows) == \A r, q \in rows : r # q /\ r.sprint # None => Distinct(r, q)

FirstItems(c, t, k) == Candidates(c, t) \cap {board[j] : j \in 1 .. k}

\* The copies are written one after the other, in the order of the board.
RowsStayUnique(c, t, copy) ==
    \A k \in 1 .. Len(board) : UniqueRows(RowsAfter(copy, FirstItems(c, t, k)))

Dispatch(c, t, copy) ==
    LET cand == Candidates(c, t)
    IN  /\ Assignment(c, t, copy)
        /\ RowsStayUnique(c, t, copy)
        /\ items' = [x \in Items |->
               IF x \in cand
               THEN [items[x] EXCEPT !.sent = TRUE, !.sentTo = @ \cup {c}]
               ELSE items[x]]
        /\ initiatives' = [n \in Initiatives |->
               IF \E x \in cand : copy[x] = n
               THEN Renewed(c, CHOOSE x \in cand : copy[x] = n)
               ELSE initiatives[n]]
        /\ requests' = RowsAfter(copy, cand)
        /\ raised' = {Backlog, c}
        /\ UNCHANGED board

-----------------------------------------------------------------------------
(* Commands of Pre PI on the initiatives of a cycle.                        *)

CreateInitiative(n, c, key, staff) ==
    /\ initiatives[n] = None
    /\ Keyed(c, key) = {}
    /\ initiatives' = [initiatives EXCEPT ![n] =
           [cycle |-> c, item |-> None, key |-> key, owner |-> staff.owner,
            team |-> staff.team, generated |-> FALSE]]
    /\ raised' = {c}
    /\ UNCHANGED <<items, board, requests>>

EditOwner(n, owner) ==
    /\ initiatives[n] # None
    /\ initiatives[n].item = None
    /\ initiatives' = [initiatives EXCEPT ![n].owner = owner]
    /\ raised' = {initiatives[n].cycle}
    /\ UNCHANGED <<items, board, requests>>

From(n) == {r \in requests : r.from = n}

Wanted == [key : Keys, team : Teams, sprint : Sprints \cup {None}]

\* What the form asks for is in order: nobody asks for itself or its own board,
\* an initiative is asked for from one team, the one that has it, and a foreign
\* initiative is not taken over.
Acceptable(n, staff, wanted) ==
    /\ staff.team = None => wanted = {}
    /\ \A w \in wanted : w.key # initiatives[n].key /\ w.team # staff.team
    /\ \A w, v \in wanted : w.key = v.key => w.team = v.team
    /\ \A w \in wanted : \A m \in Keyed(initiatives[n].cycle, w.key) :
           /\ initiatives[m].generated \/ initiatives[m].owner \in {None, staff.owner}
           /\ initiatives[m].team \in {None, w.team}

\* What a request does to the initiative it asks for.
Attracted(m, owner, team) ==
    [initiatives[m] EXCEPT
        !.owner = IF initiatives[m].generated \/ @ = None THEN owner ELSE @,
        !.team = IF @ = None THEN team ELSE @]

ServiceCard(c, key, owner, team) ==
    [cycle |-> c, item |-> None, key |-> key, owner |-> owner, team |-> team,
     generated |-> TRUE]

\* The loop over the service cards that n asked for before deletes those nobody
\* asks for any more, in any order, with their own requests.  rank is the place
\* of a card among the deleted ones.
Abandoned(n, rows, gone) ==
    LET cards == {r.target : r \in {q \in From(n) : q.target # None}}
        dropped == {m \in cards : initiatives[m].generated}
    IN  /\ gone \subseteq dropped
        /\ \A m \in dropped \ gone : \E r \in rows : r.target = m
        /\ \E rank \in [gone -> 1 .. Cardinality(gone)] :
               \A r \in rows : r.target \in gone =>
                   r.from \in gone /\ rank[r.from] < rank[r.target]

\* Which initiative each key of the form means: the one in the cycle, or a new
\* service card.
Targets(n, wanted) ==
    LET c == initiatives[n].cycle
    IN  {target \in [{w.key : w \in wanted} -> Initiatives] :
            /\ IsInjective(target)
            /\ \A key \in DOMAIN target :
                   IF Keyed(c, key) # {} THEN target[key] \in Keyed(c, key)
                   ELSE initiatives[target[key]] = None}

\* The executor part of the form of initiative n.  For a copy the owner and the
\* team are the backlog's.
EditExecutors(n, staff, wanted) ==
    LET me == initiatives[n]
        TeamFor(key) == (CHOOSE w \in wanted : w.key = key).team
    IN  /\ me # None
        /\ me.item # None => staff.owner = me.owner /\ staff.team = me.team
        /\ Acceptable(n, staff, wanted)
        /\ \E target \in Targets(n, wanted) :
           LET rows == (requests \ From(n)) \cup
                   {[from |-> n, key |-> w.key, target |-> target[w.key],
                     team |-> w.team, sprint |-> w.sprint] : w \in wanted}
               KeyOf(m) == CHOOSE key \in DOMAIN target : target[key] = m
           IN \E gone \in SUBSET {r.target : r \in From(n)} :
              /\ Abandoned(n, rows, gone)
              /\ initiatives' = [m \in Initiatives |->
                     IF m \in gone THEN None
                     ELSE IF m = n THEN [me EXCEPT !.owner = staff.owner, !.team = staff.team]
                     ELSE IF m \notin Range(target) THEN initiatives[m]
                     ELSE IF initiatives[m] = None
                     THEN ServiceCard(me.cycle, KeyOf(m), staff.owner, TeamFor(KeyOf(m)))
                     ELSE Attracted(m, staff.owner, TeamFor(KeyOf(m)))]
              /\ requests' = {r \in rows : r.from \notin gone}
        /\ raised' = {me.cycle}
        /\ UNCHANGED <<items, board>>

\* The initiative goes with its requests; requests for it stay, with its key.
DeleteInitiative(n) ==
    /\ initiatives[n] # None
    /\ initiatives' = [initiatives EXCEPT ![n] = None]
    /\ requests' = {IF r.target = n THEN [r EXCEPT !.target = None] ELSE r :
                        r \in requests \ From(n)}
    /\ raised' = {initiatives[n].cycle}
    /\ UNCHANGED <<items, board>>

-----------------------------------------------------------------------------
\* Each member of S once.
Orders(S) == {order \in [1 .. Cardinality(S) -> S] : IsInjective(order) /\ Range(order) = S}

Next ==
    \/ \E x \in Items, key \in Keys, draft \in Drafts :
           CreateItem(x, key, draft) \/ UpdateItem(x, key, draft)
    \/ \E x \in Items : DeleteItem(x)
    \/ \E order \in Orders(Live) : ReorderItems(order)
    \/ \E written \in SUBSET Items :
           \E order \in Orders(written), keys \in [written -> Keys],
              drafts \in [written -> Drafts] : ReplaceBoard(order, keys, drafts)
    \/ \E c \in Cycles, t \in Tribes :
           \E copy \in [Candidates(c, t) -> Initiatives] : Dispatch(c, t, copy)
    \/ \E n \in Initiatives, c \in Cycles, key \in Keys, staff \in Staffings :
           CreateInitiative(n, c, key, staff)
    \/ \E n \in Initiatives, staff \in Staffings : EditOwner(n, staff.owner)
    \/ \E n \in Initiatives, wanted \in {W \in SUBSET Wanted : Cardinality(W) <= MaxWanted} :
           \/ \E staff \in Staffings : EditExecutors(n, staff, wanted)
           \/ /\ initiatives[n] # None
              /\ EditExecutors(n, [owner |-> initiatives[n].owner,
                                   team |-> initiatives[n].team], wanted)
    \/ \E n \in Initiatives : DeleteInitiative(n)

Spec == Init /\ [][Next]_vars

-----------------------------------------------------------------------------
(* Properties.                                                             *)

TablesOK ==
    /\ items \in [Items -> Item \cup {None}]
    /\ initiatives \in [Initiatives -> Initiative \cup {None}]
    /\ requests \subseteq Request
    /\ raised \subseteq Cycles \cup {Backlog}

BoardOK ==
    /\ board \in [1 .. Len(board) -> Live]
    /\ IsInjective(board) /\ Range(board) = Live

\* The types of the tables; the order of the board (sort_order) gives each item
\* that exists a place of its own, whichever commands wrote the rows.
TypeOK == TablesOK /\ BoardOK

\* No two items have one key, nor two initiatives of a cycle, however rows are
\* renamed, swapped, adopted by a dispatch or made by a request: the commands
\* check keys of their own, against different sets of rows.
KeysUnique ==
    /\ \A x, y \in Live : items[x].key = items[y].key => x = y
    /\ \A c \in Cycles : \A n, m \in InCycle(c) :
           initiatives[n].key = initiatives[m].key => n = m

\* A link leads to an item that exists and was sent to this cycle, and an item
\* has one copy per cycle, so a repeated dispatch makes no duplicates.
LinksMatch ==
    /\ \A n \in Linked : LET x == initiatives[n].item
                         IN  /\ x \in Live /\ items[x].sent
                             /\ initiatives[n].cycle \in items[x].sentTo
    /\ \A n, m \in Linked : /\ initiatives[n].item = initiatives[m].item
                            /\ initiatives[n].cycle = initiatives[m].cycle
                            => n = m

\* Requests end with the initiative that makes them, and name what they ask for
\* by the key it has now, however copies are renamed, adopted or deleted.
RequestsMatch ==
    \A r \in requests :
        /\ initiatives[r.from] # None
        /\ r.target # None => /\ initiatives[r.target] # None
                              /\ initiatives[r.target].cycle = initiatives[r.from].cycle
                              /\ initiatives[r.target].key = r.key

\* A copy of a backlog item is no service card, so it does not disappear with
\* the request that once made it.
CopiesAreNoServiceCards == \A n \in Linked : ~initiatives[n].generated

\* A copy never changes hands: it stays linked to its item while the item
\* exists, whatever is renamed, re-planned or dispatched again.
LinksStay ==
    [][\A n \in Linked : initiatives'[n] # None =>
           \/ initiatives'[n].item = initiatives[n].item
           \/ initiatives'[n].item = None /\ items'[initiatives[n].item] = None]_vars

\* Once sent, an item stays sent and keeps the cycles it was sent to.
SentForGood ==
    [][\A x \in Live : items[x].sent /\ items'[x] # None =>
           items'[x].sent /\ items[x].sentTo \subseteq items'[x].sentTo]_vars

RowsOf(c) == {<<n, initiatives[n]>> : n \in InCycle(c)}
RequestsOf(c) == {r \in requests : r.from \in InCycle(c)}

\* Whoever shows a cycle learns of every change of its initiatives from the
\* version, the changes made by commands on the backlog included; likewise for
\* the backlog.
ChangesRaiseVersions ==
    [][/\ \A c \in Cycles : RowsOf(c)' # RowsOf(c) \/ RequestsOf(c)' # RequestsOf(c) => c \in raised'
       /\ items' # items \/ board' # board => Backlog \in raised']_vars

\* The copies in c of the items of t are as the items are now.
Synchronised(c, t) ==
    \A x \in Candidates(c, t) : \E n \in LinkedTo(c, x) :
        /\ initiatives[n].key = items[x].key
        /\ initiatives[n].owner = items[x].owner
        /\ initiatives[n].team = CopyTeam(x)
        /\ CopyTeam(x) = None => From(n) = {}

\* A dispatch leaves every item planned for the cycle with a copy there that is
\* as the item is now, even when keys were swapped.  A dispatch that is sent
\* again, as after a lost answer, then changes nothing but versions: it succeeds,
\* as docs/backlog-tab.md:52 says, where docs/api.md:132 has it rejected.
DispatchSynchronises ==
    [][\A c \in Cycles, t \in Tribes :
         (\E copy \in [Candidates(c, t) -> Initiatives] : Dispatch(c, t, copy)) =>
             /\ Synchronised(c, t)'
             /\ Synchronised(c, t) => UNCHANGED <<items, board, initiatives, requests>>]_vars

\* What n asks for: an initiative, by whatever key it has now, or else a key.
AskedBy(n) == {<<r.target, IF r.target = None THEN r.key ELSE None, r.team, r.sprint>> :
                   r \in From(n)}

\* A repeated dispatch keeps the requests of a copy, as docs/backlog-tab.md:52
\* says, if its item names a team: the same initiatives are asked for from the
\* same teams in the same sprints.
DispatchKeepsRequests ==
    [][\A c \in Cycles, t \in Tribes :
         (\E copy \in [Candidates(c, t) -> Initiatives] : Dispatch(c, t, copy)) =>
             \A x \in Candidates(c, t) : \A n \in LinkedTo(c, x) : CopyTeam(x) # None =>
                 AskedBy(n)' = AskedBy(n)]_vars

\* The comment at services/backlog_board.py:839 says that a dispatch supports
\* keys renamed and swapped among rows already sent: it meets no constraint.
SwapsGoThrough ==
    \A c \in Cycles, t \in Tribes : \A copy \in [Candidates(c, t) -> Initiatives] :
        Assignment(c, t, copy) => RowsStayUnique(c, t, copy)

=============================================================================
