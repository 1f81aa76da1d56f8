------------------------- MODULE CycleRoster_proofs -------------------------
(***************************************************************************)
(* Proofs about CycleRoster for any sets of teams, competencies and rows:  *)
(* through every rename, swap and deletion of teams, the five tables that  *)
(* are carried along name teams of the cycle and move together, requests   *)
(* stay as they are, and nothing is lost that was not confirmed.           *)
(***************************************************************************)
EXTENDS CycleRoster, TLAPS

Fields == {"owner", "executor", "asked", "members", "items", "goals", "risks"}

Item(people) == [of : Initiatives, code : Codes, assignee : people \cup {None}]

(* What is asked for goes with the executor's row. *)
AskedOK(r) ==
    /\ r.asked \in [Initiatives -> SUBSET Teams]
    /\ \A i \in Initiatives : r.executor[i] = None => r.asked[i] = {}

(* The rows are well formed, and those of the five tables name teams of S. *)
Good(r, S) ==
    /\ DOMAIN r = Fields
    /\ r.owner \in [Initiatives -> S \cup {None}]
    /\ r.executor \in [Initiatives -> S \cup {None}]
    /\ AskedOK(r)
    /\ DOMAIN r.members \subseteq MemberIds
    /\ r.members \in [DOMAIN r.members -> [team : S, code : Codes]]
    /\ DOMAIN r.items \subseteq WorkItems
    /\ r.items \in [DOMAIN r.items -> Item(DOMAIN r.members)]
    /\ DOMAIN r.goals \subseteq GoalIds
    /\ r.goals \in [DOMAIN r.goals -> S \cup {None}]
    /\ DOMAIN r.risks \subseteq RiskIds
    /\ r.risks \in [DOMAIN r.risks -> S \cup {None}]

RosterOK == DOMAIN roster \subseteq Teams /\ roster \in [DOMAIN roster -> CodeSets]

IInv == RosterOK /\ Good(refs, DOMAIN roster)

LEMMA GoodGrows == ASSUME NEW r, NEW S, NEW T, Good(r, S), S \subseteq T
                   PROVE  Good(r, T)
BY DEF Good

(* People and work items leave, and nothing else changes. *)
LEMMA LeftRows ==
    ASSUME NEW r, NEW S, NEW M, NEW W, NEW q, Good(r, S),
           q = WithoutItems(WithoutMembers(r, M), W)
    PROVE  /\ DOMAIN q = Fields /\ q.owner = r.owner /\ q.executor = r.executor
           /\ q.asked = r.asked
           /\ q.goals = r.goals /\ q.risks = r.risks
           /\ q.members = Except(r.members, M)
           /\ DOMAIN q.items = DOMAIN r.items \ W
           /\ \A w \in DOMAIN q.items :
                  q.items[w] = IF r.items[w].assignee \in M
                               THEN [r.items[w] EXCEPT !.assignee = None] ELSE r.items[w]
           /\ Good(q, S)
<1> DEFINE p == WithoutMembers(r, M)
           left == [w \in DOMAIN r.items |-> IF r.items[w].assignee \in M
                                             THEN [r.items[w] EXCEPT !.assignee = None]
                                             ELSE r.items[w]]
<1>1. /\ DOMAIN p = Fields /\ p.owner = r.owner /\ p.executor = r.executor
      /\ p.asked = r.asked
      /\ p.goals = r.goals /\ p.risks = r.risks
      /\ p.members = Except(r.members, M) /\ p.items = left
  BY DEF Good, Fields, WithoutMembers
<1>p. q = WithoutItems(p, W)
  OBVIOUS
<1> HIDE DEF p
<1>2. /\ DOMAIN q = Fields /\ q.owner = r.owner /\ q.executor = r.executor
      /\ q.asked = r.asked
      /\ q.goals = r.goals /\ q.risks = r.risks
      /\ q.members = Except(r.members, M) /\ q.items = Except(left, W)
  BY <1>1, <1>p DEF Fields, WithoutItems
<1>3. /\ DOMAIN q.members = DOMAIN r.members \ M
      /\ \A m \in DOMAIN q.members : q.members[m] = r.members[m]
      /\ q.members = [m \in DOMAIN q.members |-> q.members[m]]
  BY <1>2 DEF Except
<1>4. /\ DOMAIN q.items = DOMAIN r.items \ W
      /\ \A w \in DOMAIN q.items :
             q.items[w] = IF r.items[w].assignee \in M
                          THEN [r.items[w] EXCEPT !.assignee = None] ELSE r.items[w]
      /\ q.items = [w \in DOMAIN q.items |-> q.items[w]]
  BY <1>2 DEF Except
<1>5. \A w \in DOMAIN q.items : q.items[w] \in Item(DOMAIN q.members)
  <2> SUFFICES ASSUME NEW w \in DOMAIN q.items
               PROVE  q.items[w] \in Item(DOMAIN q.members)
    OBVIOUS
  <2>1. r.items[w] \in Item(DOMAIN r.members)
    BY <1>4 DEF Good
  <2>2. CASE r.items[w].assignee \in M
    BY <1>4, <2>1, <2>2 DEF Item
  <2>3. CASE r.items[w].assignee \notin M
    BY <1>3, <1>4, <2>1, <2>3 DEF Item
  <2> QED
    BY <2>2, <2>3
<1>6. Good(q, S)
  <2>1. DOMAIN q.members \subseteq MemberIds /\ DOMAIN q.items \subseteq WorkItems
    BY <1>3, <1>4 DEF Good
  <2>2. q.items \in [DOMAIN q.items -> Item(DOMAIN q.members)]
    BY <1>4, <1>5
  <2>3. q.members \in [DOMAIN q.members -> [team : S, code : Codes]]
    BY <1>3 DEF Good
  <2>4. AskedOK(q)
    BY <1>2 DEF Good, AskedOK
  <2> QED
    BY <1>2, <2>1, <2>2, <2>3, <2>4 DEF Good
<1> QED
  BY <1>2, <1>4, <1>6

LEMMA RestrictedGood ==
    ASSUME NEW r, NEW S, NEW removed, Good(r, S)
    PROVE  Good(Restricted(r, removed), S)
BY LeftRows DEF Restricted

(* The team a relinked name becomes. *)
To(f, t) == IF t \in DOMAIN f THEN f[t] ELSE t

(* q is r with the names changed. *)
Renames(q, r, f) ==
    /\ DOMAIN q = Fields
    /\ q.owner = [i \in Initiatives |-> To(f, r.owner[i])]
    /\ q.executor = [i \in Initiatives |-> To(f, r.executor[i])]
    /\ q.asked = r.asked
    /\ q.goals = [g \in DOMAIN r.goals |-> To(f, r.goals[g])]
    /\ q.risks = [k \in DOMAIN r.risks |-> To(f, r.risks[k])]
    /\ q.members = [m \in DOMAIN r.members |->
           [team |-> To(f, r.members[m].team), code |-> r.members[m].code]]
    /\ q.items = r.items

LEMMA RelinkedRows ==
    ASSUME NEW r, NEW S, NEW f, NEW q, Good(r, S), q = Relinked(r, f)
    PROVE  Renames(q, r, f)
<1> DEFINE new == [m \in DOMAIN r.members |->
                      [r.members[m] EXCEPT !.team = To(f, r.members[m].team)]]
<1>1. /\ DOMAIN q = Fields
      /\ q.owner = [i \in Initiatives |-> To(f, r.owner[i])]
      /\ q.executor = [i \in Initiatives |-> To(f, r.executor[i])]
      /\ q.asked = r.asked
      /\ q.goals = [g \in DOMAIN r.goals |-> To(f, r.goals[g])]
      /\ q.risks = [k \in DOMAIN r.risks |-> To(f, r.risks[k])]
      /\ q.members = new /\ q.items = r.items
  BY DEF Relinked, To, Good, Fields
<1>2. ASSUME NEW m \in DOMAIN r.members
      PROVE  new[m] = [team |-> To(f, r.members[m].team), code |-> r.members[m].code]
  <2>1. r.members[m] \in [team : S, code : Codes]
    BY DEF Good
  <2> QED
    BY <2>1
<1> QED
  BY <1>1, <1>2 DEF Renames

(* Relinking takes every name to its image. *)
LEMMA RenamesGood ==
    ASSUME NEW q, NEW r, NEW S, NEW T, NEW f, Good(r, S), None \notin DOMAIN f,
           None \notin S, None \notin T, \A t \in S : To(f, t) \in T, Renames(q, r, f)
    PROVE  Good(q, T)
<1>0. To(f, None) = None
  BY DEF To
<1>1. q.owner \in [Initiatives -> T \cup {None}] /\ q.executor \in [Initiatives -> T \cup {None}]
  BY <1>0 DEF Good, Renames
<1>2. q.goals \in [DOMAIN q.goals -> T \cup {None}] /\ q.risks \in [DOMAIN q.risks -> T \cup {None}]
  BY <1>0 DEF Good, Renames
<1>3. ASSUME NEW m \in DOMAIN r.members
      PROVE  [team |-> To(f, r.members[m].team), code |-> r.members[m].code]
                 \in [team : T, code : Codes]
  BY DEF Good
<1>4. q.members \in [DOMAIN q.members -> [team : T, code : Codes]]
  BY <1>3 DEF Renames
<1>5. AskedOK(q)
  <2> SUFFICES ASSUME NEW i \in Initiatives, q.executor[i] = None
               PROVE  q.asked[i] = {}
    BY DEF Good, Renames, AskedOK
  <2>1. r.executor[i] \in S \cup {None} /\ q.executor[i] = To(f, r.executor[i])
    BY DEF Good, Renames
  <2>2. r.executor[i] = None
    BY <2>1
  <2> QED
    BY <2>2 DEF Good, Renames, AskedOK
<1> QED
  BY <1>1, <1>2, <1>4, <1>5 DEF Good, Renames

LEMMA RelinkedGood ==
    ASSUME NEW r, NEW S, NEW T, NEW f, Good(r, S), None \notin DOMAIN f,
           None \notin S, None \notin T,
           \A t \in S : To(f, t) \in T
    PROVE  Good(Relinked(r, f), T)
BY RelinkedRows, RenamesGood

(* q is r without the teams of gone and with what they take along gone. *)
Drops(q, r, gone) ==
    /\ DOMAIN q = Fields
    /\ q.owner = [i \in Initiatives |-> IF r.owner[i] \in gone THEN None ELSE r.owner[i]]
    /\ q.executor = [i \in Initiatives |-> IF r.executor[i] \in gone THEN None ELSE r.executor[i]]
    /\ q.asked = [i \in Initiatives |-> IF r.executor[i] \in gone THEN {} ELSE r.asked[i]]
    /\ q.goals = Except(r.goals, At(r.goals, gone))
    /\ q.risks = Except(r.risks, At(r.risks, gone))
    /\ q.members = Except(r.members, MembersOf(r, gone))
    /\ DOMAIN q.items = DOMAIN r.items \ ItemsOf(r, At(r.executor, gone))
    /\ \A w \in DOMAIN q.items :
           q.items[w] = IF r.items[w].assignee \in MembersOf(r, gone)
                        THEN [r.items[w] EXCEPT !.assignee = None] ELSE r.items[w]
    /\ DOMAIN q.items \subseteq WorkItems
    /\ q.items \in [DOMAIN q.items -> Item(DOMAIN q.members)]

LEMMA DroppedRows ==
    ASSUME NEW r, NEW S, NEW gone, NEW q, Good(r, S), q = Dropped(r, gone)
    PROVE  Drops(q, r, gone)
<1> DEFINE orphans == At(r.executor, gone)
           left == WithoutItems(WithoutMembers(r, MembersOf(r, gone)), ItemsOf(r, orphans))
           owner == [i \in Initiatives |-> IF r.owner[i] \in gone THEN None ELSE r.owner[i]]
           executor == [i \in Initiatives |-> IF i \in orphans THEN None ELSE r.executor[i]]
           asked == [i \in Initiatives |-> IF i \in orphans THEN {} ELSE r.asked[i]]
           goals == Except(r.goals, At(r.goals, gone))
           risks == Except(r.risks, At(r.risks, gone))
<1>1. /\ executor = [i \in Initiatives |->
                         IF r.executor[i] \in gone THEN None ELSE r.executor[i]]
      /\ asked = [i \in Initiatives |-> IF r.executor[i] \in gone THEN {} ELSE r.asked[i]]
  BY DEF Good, At
<1>2. q = [left EXCEPT !.owner = owner, !.executor = executor, !.asked = asked,
                       !.goals = goals, !.risks = risks]
  BY DEF Dropped
<1>3. /\ DOMAIN left = Fields /\ left.members = Except(r.members, MembersOf(r, gone))
      /\ DOMAIN left.items = DOMAIN r.items \ ItemsOf(r, orphans)
      /\ \A w \in DOMAIN left.items :
             left.items[w] = IF r.items[w].assignee \in MembersOf(r, gone)
                             THEN [r.items[w] EXCEPT !.assignee = None] ELSE r.items[w]
      /\ Good(left, S)
  <2> DEFINE M == MembersOf(r, gone)
             W == ItemsOf(r, orphans)
  <2>1. left = WithoutItems(WithoutMembers(r, M), W)
    OBVIOUS
  <2> HIDE DEF left, M, W
  <2>2. /\ DOMAIN left = Fields /\ left.members = Except(r.members, M)
        /\ DOMAIN left.items = DOMAIN r.items \ W
        /\ \A w \in DOMAIN left.items :
               left.items[w] = IF r.items[w].assignee \in M
                               THEN [r.items[w] EXCEPT !.assignee = None] ELSE r.items[w]
        /\ Good(left, S)
    BY <2>1, LeftRows
  <2> QED
    BY <2>2 DEF M, W
<1> HIDE DEF left, owner, executor, asked, goals, risks, orphans
<1>4. /\ DOMAIN q = Fields /\ q.owner = owner /\ q.executor = executor /\ q.asked = asked
      /\ q.goals = goals /\ q.risks = risks
      /\ q.members = left.members /\ q.items = left.items
  BY <1>2, <1>3 DEF Fields
<1>5. DOMAIN q.items \subseteq WorkItems /\ q.items \in [DOMAIN q.items -> Item(DOMAIN q.members)]
  BY <1>3, <1>4 DEF Good
<1> QED
  BY <1>1, <1>3, <1>4, <1>5 DEF Drops, owner, executor, asked, goals, risks, orphans

(* Deleted teams are named no more. *)
LEMMA DroppedGood ==
    ASSUME NEW r, NEW S, NEW gone, Good(r, S), None \notin gone, None \notin S
    PROVE  Good(Dropped(r, gone), S \ gone)
<1> DEFINE q == Dropped(r, gone)
           T == S \ gone
<1>1. Drops(q, r, gone)
  BY DroppedRows
<1> HIDE DEF q
<1> USE DEF Drops
<1>2. q.owner \in [Initiatives -> T \cup {None}] /\ q.executor \in [Initiatives -> T \cup {None}]
  BY <1>1 DEF Good
<1>3. /\ DOMAIN q.goals \subseteq GoalIds /\ q.goals \in [DOMAIN q.goals -> T \cup {None}]
      /\ DOMAIN q.risks \subseteq RiskIds /\ q.risks \in [DOMAIN q.risks -> T \cup {None}]
  BY <1>1 DEF Good, At, Except
<1>4. /\ DOMAIN q.members \subseteq MemberIds
      /\ q.members \in [DOMAIN q.members -> [team : T, code : Codes]]
  BY <1>1 DEF Good, MembersOf, Except
<1>5. AskedOK(q)
  <2>1. \A i \in Initiatives : q.asked[i] \in {{}, r.asked[i]}
    BY <1>1
  <2>2. ASSUME NEW i \in Initiatives, q.executor[i] = None
        PROVE  q.asked[i] = {}
    <3>1. CASE r.executor[i] \in gone
      BY <1>1, <3>1
    <3>2. CASE r.executor[i] \notin gone
      BY <1>1, <2>2, <3>2 DEF Good, AskedOK
    <3> QED
      BY <3>1, <3>2
  <2> QED
    BY <1>1, <2>1, <2>2 DEF Good, AskedOK
<1>6. Good(q, T)
  BY <1>1, <1>2, <1>3, <1>4, <1>5 DEF Good
<1> QED
  BY <1>6 DEF q

(* By way of the temporary teams each name reaches the team its row became. *)
LEMMA MovedRows ==
    ASSUME NEW r, NEW f, NEW q, Good(r, DOMAIN f), DOMAIN f \subseteq Teams, q = Moved(r, f)
    PROVE  Renames(q, r, f)
<1> DEFINE changed == {t \in DOMAIN f : f[t] # t}
           temporary == {<<t>> : t \in changed}
           park == [t \in changed |-> <<t>>]
           unpark == [x \in temporary |-> f[x[1]]]
           p == Relinked(r, park)
           S == (DOMAIN f \ changed) \cup temporary
<1>0. q = Relinked(p, unpark)
  BY DEF Moved
<1>1. \A t \in DOMAIN f : To(park, t) \in S
  BY DEF To
<1>2. \A t \in DOMAIN f \cup {None} : To(unpark, To(park, t)) = To(f, t)
  <2> SUFFICES ASSUME NEW t \in DOMAIN f \cup {None}
               PROVE  To(unpark, To(park, t)) = To(f, t)
    OBVIOUS
  <2>1. CASE t \in changed
    <3>1. To(park, t) = <<t>> /\ <<t>> \in temporary
      BY <2>1 DEF To
    <3>2. To(unpark, <<t>>) = f[t]
      BY <3>1 DEF To
    <3> QED
      BY <2>1, <3>1, <3>2 DEF To
  <2>2. CASE t \notin changed
    <3>1. To(park, t) = t
      BY <2>2 DEF To
    <3>2. t \notin temporary
      BY CycleRosterAssumption
    <3>3. To(unpark, t) = t
      BY <3>2 DEF To
    <3>4. To(f, t) = t
      BY <2>2 DEF To
    <3> QED
      BY <3>1, <3>3, <3>4
  <2> QED
    BY <2>1, <2>2
<1>3. None \notin DOMAIN park /\ None \notin DOMAIN f /\ None \notin S
  BY CycleRosterAssumption
<1> HIDE DEF park, unpark, S, p
<1>4. Renames(p, r, park)
  BY RelinkedRows DEF p
<1>5. Good(p, S)
  BY <1>1, <1>3, <1>4, RenamesGood
<1>6. Renames(q, p, unpark)
  BY <1>0, <1>5, RelinkedRows
<1>7. /\ \A i \in Initiatives :
             r.owner[i] \in DOMAIN f \cup {None} /\ r.executor[i] \in DOMAIN f \cup {None}
      /\ \A g \in DOMAIN r.goals : r.goals[g] \in DOMAIN f \cup {None}
      /\ \A k \in DOMAIN r.risks : r.risks[k] \in DOMAIN f \cup {None}
      /\ \A m \in DOMAIN r.members : r.members[m].team \in DOMAIN f
  BY DEF Good
<1>8. \A i \in Initiatives : /\ q.owner[i] = To(f, r.owner[i])
                             /\ q.executor[i] = To(f, r.executor[i])
  BY <1>2, <1>4, <1>6, <1>7 DEF Renames
<1>9. /\ DOMAIN q.goals = DOMAIN r.goals /\ DOMAIN q.risks = DOMAIN r.risks
      /\ \A g \in DOMAIN r.goals : q.goals[g] = To(f, r.goals[g])
      /\ \A k \in DOMAIN r.risks : q.risks[k] = To(f, r.risks[k])
  BY <1>2, <1>4, <1>6, <1>7 DEF Renames
<1>10. /\ DOMAIN q.members = DOMAIN r.members
       /\ \A m \in DOMAIN r.members :
              q.members[m] = [team |-> To(f, r.members[m].team), code |-> r.members[m].code]
  BY <1>2, <1>4, <1>6, <1>7 DEF Renames
<1> QED
  BY <1>4, <1>6, <1>8, <1>9, <1>10 DEF Renames

(* Each kept row takes the names of its team to its new one. *)
LEMMA MovedGood ==
    ASSUME NEW r, NEW f, NEW T, Good(r, DOMAIN f), DOMAIN f \subseteq Teams,
           T \subseteq Teams, \A t \in DOMAIN f : f[t] \in T
    PROVE  Good(Moved(r, f), T)
<1>1. Renames(Moved(r, f), r, f)
  BY MovedRows
<1>2. None \notin DOMAIN f /\ None \notin T /\ \A t \in DOMAIN f : To(f, t) \in T
  BY CycleRosterAssumption DEF To
<1> QED
  BY <1>1, <1>2, RenamesGood

-----------------------------------------------------------------------------
(* A command that leaves the roster and gives refs a value good for it. *)
LEMMA SameRoster ==
    ASSUME IInv, UNCHANGED roster, Good(refs', DOMAIN roster)
    PROVE  IInv'
<1>1. Good(refs', DOMAIN roster')
  OBVIOUS
<1> QED
  BY <1>1 DEF IInv, RosterOK, Good, Item

LEMMA NewRoster ==
    ASSUME DOMAIN roster' \subseteq Teams, roster' \in [DOMAIN roster' -> CodeSets],
           Good(refs', DOMAIN roster')
    PROVE  IInv'
BY DEF IInv, RosterOK, Good, Item

LEMMA CreateTeamOK ==
    ASSUME IInv, NEW t \in Teams, NEW codes \in CodeSets, CreateTeam(t, codes)
    PROVE  IInv'
<1>1. /\ DOMAIN roster \subseteq DOMAIN roster' /\ DOMAIN roster' \subseteq Teams
      /\ roster' \in [DOMAIN roster' -> CodeSets]
      /\ refs' = refs
  BY DEF CreateTeam, With, IInv, RosterOK
<1>2. Good(refs', DOMAIN roster')
  BY <1>1, GoodGrows DEF IInv
<1> QED
  BY <1>1, <1>2, NewRoster

(* What an update relinks is good for the roster after it. *)
LEMMA UpdateTeamMoves ==
    ASSUME IInv, NEW t \in DOMAIN roster, NEW target, NEW moved,
           moved = IF target = t THEN refs ELSE Relinked(refs, [x \in {t} |-> target]),
           target \in Teams
    PROVE  /\ Good(moved, (DOMAIN roster \ {t}) \cup {target})
           /\ Renames(moved, refs, [x \in {t} |-> target])
<1> DEFINE f == [x \in {t} |-> target]
           T == (DOMAIN roster \ {t}) \cup {target}
<1>1. /\ None \notin DOMAIN f /\ None \notin DOMAIN roster /\ None \notin T
      /\ \A x \in DOMAIN roster : To(f, x) \in T
  BY CycleRosterAssumption DEF To, IInv, RosterOK
<1>2. CASE target = t
  <2>1. \A x : To(f, x) = x
    BY <1>2 DEF To
  <2> HIDE DEF f
  <2>2. moved = refs /\ DOMAIN roster = T
    BY <1>2
  <2>3. \A m \in DOMAIN refs.members :
            refs.members[m] = [team |-> refs.members[m].team, code |-> refs.members[m].code]
    BY DEF IInv, Good
  <2>4. refs.members = [m \in DOMAIN refs.members |->
            [team |-> refs.members[m].team, code |-> refs.members[m].code]]
    BY <2>3 DEF IInv, Good
  <2>5. Renames(moved, refs, f)
    BY <2>1, <2>2, <2>4 DEF Renames, IInv, Good
  <2> QED
    BY <2>2, <2>5 DEF IInv, f
<1>3. CASE target # t
  <2> HIDE DEF f, T
  <2>1. moved = Relinked(refs, f)
    BY <1>3 DEF f
  <2> QED
    BY <1>1, <2>1, RelinkedRows, RelinkedGood DEF IInv, f, T
<1> QED
  BY <1>2, <1>3

LEMMA UpdateTeamOK ==
    ASSUME IInv, NEW t, NEW target \in Teams, NEW codes \in CodeSets, NEW confirm,
           UpdateTeam(t, target, codes, confirm)
    PROVE  IInv'
<1> DEFINE moved == IF target = t THEN refs ELSE Relinked(refs, [x \in {t} |-> target])
           removed == [x \in Teams |-> IF x = target THEN roster[t] \ codes ELSE {}]
           T == (DOMAIN roster \ {t}) \cup {target}
<1>1. /\ DOMAIN roster' = T /\ t \in DOMAIN roster
      /\ roster' \in [T -> CodeSets]
  BY DEF UpdateTeam, With, Except, IInv, RosterOK
<1>2. T \subseteq Teams
  BY DEF IInv, RosterOK
<1>3. refs' = Restricted(moved, removed)
  BY DEF UpdateTeam
<1>4. Good(moved, T)
  BY <1>1, UpdateTeamMoves
<1> HIDE DEF moved, removed, T
<1> QED
  BY <1>1, <1>2, <1>3, <1>4, RestrictedGood, NewRoster

LEMMA DeleteTeamOK ==
    ASSUME IInv, NEW t \in Teams, NEW confirm, DeleteTeam(t, confirm)
    PROVE  IInv'
<1>1. None \notin {t} /\ None \notin DOMAIN roster
  BY CycleRosterAssumption DEF IInv, RosterOK
<1>2. Good(refs', DOMAIN roster \ {t})
  BY <1>1, DroppedGood DEF DeleteTeam, IInv
<1>3. /\ DOMAIN roster' = DOMAIN roster \ {t} /\ DOMAIN roster' \subseteq Teams
      /\ roster' \in [DOMAIN roster' -> CodeSets]
  BY DEF DeleteTeam, Except, IInv, RosterOK
<1> QED
  BY <1>2, <1>3, NewRoster

LEMMA SetupOK ==
    ASSUME IInv, NEW new \in Rosters, Setup(new)
    PROVE  IInv'
<1> DEFINE gone == Teams \ DOMAIN new
           M == MembersOf(refs, gone)
           left == WithoutMembers(refs, M)
           owner == [i \in Initiatives |-> IF refs.owner[i] \in gone THEN None ELSE refs.owner[i]]
           executor == [i \in Initiatives |->
                           IF refs.executor[i] \in gone THEN None ELSE refs.executor[i]]
           asked == [i \in Initiatives |->
                        IF refs.executor[i] \in gone THEN {} ELSE refs.asked[i]]
           goals == IF new = Empty THEN Empty ELSE Except(refs.goals, At(refs.goals, gone))
           risks == Except(refs.risks, At(refs.risks, gone))
           T == DOMAIN new
<1>0. /\ Good(refs, DOMAIN roster) /\ DOMAIN roster \ gone \subseteq T
      /\ DOMAIN roster \subseteq Teams
      /\ T \subseteq Teams /\ new \in [T -> CodeSets]
  BY DEF IInv, RosterOK, Rosters
<1>1. /\ refs' = [left EXCEPT !.owner = owner, !.executor = executor, !.asked = asked,
                             !.goals = goals, !.risks = risks]
      /\ roster' = new
  BY DEF Setup
<1>2. /\ DOMAIN left = Fields /\ left.members = Except(refs.members, M)
      /\ DOMAIN left.items \subseteq WorkItems
      /\ left.items \in [DOMAIN left.items -> Item(DOMAIN left.members)]
  <2> HIDE DEF M
  <2> DEFINE q == WithoutItems(left, {})
  <2>1. q.members = Except(refs.members, M) /\ Good(q, DOMAIN roster)
    BY <1>0, LeftRows
  <2>2. DOMAIN left = Fields /\ left.members = Except(refs.members, M)
    BY <1>0 DEF Good, WithoutMembers, Fields
  <2>3. left.items = [w \in DOMAIN left.items |-> left.items[w]]
    BY <1>0 DEF Good, WithoutMembers, Fields
  <2> HIDE DEF left
  <2>4. left.items = q.items
    BY <2>2, <2>3 DEF WithoutItems, Except, Fields
  <2> QED
    BY <2>1, <2>2, <2>4 DEF Good
<1> HIDE DEF left
<1>3. owner \in [Initiatives -> T \cup {None}] /\ executor \in [Initiatives -> T \cup {None}]
  BY <1>0 DEF Good
<1>4. /\ DOMAIN goals \subseteq GoalIds /\ goals \in [DOMAIN goals -> T \cup {None}]
      /\ DOMAIN risks \subseteq RiskIds /\ risks \in [DOMAIN risks -> T \cup {None}]
  BY <1>0 DEF Good, At, Except, Empty
<1>5. /\ DOMAIN left.members \subseteq MemberIds
      /\ left.members \in [DOMAIN left.members -> [team : T, code : Codes]]
  BY <1>0, <1>2 DEF Good, MembersOf, Except
<1>8. /\ asked \in [Initiatives -> SUBSET Teams]
      /\ \A i \in Initiatives : executor[i] = None => asked[i] = {}
  <2>1. asked \in [Initiatives -> SUBSET Teams]
    BY <1>0 DEF Good, AskedOK
  <2>2. ASSUME NEW i \in Initiatives, executor[i] = None
        PROVE  asked[i] = {}
    <3>1. CASE refs.executor[i] \in gone
      BY <3>1
    <3>2. CASE refs.executor[i] \notin gone
      BY <1>0, <2>2, <3>2 DEF Good, AskedOK
    <3> QED
      BY <3>1, <3>2
  <2> QED
    BY <2>1, <2>2
<1> HIDE DEF owner, executor, asked, goals, risks
<1>6. /\ DOMAIN refs' = Fields /\ refs'.owner = owner /\ refs'.executor = executor
      /\ refs'.asked = asked
      /\ refs'.members = left.members /\ refs'.items = left.items
      /\ refs'.goals = goals /\ refs'.risks = risks
  BY <1>1, <1>2 DEF Fields
<1>7. Good(refs', T)
  BY <1>2, <1>3, <1>4, <1>5, <1>6, <1>8 DEF Good, AskedOK
<1> QED
  BY <1>0, <1>1, <1>7, NewRoster

(* What the bulk PUT drops, it drops for good; the names of what is kept end *)
(* at the kept rows' new teams.                                              *)
LEMMA ReplaceDataMoves ==
    ASSUME IInv, NEW kept, NEW new \in Rosters, NEW confirm, ReplaceData(kept, new, confirm),
           NEW gone, gone = DOMAIN roster \ DOMAIN kept
    PROVE  /\ Good(Dropped(refs, gone), DOMAIN kept)
           /\ Renames(Moved(Dropped(refs, gone), kept), Dropped(refs, gone), kept)
           /\ Good(Moved(Dropped(refs, gone), kept), DOMAIN new)
<1>1. /\ DOMAIN kept \subseteq DOMAIN roster /\ DOMAIN roster \subseteq Teams
      /\ \A t \in DOMAIN kept : kept[t] \in DOMAIN new
  BY DEF ReplaceData, IInv, RosterOK
<1>2. /\ None \notin gone /\ None \notin DOMAIN roster /\ DOMAIN roster \ gone = DOMAIN kept
      /\ DOMAIN new \subseteq Teams
  BY <1>1, CycleRosterAssumption DEF Rosters
<1>3. Good(Dropped(refs, gone), DOMAIN kept)
  BY <1>2, DroppedGood DEF IInv
<1> QED
  BY <1>1, <1>2, <1>3, MovedRows, MovedGood

LEMMA ReplaceDataOK ==
    ASSUME IInv, NEW kept, NEW new \in Rosters, NEW confirm, ReplaceData(kept, new, confirm)
    PROVE  IInv'
<1> DEFINE gone == DOMAIN roster \ DOMAIN kept
           moved == Moved(Dropped(refs, gone), kept)
<1>1. roster' = new /\ DOMAIN new \subseteq Teams /\ new \in [DOMAIN new -> CodeSets]
  BY DEF ReplaceData, Rosters
<1>2. PICK removed : refs' = Restricted(moved, removed)
  BY DEF ReplaceData
<1>3. Good(moved, DOMAIN new)
  BY ReplaceDataMoves
<1> HIDE DEF moved
<1> QED
  BY <1>1, <1>2, <1>3, RestrictedGood, NewRoster

-----------------------------------------------------------------------------
(* The commands that leave the roster alone check the team they name. *)
LEMMA TablesGood ==
    ASSUME IInv, NEW owner, NEW executor, NEW asked,
           owner \in [Initiatives -> DOMAIN roster \cup {None}],
           executor \in [Initiatives -> DOMAIN roster \cup {None}],
           asked \in [Initiatives -> SUBSET Teams],
           \A j \in Initiatives : executor[j] = None => asked[j] = {}
    PROVE  Good([refs EXCEPT !.owner = owner, !.executor = executor, !.asked = asked],
                DOMAIN roster)
<1> DEFINE q == [refs EXCEPT !.owner = owner, !.executor = executor, !.asked = asked]
<1>1. /\ DOMAIN q = Fields /\ q.owner = owner /\ q.executor = executor /\ q.asked = asked
      /\ q.members = refs.members /\ q.items = refs.items
      /\ q.goals = refs.goals /\ q.risks = refs.risks
  BY DEF IInv, Good, Fields
<1> HIDE DEF q
<1>2. Good(q, DOMAIN roster)
  BY <1>1 DEF IInv, Good, AskedOK
<1> QED
  BY <1>2 DEF q

LEMMA InitiativeCommandOK ==
    ASSUME IInv, InitiativeCommand
    PROVE  IInv'
<1> USE DEF IInv
<1>0. AskedOK(refs)
  BY DEF Good
<1>1. ASSUME NEW i \in Initiatives, NEW t, SetOwner(i, t)
      PROVE  IInv'
  <2>1. Good(refs', DOMAIN roster) /\ roster' = roster
    BY <1>1 DEF SetOwner, Good, Fields, AskedOK
  <2> QED
    BY <2>1, SameRoster
<1>6. ASSUME NEW i \in Initiatives, NEW t, SetExecutor(i, t)
      PROVE  IInv'
  <2> DEFINE executor == [refs.executor EXCEPT ![i] = t]
             asked == [refs.asked EXCEPT ![i] = IF t = None THEN {} ELSE @]
  <2>1. roster' = roster /\ executor \in [Initiatives -> DOMAIN roster \cup {None}]
    BY <1>6 DEF SetExecutor, Good
  <2>2. asked \in [Initiatives -> SUBSET Teams]
    BY <1>0 DEF AskedOK
  <2>3. \A j \in Initiatives : executor[j] = None => asked[j] = {}
    BY <1>0 DEF Good, AskedOK
  <2>4. refs' = [refs EXCEPT !.owner = refs.owner, !.executor = executor, !.asked = asked]
    BY <1>6 DEF SetExecutor, Good, Fields
  <2> HIDE DEF executor, asked, IInv
  <2>5. refs.owner \in [Initiatives -> DOMAIN roster \cup {None}]
    BY DEF IInv, Good
  <2>6. Good(refs', DOMAIN roster)
    BY <2>1, <2>2, <2>3, <2>4, <2>5, TablesGood
  <2> QED
    BY <2>1, <2>6, SameRoster
<1>7. ASSUME NEW i \in Initiatives, NEW S \in SUBSET Teams, NEW targets, Ask(i, S, targets)
      PROVE  IInv'
  <2> DEFINE owner == [j \in Initiatives |->
                          IF j \in DOMAIN targets THEN refs.owner[i] ELSE refs.owner[j]]
             executor == [j \in Initiatives |->
                             IF j \in DOMAIN targets THEN targets[j] ELSE refs.executor[j]]
             asked == [refs.asked EXCEPT ![i] = S]
  <2>1. /\ roster' = roster /\ DOMAIN roster \subseteq Teams
        /\ refs.executor[i] \in DOMAIN roster /\ S \subseteq DOMAIN roster
        /\ \A j \in DOMAIN targets : j # i /\ targets[j] \in S
    BY <1>7 DEF Ask, RosterOK
  <2>2. owner \in [Initiatives -> DOMAIN roster \cup {None}]
    BY DEF Good
  <2>3. executor \in [Initiatives -> DOMAIN roster \cup {None}]
    BY <2>1 DEF Good
  <2>4. asked \in [Initiatives -> SUBSET Teams]
    BY <1>0 DEF AskedOK
  <2>5. ASSUME NEW j \in Initiatives, executor[j] = None
        PROVE  asked[j] = {}
    <3>1. None \notin DOMAIN roster
      BY <2>1, CycleRosterAssumption
    <3>2. j \notin DOMAIN targets
      BY <2>1, <2>5, <3>1
    <3>3. refs.executor[j] = None
      BY <2>5, <3>2
    <3>4. j # i
      BY <2>1, <3>1, <3>3
    <3> QED
      BY <1>0, <3>3, <3>4 DEF AskedOK
  <2>6. refs' = [refs EXCEPT !.owner = owner, !.executor = executor, !.asked = asked]
    BY <1>7 DEF Ask, Good, Fields
  <2> HIDE DEF owner, executor, asked, IInv
  <2>7. Good(refs', DOMAIN roster)
    BY <2>2, <2>3, <2>4, <2>5, <2>6, TablesGood
  <2> QED
    BY <2>1, <2>7, SameRoster
<1>2. ASSUME NEW new, roster' = roster, DOMAIN new \subseteq WorkItems,
             new \in [DOMAIN new -> Item(DOMAIN refs.members)],
             refs' = [refs EXCEPT !.items = new]
      PROVE  IInv'
  <2>1. Good(refs', DOMAIN roster)
    BY <1>2 DEF Good, Fields, AskedOK
  <2> QED
    BY <1>2, <2>1, SameRoster
<1>3. ASSUME NEW w \in WorkItems, NEW i \in Initiatives, NEW code \in Codes,
             NEW m, CreateItem(w, i, code, m)
      PROVE  IInv'
  <2> DEFINE new == With(refs.items, w, [of |-> i, code |-> code, assignee |-> m])
  <2>1. m \in DOMAIN refs.members \cup {None}
    BY <1>3 DEF CreateItem, Assignable
  <2>2. DOMAIN new \subseteq WorkItems /\ new \in [DOMAIN new -> Item(DOMAIN refs.members)]
    BY <2>1 DEF With, Good, Item
  <2>3. refs' = [refs EXCEPT !.items = new] /\ roster' = roster
    BY <1>3 DEF CreateItem, Good, Fields
  <2> HIDE DEF new
  <2> QED
    BY <1>2, <2>2, <2>3
<1>4. ASSUME NEW w, NEW code \in Codes, NEW m, AssignItem(w, code, m)
      PROVE  IInv'
  <2> DEFINE new == [refs.items EXCEPT ![w].code = code, ![w].assignee = m]
  <2>1. m \in DOMAIN refs.members \cup {None}
    BY <1>4 DEF AssignItem, Assignable
  <2>2. DOMAIN new = DOMAIN refs.items
    OBVIOUS
  <2>3. new \in [DOMAIN refs.items -> Item(DOMAIN refs.members)]
    BY <2>1 DEF Good, Item
  <2>4. refs' = [refs EXCEPT !.items = new] /\ roster' = roster
    BY <1>4 DEF AssignItem, Good, Fields
  <2> HIDE DEF new
  <2> QED
    BY <1>2, <2>2, <2>3, <2>4 DEF Good
<1>5. ASSUME NEW w, DeleteItem(w)
      PROVE  IInv'
  <2>1. refs' = [refs EXCEPT !.items = Except(refs.items, {w})] /\ roster' = roster
    BY <1>5 DEF DeleteItem, WithoutItems
  <2>2. /\ DOMAIN Except(refs.items, {w}) \subseteq WorkItems
        /\ Except(refs.items, {w})
               \in [DOMAIN Except(refs.items, {w}) -> Item(DOMAIN refs.members)]
    BY DEF Except, Good
  <2> QED
    BY <1>2, <2>1, <2>2
<1> QED
  BY <1>1, <1>3, <1>4, <1>5, <1>6, <1>7 DEF InitiativeCommand

LEMMA CapacityCommandOK ==
    ASSUME IInv, CapacityCommand
    PROVE  IInv'
<1> USE DEF IInv
<1>1. ASSUME NEW new, roster' = roster, DOMAIN refs.members \subseteq DOMAIN new,
             DOMAIN new \subseteq MemberIds,
             new \in [DOMAIN new -> [team : DOMAIN roster, code : Codes]],
             refs' = [refs EXCEPT !.members = new]
      PROVE  IInv'
  <2>1. Good(refs', DOMAIN roster)
    BY <1>1 DEF Good, Fields, Item, AskedOK
  <2> QED
    BY <1>1, <2>1, SameRoster
<1>2. ASSUME NEW m \in MemberIds, NEW t, NEW code \in Codes, CreateMember(m, t, code)
      PROVE  IInv'
  <2> DEFINE new == With(refs.members, m, [team |-> t, code |-> code])
  <2>1. /\ DOMAIN refs.members \subseteq DOMAIN new /\ DOMAIN new \subseteq MemberIds
        /\ new \in [DOMAIN new -> [team : DOMAIN roster, code : Codes]]
    BY <1>2 DEF CreateMember, With, Good
  <2>2. refs' = [refs EXCEPT !.members = new] /\ roster' = roster
    BY <1>2 DEF CreateMember, Good, Fields
  <2> HIDE DEF new
  <2> QED
    BY <1>1, <2>1, <2>2
<1>3. ASSUME NEW m, NEW code \in Codes, UpdateMember(m, code)
      PROVE  IInv'
  <2> DEFINE new == [refs.members EXCEPT ![m].code = code]
  <2>1. /\ DOMAIN new = DOMAIN refs.members
        /\ new \in [DOMAIN new -> [team : DOMAIN roster, code : Codes]]
    BY DEF Good
  <2>2. refs' = [refs EXCEPT !.members = new] /\ roster' = roster
    BY <1>3 DEF UpdateMember, Good, Fields
  <2> HIDE DEF new
  <2> QED
    BY <1>1, <2>1, <2>2 DEF Good
<1>4. ASSUME NEW gone
      PROVE  /\ Good(WithoutMembers(refs, gone), DOMAIN roster)
             /\ WithoutMembers(refs, gone).members = Except(refs.members, gone)
  <2> DEFINE p == WithoutMembers(refs, gone)
             q == WithoutItems(p, {})
  <2>1. q.members = Except(refs.members, gone) /\ Good(q, DOMAIN roster)
    BY LeftRows
  <2>2. DOMAIN p = Fields /\ p.items = [w \in DOMAIN p.items |-> p.items[w]]
    BY DEF Good, WithoutMembers, Fields
  <2>3. p.members = Except(refs.members, gone)
    BY DEF Good, WithoutMembers, Fields
  <2> HIDE DEF p
  <2>4. /\ q.owner = p.owner /\ q.executor = p.executor /\ q.asked = p.asked
        /\ q.goals = p.goals
        /\ q.risks = p.risks /\ q.members = p.members /\ q.items = p.items
    BY <2>2 DEF WithoutItems, Except, Fields
  <2>5. Good(p, DOMAIN roster)
    BY <2>1, <2>2, <2>4 DEF Good, AskedOK
  <2> QED
    BY <2>3, <2>5 DEF p
<1>5. ASSUME NEW m, NEW confirm, DeleteMember(m, confirm)
      PROVE  IInv'
  BY <1>4, <1>5, SameRoster DEF DeleteMember
<1>6. ASSUME NEW new \in Capacities, ReplaceCapacity(new)
      PROVE  IInv'
  <2> DEFINE gone == DOMAIN refs.members \ DOMAIN new
             left == WithoutMembers(refs, gone)
  <2>1. Good(left, DOMAIN roster) /\ left.members = Except(refs.members, gone)
    BY <1>4
  <2>2. /\ DOMAIN new \subseteq MemberIds /\ DOMAIN left.members \subseteq DOMAIN new
        /\ new \in [DOMAIN new -> [team : DOMAIN roster, code : Codes]]
    <3>1. DOMAIN new \subseteq MemberIds /\ new \in [DOMAIN new -> Member]
      BY <1>6 DEF Capacities
    <3>2. \A x \in DOMAIN new : new[x] \in [team : DOMAIN roster, code : Codes]
      BY <1>6, <3>1 DEF ReplaceCapacity, Member
    <3>3. DOMAIN left.members \subseteq DOMAIN new
      BY <2>1 DEF Except
    <3> QED
      BY <3>1, <3>2, <3>3
  <2>3. refs' = [left EXCEPT !.members = new] /\ roster' = roster
    BY <1>6 DEF ReplaceCapacity
  <2> HIDE DEF left
  <2>4. Good(refs', DOMAIN roster)
    BY <2>1, <2>2, <2>3 DEF Good, Fields, Item, AskedOK
  <2> QED
    BY <2>3, <2>4, SameRoster
<1> QED
  BY <1>2, <1>3, <1>5, <1>6 DEF CapacityCommand

(* Tables of teams: one more row, or one less. *)
LEMMA TableWith ==
    ASSUME NEW X, NEW S, NEW f, DOMAIN f \subseteq X, f \in [DOMAIN f -> S],
           NEW x \in X, NEW t \in S
    PROVE  /\ DOMAIN With(f, x, t) \subseteq X
           /\ With(f, x, t) \in [DOMAIN With(f, x, t) -> S]
BY DEF With

LEMMA TableExcept ==
    ASSUME NEW X, NEW S, NEW f, DOMAIN f \subseteq X, f \in [DOMAIN f -> S], NEW gone
    PROVE  /\ DOMAIN Except(f, gone) \subseteq X
           /\ Except(f, gone) \in [DOMAIN Except(f, gone) -> S]
BY DEF Except

LEMMA GoalCommandOK ==
    ASSUME IInv, GoalCommand \/ RiskCommand
    PROVE  IInv'
<1> USE DEF IInv
<1>1. ASSUME NEW new, roster' = roster, DOMAIN new \subseteq GoalIds,
             new \in [DOMAIN new -> DOMAIN roster \cup {None}],
             refs' = [refs EXCEPT !.goals = new]
      PROVE  IInv'
  <2>1. Good(refs', DOMAIN roster)
    BY <1>1 DEF Good, Fields, AskedOK
  <2> QED
    BY <1>1, <2>1, SameRoster
<1>2. ASSUME NEW new, roster' = roster, DOMAIN new \subseteq RiskIds,
             new \in [DOMAIN new -> DOMAIN roster \cup {None}],
             refs' = [refs EXCEPT !.risks = new]
      PROVE  IInv'
  <2>1. Good(refs', DOMAIN roster)
    BY <1>2 DEF Good, Fields, AskedOK
  <2> QED
    BY <1>2, <2>1, SameRoster
<1>4. /\ DOMAIN refs = Fields
      /\ DOMAIN refs.goals \subseteq GoalIds
      /\ refs.goals \in [DOMAIN refs.goals -> DOMAIN roster \cup {None}]
      /\ DOMAIN refs.risks \subseteq RiskIds
      /\ refs.risks \in [DOMAIN refs.risks -> DOMAIN roster \cup {None}]
  BY DEF Good
<1>5. ASSUME NEW g \in GoalIds, NEW t, SetGoal(g, t)
      PROVE  IInv'
  <2>1. /\ t \in DOMAIN roster \cup {None} /\ roster' = roster
        /\ refs' = [refs EXCEPT !.goals = With(refs.goals, g, t)]
    BY <1>4, <1>5 DEF SetGoal, Fields
  <2> DEFINE new == With(refs.goals, g, t)
  <2>2. DOMAIN new \subseteq GoalIds /\ new \in [DOMAIN new -> DOMAIN roster \cup {None}]
    BY <1>4, <2>1, TableWith
  <2>3. roster' = roster /\ refs' = [refs EXCEPT !.goals = new]
    BY <2>1
  <2> HIDE DEF new
  <2> QED
    BY <1>1, <2>2, <2>3
<1>6. ASSUME NEW g \in GoalIds, DeleteGoal(g)
      PROVE  IInv'
  <2>1. roster' = roster /\ refs' = [refs EXCEPT !.goals = Except(refs.goals, {g})]
    BY <1>4, <1>6 DEF DeleteGoal, Fields
  <2> DEFINE new == Except(refs.goals, {g})
  <2>2. DOMAIN new \subseteq GoalIds /\ new \in [DOMAIN new -> DOMAIN roster \cup {None}]
    BY <1>4, <2>1, TableExcept
  <2>3. roster' = roster /\ refs' = [refs EXCEPT !.goals = new]
    BY <2>1
  <2> HIDE DEF new
  <2> QED
    BY <1>1, <2>2, <2>3
<1>7. ASSUME NEW k \in RiskIds, NEW t, LinkRisk(k, t)
      PROVE  IInv'
  <2>1. /\ t \in DOMAIN roster \cup {None} /\ roster' = roster
        /\ refs' = [refs EXCEPT !.risks = With(refs.risks, k, t)]
    BY <1>4, <1>7 DEF LinkRisk, Fields
  <2> DEFINE new == With(refs.risks, k, t)
  <2>2. DOMAIN new \subseteq RiskIds /\ new \in [DOMAIN new -> DOMAIN roster \cup {None}]
    BY <1>4, <2>1, TableWith
  <2>3. roster' = roster /\ refs' = [refs EXCEPT !.risks = new]
    BY <2>1
  <2> HIDE DEF new
  <2> QED
    BY <1>2, <2>2, <2>3
<1>8. ASSUME NEW k \in RiskIds, DeleteRisk(k)
      PROVE  IInv'
  <2>1. roster' = roster /\ refs' = [refs EXCEPT !.risks = Except(refs.risks, {k})]
    BY <1>4, <1>8 DEF DeleteRisk, Fields
  <2> DEFINE new == Except(refs.risks, {k})
  <2>2. DOMAIN new \subseteq RiskIds /\ new \in [DOMAIN new -> DOMAIN roster \cup {None}]
    BY <1>4, <2>1, TableExcept
  <2>3. roster' = roster /\ refs' = [refs EXCEPT !.risks = new]
    BY <2>1
  <2> HIDE DEF new
  <2> QED
    BY <1>2, <2>2, <2>3
<1>9. ASSUME NEW new \in RiskLists, ReplaceRisks(new)
      PROVE  IInv'
  <2>1. DOMAIN new \subseteq RiskIds /\ new \in [DOMAIN new -> DOMAIN roster \cup {None}]
    BY <1>9 DEF RiskLists, ReplaceRisks
  <2> QED
    BY <1>2, <1>9, <2>1 DEF ReplaceRisks
<1> QED
  BY <1>5, <1>6, <1>7, <1>8, <1>9 DEF GoalCommand, RiskCommand

-----------------------------------------------------------------------------
LEMMA StepOK == IInv /\ [Next]_vars => IInv'
<1> SUFFICES ASSUME IInv, [Next]_vars
             PROVE  IInv'
  OBVIOUS
<1>1. CASE RosterCommand
  BY <1>1, CreateTeamOK, UpdateTeamOK, DeleteTeamOK, SetupOK, ReplaceDataOK DEF RosterCommand
<1>2. CASE UNCHANGED vars
  BY <1>2, SameRoster DEF vars, IInv
<1> QED
  BY <1>1, <1>2, InitiativeCommandOK, CapacityCommandOK, GoalCommandOK DEF Next

LEMMA Invariant == Spec => []IInv
<1>1. Init => IInv
  BY DEF Init, IInv, RosterOK, Good, Empty, Nobody, Fields, AskedOK
<1> QED
  BY <1>1, StepOK, PTL DEF Spec

(* Every team an owner, an executor, a member of the capacity, a goal or a  *)
(* risk names is a team of the cycle, and none is left on a temporary team  *)
(* (_relink_cycle_team, delete_cycle_team).                                 *)
THEOREM NamesStayInCycle == Spec => []RefsInCycle
<1>1. IInv => RefsInCycle
  BY DEF IInv, Good, RefsInCycle, TeamsNamed
<1> QED
  BY <1>1, Invariant, PTL

(* The rows are well formed: a member has a team, and a work item is        *)
(* assigned to nobody or to a member that is still there, whatever deletes  *)
(* the members of teams, of the capacity and of lost competencies.          *)
THEOREM RowsWellFormed == Spec => []TypeOK
<1>1. IInv => TypeOK
  <2> SUFFICES ASSUME IInv
               PROVE  TypeOK
    OBVIOUS
  <2>1. DOMAIN roster \subseteq Teams /\ Good(refs, Teams)
    BY GoodGrows DEF IInv, RosterOK
  <2> QED
    BY <2>1 DEF IInv, RosterOK, TypeOK, Good, Item, Member, AskedOK
<1> QED
  BY <1>1, Invariant, PTL

-----------------------------------------------------------------------------
(* q is r without the members and the work items that lose their competency. *)
Restricts(q, r, removed) ==
    /\ q.owner = r.owner /\ q.executor = r.executor /\ q.asked = r.asked
    /\ q.goals = r.goals /\ q.risks = r.risks
    /\ q.members = Except(r.members, MembersHit(r, removed))
    /\ DOMAIN q.items = DOMAIN r.items \ ItemsHit(r, removed)
    /\ \A w \in DOMAIN q.items :
           q.items[w] = IF r.items[w].assignee \in MembersHit(r, removed)
                        THEN [r.items[w] EXCEPT !.assignee = None] ELSE r.items[w]

LEMMA RestrictedRows ==
    ASSUME NEW r, NEW S, NEW removed, NEW q, Good(r, S), q = Restricted(r, removed)
    PROVE  Restricts(q, r, removed) /\ Good(q, S)
<1> DEFINE M == MembersHit(r, removed)
           W == ItemsHit(r, removed)
<1>1. q = WithoutItems(WithoutMembers(r, M), W)
  BY DEF Restricted
<1> HIDE DEF M, W
<1>2. /\ q.owner = r.owner /\ q.executor = r.executor /\ q.asked = r.asked
      /\ q.goals = r.goals /\ q.risks = r.risks
      /\ q.members = Except(r.members, M)
      /\ DOMAIN q.items = DOMAIN r.items \ W
      /\ \A w \in DOMAIN q.items :
             q.items[w] = IF r.items[w].assignee \in M
                          THEN [r.items[w] EXCEPT !.assignee = None] ELSE r.items[w]
      /\ Good(q, S)
  BY <1>1, LeftRows
<1> QED
  BY <1>2 DEF Restricts, M, W

LEMMA RosterTyped == RosterOK' => roster' \in Rosters
BY DEF RosterOK, Rosters

(* A table whose names were first dropped and then renamed names the new    *)
(* team of a kept row exactly where it named its old one.                   *)
LEMMA NamesFollow ==
    ASSUME NEW kept \in Renamings, NEW t \in DOMAIN kept, NEW gone, t \notin gone,
           NEW X, NEW before, NEW after, DOMAIN before = X, DOMAIN after \subseteq X,
           \A x \in X : /\ x \in DOMAIN after => before[x] \in gone \cup DOMAIN kept \cup {None}
                        /\ before[x] = t => x \in DOMAIN after,
           \A x \in DOMAIN after :
               after[x] = To(kept, IF before[x] \in gone THEN None ELSE before[x])
    PROVE  At(before, {t}) = At(after, {kept[t]})
<1>1. /\ kept[t] # None /\ t # None /\ None \notin DOMAIN kept
      /\ \A u \in DOMAIN kept : kept[u] = kept[t] => u = t
  BY CycleRosterAssumption DEF Renamings
<1>2. ASSUME NEW x \in DOMAIN after, after[x] = kept[t]
      PROVE  before[x] = t
  <2>1. before[x] \notin gone
    BY <1>1, <1>2 DEF To
  <2> QED
    BY <1>1, <1>2, <2>1 DEF To
<1>3. ASSUME NEW x \in X, before[x] = t
      PROVE  x \in DOMAIN after /\ after[x] = kept[t]
  BY <1>1, <1>3 DEF To
<1> QED
  BY <1>2, <1>3 DEF At

(* Nobody asks for another team than before. *)
RequestsStay ==
    \A i \in Initiatives :
        refs.asked'[i] = IF refs.executor'[i] = None THEN {} ELSE refs.asked[i]

LEMMA ReplaceDataTogether ==
    ASSUME IInv, NEW kept \in Renamings, NEW new \in Rosters, NEW confirm,
           ReplaceData(kept, new, confirm), NEW t \in DOMAIN kept
    PROVE  /\ At(refs.owner, {t}) = At(refs.owner', {kept[t]})
           /\ At(refs.executor, {t}) = At(refs.executor', {kept[t]})
           /\ At(refs.goals, {t}) = At(refs.goals', {kept[t]})
           /\ At(refs.risks, {t}) = At(refs.risks', {kept[t]})
           /\ MembersOf(refs', {kept[t]}) \subseteq MembersOf(refs, {t})
<1> DEFINE gone == DOMAIN roster \ DOMAIN kept
           d == Dropped(refs, gone)
           moved == Moved(d, kept)
<1>1. PICK removed : refs' = Restricted(moved, removed)
  BY DEF ReplaceData
<1>2. DOMAIN kept \subseteq DOMAIN roster
  BY DEF ReplaceData
<1>3. Good(d, DOMAIN kept) /\ Renames(moved, d, kept) /\ Good(moved, DOMAIN new)
  BY ReplaceDataMoves
<1>4. Drops(d, refs, gone)
  <2> HIDE DEF gone
  <2> QED
    BY DroppedRows DEF IInv
<1> HIDE DEF d, moved
<1>5. /\ refs'.owner = moved.owner /\ refs'.executor = moved.executor
      /\ refs'.goals = moved.goals /\ refs'.risks = moved.risks
      /\ DOMAIN refs'.members \subseteq DOMAIN moved.members
      /\ \A m \in DOMAIN refs'.members : refs'.members[m] = moved.members[m]
  <2>1. Restricts(refs', moved, removed)
    BY <1>1, <1>3, RestrictedRows
  <2> QED
    BY <2>1 DEF Restricts, Except
<1>6. t \notin gone /\ gone \cup DOMAIN kept = DOMAIN roster
  BY <1>2
<1>7. Good(refs, DOMAIN roster)
  BY DEF IInv
<1> HIDE DEF gone
<1>8. At(refs.owner, {t}) = At(refs'.owner, {kept[t]})
  <2>1. /\ DOMAIN refs.owner = Initiatives /\ DOMAIN refs'.owner = Initiatives
        /\ \A i \in Initiatives : refs.owner[i] \in gone \cup DOMAIN kept \cup {None}
    BY <1>3, <1>5, <1>6, <1>7 DEF Good, Renames
  <2>2. \A i \in Initiatives :
            refs'.owner[i] = To(kept, IF refs.owner[i] \in gone THEN None ELSE refs.owner[i])
    BY <1>3, <1>4, <1>5 DEF Drops, Renames
  <2> QED
    BY <1>6, <2>1, <2>2, NamesFollow
<1>9. At(refs.executor, {t}) = At(refs'.executor, {kept[t]})
  <2>1. /\ DOMAIN refs.executor = Initiatives /\ DOMAIN refs'.executor = Initiatives
        /\ \A i \in Initiatives : refs.executor[i] \in gone \cup DOMAIN kept \cup {None}
    BY <1>3, <1>5, <1>6, <1>7 DEF Good, Renames
  <2>2. \A i \in Initiatives :
            refs'.executor[i]
                = To(kept, IF refs.executor[i] \in gone THEN None ELSE refs.executor[i])
    BY <1>3, <1>4, <1>5 DEF Drops, Renames
  <2> QED
    BY <1>6, <2>1, <2>2, NamesFollow
<1>10. At(refs.goals, {t}) = At(refs'.goals, {kept[t]})
  <2>1. DOMAIN refs'.goals = DOMAIN refs.goals \ At(refs.goals, gone)
    BY <1>3, <1>4, <1>5 DEF Drops, Renames, Except
  <2>2. \A g \in DOMAIN refs'.goals :
            /\ refs.goals[g] \notin gone
            /\ refs'.goals[g] = To(kept, refs.goals[g])
    BY <1>3, <1>4, <1>5, <2>1 DEF Drops, Renames, Except, At
  <2>3. \A g \in DOMAIN refs.goals :
            /\ refs.goals[g] \in gone \cup DOMAIN kept \cup {None}
            /\ refs.goals[g] = t => g \in DOMAIN refs'.goals
    BY <1>6, <1>7, <2>1 DEF Good, At
  <2> QED
    BY <1>6, <2>1, <2>2, <2>3, NamesFollow
<1>11. At(refs.risks, {t}) = At(refs'.risks, {kept[t]})
  <2>1. DOMAIN refs'.risks = DOMAIN refs.risks \ At(refs.risks, gone)
    BY <1>3, <1>4, <1>5 DEF Drops, Renames, Except
  <2>2. \A k \in DOMAIN refs'.risks :
            /\ refs.risks[k] \notin gone
            /\ refs'.risks[k] = To(kept, refs.risks[k])
    BY <1>3, <1>4, <1>5, <2>1 DEF Drops, Renames, Except, At
  <2>3. \A k \in DOMAIN refs.risks :
            /\ refs.risks[k] \in gone \cup DOMAIN kept \cup {None}
            /\ refs.risks[k] = t => k \in DOMAIN refs'.risks
    BY <1>6, <1>7, <2>1 DEF Good, At
  <2> QED
    BY <1>6, <2>1, <2>2, <2>3, NamesFollow
<1>12. MembersOf(refs', {kept[t]}) \subseteq MembersOf(refs, {t})
  <2> SUFFICES ASSUME NEW m \in DOMAIN refs'.members, refs'.members[m].team = kept[t]
               PROVE  m \in DOMAIN refs.members /\ refs.members[m].team = t
    BY DEF MembersOf
  <2>1. m \in DOMAIN d.members /\ To(kept, d.members[m].team) = kept[t]
    <3>1. m \in DOMAIN moved.members /\ moved.members[m].team = kept[t]
      BY <1>5
    <3>2. moved.members = [x \in DOMAIN d.members |->
              [team |-> To(kept, d.members[x].team), code |-> d.members[x].code]]
      BY <1>3 DEF Renames
    <3> QED
      BY <3>1, <3>2
  <2>2. d.members[m].team \in DOMAIN kept
    BY <1>3, <2>1 DEF Good
  <2>3. d.members[m].team = t
    BY <2>1, <2>2 DEF To, Renamings
  <2> QED
    BY <1>4, <2>1, <2>3 DEF Drops, Except
<1> QED
  BY <1>8, <1>9, <1>10, <1>11, <1>12

LEMMA ReplaceDataKeepsRequests ==
    ASSUME IInv, NEW kept \in Renamings, NEW new \in Rosters, NEW confirm,
           ReplaceData(kept, new, confirm)
    PROVE  RequestsStay
<1> DEFINE gone == DOMAIN roster \ DOMAIN kept
           d == Dropped(refs, gone)
           moved == Moved(d, kept)
<1>1. PICK removed : refs' = Restricted(moved, removed)
  BY DEF ReplaceData
<1>2. Good(d, DOMAIN kept) /\ Renames(moved, d, kept) /\ Good(moved, DOMAIN new)
  BY ReplaceDataMoves
<1>3. Drops(d, refs, gone)
  <2> HIDE DEF gone
  <2> QED
    BY DroppedRows DEF IInv
<1>4. None \notin DOMAIN new /\ None \notin DOMAIN kept /\ \A t \in DOMAIN kept : kept[t] # None
  BY CycleRosterAssumption DEF Rosters, Renamings
<1> HIDE DEF d, moved, gone
<1>5. Restricts(refs', moved, removed)
  BY <1>1, <1>2, RestrictedRows
<1>6. refs'.executor = moved.executor /\ refs'.asked = d.asked
  BY <1>2, <1>5 DEF Restricts, Renames
<1> SUFFICES ASSUME NEW i \in Initiatives
             PROVE  refs'.asked[i] = IF refs'.executor[i] = None THEN {} ELSE refs.asked[i]
  BY DEF RequestsStay
<1>7. refs'.executor[i] = To(kept, d.executor[i])
  BY <1>2, <1>6 DEF Renames
<1>8. /\ d.executor[i] = IF refs.executor[i] \in gone THEN None ELSE refs.executor[i]
      /\ refs'.asked[i] = IF refs.executor[i] \in gone THEN {} ELSE refs.asked[i]
  BY <1>3, <1>6 DEF Drops
<1>9. refs'.executor[i] = None <=> d.executor[i] = None
  BY <1>4, <1>7 DEF To
<1>10. CASE refs.executor[i] \in gone
  BY <1>8, <1>9, <1>10
<1>11. CASE refs.executor[i] \notin gone
  <2>1. refs.executor[i] = None => refs.asked[i] = {}
    BY DEF IInv, Good, AskedOK
  <2> QED
    BY <1>8, <1>9, <1>11, <2>1
<1> QED
  BY <1>10, <1>11

(* The step of a bulk PUT of the cycle's data. *)
TogetherStep ==
    \A kept \in Renamings :
        \/ /\ \A t \in DOMAIN kept :
                  /\ At(refs.owner, {t}) = At(refs.owner', {kept[t]})
                  /\ At(refs.executor, {t}) = At(refs.executor', {kept[t]})
                  /\ At(refs.goals, {t}) = At(refs.goals', {kept[t]})
                  /\ At(refs.risks, {t}) = At(refs.risks', {kept[t]})
                  /\ MembersOf(refs', {kept[t]}) \subseteq MembersOf(refs, {t})
           /\ RequestsStay
        \/ ~ ReplaceData(kept, roster', TRUE)

(* A bulk PUT that renames or swaps teams by way of temporary ones moves    *)
(* every name of a kept row's old team in the five tables to its new one,   *)
(* and no other name ends there (_relink_cycle_team); the requests, which   *)
(* nothing relinks, ask for the same team as before.                        *)
THEOREM SwappedTeamsMoveTogether == Spec => RefsMoveTogether
<1>1. IInv /\ IInv' => TogetherStep
  BY RosterTyped, ReplaceDataTogether, ReplaceDataKeepsRequests DEF TogetherStep, IInv
<1>2. IInv /\ [Next]_vars => [TogetherStep]_vars
  BY <1>1, StepOK
<1>3. Spec => [][TogetherStep]_vars
  BY Invariant, <1>2, PTL DEF Spec
<1> QED
  BY <1>3 DEF RefsMoveTogether, TogetherStep, RequestsStay

-----------------------------------------------------------------------------
Same(q, r) ==
    /\ q.owner = r.owner /\ q.executor = r.executor /\ q.asked = r.asked
    /\ q.members = r.members /\ q.items = r.items /\ q.goals = r.goals /\ q.risks = r.risks

(* Where no competency is used that goes, nothing goes. *)
LEMMA RestrictedNothing ==
    ASSUME NEW r, NEW S, NEW removed, NEW q, Good(r, S), q = Restricted(r, removed),
           ~ UsesRemoved(r, removed)
    PROVE  Same(q, r)
<1>1. Restricts(q, r, removed) /\ Good(q, S)
  BY RestrictedRows
<1>2. MembersHit(r, removed) = {} /\ ItemsHit(r, removed) = {}
  BY DEF UsesRemoved
<1>3. q.members = r.members
  BY <1>1, <1>2 DEF Restricts, Except, Good
<1>4. DOMAIN q.items = DOMAIN r.items /\ \A w \in DOMAIN q.items : q.items[w] = r.items[w]
  BY <1>1, <1>2 DEF Restricts
<1>5. q.items = r.items
  BY <1>1, <1>4 DEF Good
<1> QED
  BY <1>1, <1>3, <1>5 DEF Restricts, Same

(* Where nothing names the teams that leave, nothing goes with them. *)
LEMMA DroppedNothing ==
    ASSUME NEW r, NEW S, NEW gone, NEW q, Good(r, S), q = Dropped(r, gone),
           \A t \in gone : ~ Named(r, t)
    PROVE  Same(q, r)
<1>1. /\ At(r.owner, gone) = {} /\ At(r.executor, gone) = {} /\ MembersOf(r, gone) = {}
      /\ At(r.goals, gone) = {} /\ At(r.risks, gone) = {}
  BY DEF Named, At, MembersOf
<1>2. ItemsOf(r, At(r.executor, gone)) = {}
  BY <1>1 DEF ItemsOf
<1>3. Drops(q, r, gone)
  BY DroppedRows
<1> USE DEF Drops
<1>4. q.owner = r.owner /\ q.executor = r.executor /\ q.asked = r.asked
  BY <1>1, <1>3 DEF Good, At, AskedOK
<1>5. q.goals = r.goals /\ q.risks = r.risks /\ q.members = r.members
  BY <1>1, <1>3 DEF Good, Except
<1>6. DOMAIN q.items = DOMAIN r.items /\ \A w \in DOMAIN q.items : q.items[w] = r.items[w]
  BY <1>1, <1>2, <1>3
<1>7. q.items = r.items
  BY <1>3, <1>6 DEF Good
<1> QED
  BY <1>4, <1>5, <1>7 DEF Same

(* A renaming by itself loses nothing. *)
LEMMA RenamingLosesNothing ==
    ASSUME NEW S, Good(refs, S), NEW d, Same(d, refs), NEW q, NEW f, Renames(q, d, f),
           None \notin DOMAIN f, \A t \in DOMAIN f : f[t] # None, Same(refs', q)
    PROVE  NothingLost
<1>1. \A t : To(f, t) = None <=> t = None
  BY DEF To
<1>2. refs'.items = refs.items /\ refs'.asked = refs.asked
  BY DEF Same, Renames
<1>3. DOMAIN refs'.members = DOMAIN refs.members
  BY DEF Same, Renames
<1>4. DOMAIN refs'.goals = DOMAIN refs.goals /\ DOMAIN refs'.risks = DOMAIN refs.risks
  BY DEF Same, Renames
<1>5. /\ refs'.owner = [i \in Initiatives |-> To(f, refs.owner[i])]
      /\ refs'.executor = [i \in Initiatives |-> To(f, refs.executor[i])]
      /\ DOMAIN refs.owner = Initiatives /\ DOMAIN refs.executor = Initiatives
  BY DEF Same, Renames, Good
<1>6. At(refs'.owner, {None}) = At(refs.owner, {None})
  BY <1>1, <1>5 DEF At
<1>7. At(refs'.executor, {None}) = At(refs.executor, {None})
  BY <1>1, <1>5 DEF At
<1> QED
  BY <1>2, <1>3, <1>4, <1>6, <1>7 DEF NothingLost

LEMMA UnconfirmedLosesNothing ==
    ASSUME IInv, IInv', Unconfirmed
    PROVE  NothingLost
<1>1. Good(refs, DOMAIN roster) /\ DOMAIN roster \subseteq Teams /\ DOMAIN roster' \subseteq Teams
  BY DEF IInv, RosterOK
<1>2. None \notin Teams
  BY CycleRosterAssumption
<1>3. ASSUME NEW t \in Teams, NEW target \in DOMAIN roster', NEW codes,
             UpdateTeam(t, target, codes, FALSE)
      PROVE  NothingLost
  <2> DEFINE moved == IF target = t THEN refs ELSE Relinked(refs, [x \in {t} |-> target])
             removed == [x \in Teams |-> IF x = target THEN roster[t] \ codes ELSE {}]
             f == [x \in {t} |-> target]
  <2>1. t \in DOMAIN roster /\ refs' = Restricted(moved, removed) /\ ~ UsesRemoved(moved, removed)
    BY <1>3 DEF UpdateTeam
  <2>2. Good(moved, (DOMAIN roster \ {t}) \cup {target}) /\ Renames(moved, refs, f)
    BY <1>1, <2>1, UpdateTeamMoves
  <2>3. None \notin DOMAIN f /\ \A x \in DOMAIN f : f[x] # None
    BY <1>1, <1>2
  <2> HIDE DEF moved, removed, f
  <2>4. Same(refs', moved)
    BY <2>1, <2>2, RestrictedNothing
  <2>5. Same(refs, refs)
    BY DEF Same
  <2> QED
    BY <1>1, <2>2, <2>3, <2>4, <2>5, RenamingLosesNothing
<1>4. ASSUME NEW t \in Teams, DeleteTeam(t, FALSE)
      PROVE  NothingLost
  <2>1. Same(refs', refs)
    BY <1>1, <1>4, DroppedNothing DEF DeleteTeam
  <2> QED
    BY <2>1 DEF Same, NothingLost
<1>5. ASSUME NEW kept \in Renamings, ReplaceData(kept, roster', FALSE)
      PROVE  NothingLost
  <2> DEFINE gone == DOMAIN roster \ DOMAIN kept
             d == Dropped(refs, gone)
             moved == Moved(d, kept)
  <2>1. PICK removed : /\ refs' = Restricted(moved, removed) /\ ~ UsesRemoved(moved, removed)
                       /\ \A t \in gone : ~ Named(refs, t)
    BY <1>5 DEF ReplaceData
  <2>2. Good(moved, DOMAIN roster') /\ Renames(moved, d, kept)
    BY <1>5, RosterTyped, ReplaceDataMoves DEF IInv
  <2>3. None \notin DOMAIN kept /\ \A t \in DOMAIN kept : kept[t] # None
    BY <1>2 DEF Renamings
  <2>4. Same(d, refs)
    BY <1>1, <2>1, DroppedNothing
  <2> HIDE DEF d, moved
  <2>5. Same(refs', moved)
    BY <2>1, <2>2, RestrictedNothing
  <2> QED
    BY <1>1, <2>2, <2>3, <2>4, <2>5, RenamingLosesNothing
<1> QED
  BY <1>3, <1>4, <1>5 DEF Unconfirmed

ConfirmedStep ==
    /\ NothingLost \/ ~ Unconfirmed
    /\ refs.items' = refs.items \/ \A m \in MemberIds : ~ DeleteMember(m, FALSE)

(* Without its confirmation an update, a deletion or a bulk PUT of the      *)
(* teams loses no row and no name of a team, and the deletion of a member   *)
(* leaves the work items alone (CascadeRequired).                           *)
THEOREM UnconfirmedLosesNoReference == Spec => LossesConfirmed
<1>1. ASSUME IInv, NEW m, DeleteMember(m, FALSE)
      PROVE  refs.items' = refs.items
  <2>1. \A w \in DOMAIN refs.items : refs.items[w].assignee # m
    BY <1>1 DEF DeleteMember
  <2>2. refs'.items = [w \in DOMAIN refs.items |->
            IF refs.items[w].assignee \in {m}
            THEN [refs.items[w] EXCEPT !.assignee = None] ELSE refs.items[w]]
    BY <1>1 DEF DeleteMember, WithoutMembers, IInv, Good, Fields
  <2>3. refs.items = [w \in DOMAIN refs.items |-> refs.items[w]]
    BY <1>1 DEF IInv, Good
  <2> QED
    BY <2>1, <2>2, <2>3
<1>2. IInv /\ IInv' => ConfirmedStep
  BY <1>1, UnconfirmedLosesNothing DEF ConfirmedStep
<1>3. IInv /\ [Next]_vars => [ConfirmedStep]_vars
  BY <1>2, StepOK
<1>4. Spec => [][ConfirmedStep]_vars
  BY Invariant, <1>3, PTL DEF Spec
<1> QED
  BY <1>4 DEF LossesConfirmed, ConfirmedStep

-----------------------------------------------------------------------------
(* A member that was not there before in this team has one of its new codes. *)
LEMMA MisfitsFewer ==
    ASSUME IInv, IInv',
           \A m \in DOMAIN refs'.members :
               LET new == refs'.members[m]
               IN \/ new.code \in roster'[new.team]
                  \/ /\ m \in DOMAIN refs.members
                     /\ refs.members[m].code \notin roster[refs.members[m].team]
    PROVE  Misfits' \subseteq Misfits
<1>1. \A m \in DOMAIN refs'.members : refs'.members[m].team \in DOMAIN roster'
  BY DEF IInv, Good
<1>2. Misfits' = {m \in DOMAIN refs'.members :
                     refs'.members[m].code \notin roster'[refs'.members[m].team]}
  BY <1>1 DEF Misfits
<1> QED
  BY <1>2 DEF Misfits

(* The competencies a bulk PUT or an update takes from a team. *)
LEMMA RestrictionFits ==
    ASSUME IInv, IInv', NEW moved, NEW f, NEW removed, NEW d,
           Renames(moved, d, f), Restricts(refs', moved, removed),
           \A m \in DOMAIN d.members :
               /\ m \in DOMAIN refs.members /\ d.members[m] = refs.members[m]
               /\ LET t == d.members[m].team
                  IN roster[t] \ removed[To(f, t)] \subseteq roster'[To(f, t)]
    PROVE  Misfits' \subseteq Misfits
<1>1. /\ DOMAIN refs'.members = DOMAIN moved.members \ MembersHit(moved, removed)
      /\ \A m \in DOMAIN refs'.members : refs'.members[m] = moved.members[m]
  BY DEF Restricts, Except
<1>2. moved.members = [m \in DOMAIN d.members |->
          [team |-> To(f, d.members[m].team), code |-> d.members[m].code]]
  BY DEF Renames
<1>3. \A m \in DOMAIN refs'.members :
          /\ m \in DOMAIN d.members
          /\ refs'.members[m].team = To(f, d.members[m].team)
          /\ refs'.members[m].code = d.members[m].code
          /\ d.members[m].code \notin removed[To(f, d.members[m].team)]
  BY <1>1, <1>2 DEF MembersHit
<1> QED
  BY <1>3, MisfitsFewer

LEMMA RosterCommandFits ==
    ASSUME IInv, IInv', RosterCommand
    PROVE  Misfits' \subseteq Misfits \/ Setup(roster')
<1>0. DOMAIN roster \subseteq Teams /\ Good(refs, DOMAIN roster)
  BY DEF IInv, RosterOK
<1>1. ASSUME NEW t \in Teams, NEW codes, CreateTeam(t, codes)
      PROVE  Misfits' \subseteq Misfits
  <2>1. refs' = refs /\ \A u \in DOMAIN roster : roster'[u] = roster[u]
    BY <1>1 DEF CreateTeam, With
  <2>2. \A m \in DOMAIN refs.members : refs.members[m].team \in DOMAIN roster
    BY <1>0 DEF Good
  <2> QED
    BY <2>1, <2>2, MisfitsFewer
<1>2. ASSUME NEW t \in Teams, NEW target \in Teams, NEW codes, NEW confirm,
             UpdateTeam(t, target, codes, confirm)
      PROVE  Misfits' \subseteq Misfits
  <2> DEFINE moved == IF target = t THEN refs ELSE Relinked(refs, [x \in {t} |-> target])
             removed == [x \in Teams |-> IF x = target THEN roster[t] \ codes ELSE {}]
             f == [x \in {t} |-> target]
  <2>1. /\ t \in DOMAIN roster /\ refs' = Restricted(moved, removed)
        /\ target = t \/ target \notin DOMAIN roster
        /\ roster' = With(Except(roster, {t}), target, codes)
    BY <1>2 DEF UpdateTeam
  <2>2. Good(moved, (DOMAIN roster \ {t}) \cup {target}) /\ Renames(moved, refs, f)
    BY <2>1, UpdateTeamMoves
  <2>3. \A u \in DOMAIN roster : roster[u] \ removed[To(f, u)] \subseteq roster'[To(f, u)]
    <3> SUFFICES ASSUME NEW u \in DOMAIN roster
                 PROVE  roster[u] \ removed[To(f, u)] \subseteq roster'[To(f, u)]
      OBVIOUS
    <3>1. CASE u = t
      <4>1. To(f, u) = target /\ removed[target] = roster[t] \ codes
        BY <3>1 DEF To
      <4>2. roster'[target] = codes
        BY <2>1 DEF With
      <4> QED
        BY <3>1, <4>1, <4>2
    <3>2. CASE u # t
      <4>1. To(f, u) = u /\ u # target
        BY <2>1, <3>2 DEF To
      <4>2. roster'[u] = roster[u]
        BY <2>1, <3>2, <4>1 DEF With, Except
      <4> QED
        BY <4>1, <4>2
    <3> QED
      BY <3>1, <3>2
  <2> HIDE DEF moved, removed, f
  <2>4. Restricts(refs', moved, removed)
    BY <2>1, <2>2, RestrictedRows
  <2>5. \A m \in DOMAIN refs.members : refs.members[m].team \in DOMAIN roster
    BY <1>0 DEF Good
  <2> QED
    BY <2>2, <2>3, <2>4, <2>5, RestrictionFits
<1>3. ASSUME NEW t \in Teams, NEW confirm, DeleteTeam(t, confirm)
      PROVE  Misfits' \subseteq Misfits
  <2>1. Drops(refs', refs, {t})
    BY <1>0, <1>3, DroppedRows DEF DeleteTeam
  <2>2. \A m \in DOMAIN refs'.members :
            /\ m \in DOMAIN refs.members /\ refs'.members[m] = refs.members[m]
            /\ refs.members[m].team \in DOMAIN roster \ {t}
    BY <1>0, <2>1 DEF Drops, Except, MembersOf, Good
  <2>3. \A u \in DOMAIN roster \ {t} : roster'[u] = roster[u]
    BY <1>3 DEF DeleteTeam, Except
  <2> QED
    BY <2>2, <2>3, MisfitsFewer
<1>4. ASSUME NEW new \in Rosters, Setup(new)
      PROVE  Setup(roster')
  BY <1>4 DEF Setup
<1>5. ASSUME NEW kept \in Renamings, NEW new \in Rosters, NEW confirm,
             ReplaceData(kept, new, confirm)
      PROVE  Misfits' \subseteq Misfits
  <2> DEFINE gone == DOMAIN roster \ DOMAIN kept
             d == Dropped(refs, gone)
             moved == Moved(d, kept)
             removed == [x \in Teams |->
                 UNION {roster[t] \ new[x] : t \in {y \in DOMAIN kept : kept[y] = x}}]
  <2>1. refs' = Restricted(moved, removed) /\ roster' = new
    BY <1>5 DEF ReplaceData
  <2>2. /\ Good(d, DOMAIN kept) /\ Renames(moved, d, kept) /\ Good(moved, DOMAIN new)
    BY <1>5, ReplaceDataMoves
  <2>3. \A t \in DOMAIN kept : roster[t] \ removed[To(kept, t)] \subseteq roster'[To(kept, t)]
    <3> SUFFICES ASSUME NEW t \in DOMAIN kept
                 PROVE  roster[t] \ removed[kept[t]] \subseteq roster'[kept[t]]
      BY DEF To
    <3>1. kept[t] \in Teams
      BY DEF Renamings
    <3>2. t \in {y \in DOMAIN kept : kept[y] = kept[t]}
      OBVIOUS
    <3>3. removed[kept[t]]
              = UNION {roster[u] \ new[kept[t]] : u \in {y \in DOMAIN kept : kept[y] = kept[t]}}
      BY <3>1
    <3>4. roster[t] \ new[kept[t]] \subseteq removed[kept[t]]
      BY <3>2, <3>3
    <3> QED
      BY <2>1, <3>4
  <2>4. Drops(d, refs, gone)
    <3> HIDE DEF gone
    <3> QED
      BY <1>0, DroppedRows
  <2> HIDE DEF d, moved, removed
  <2>5. Restricts(refs', moved, removed)
    BY <2>1, <2>2, RestrictedRows
  <2>6. \A m \in DOMAIN d.members :
            /\ m \in DOMAIN refs.members /\ d.members[m] = refs.members[m]
            /\ d.members[m].team \in DOMAIN kept
    BY <2>2, <2>4 DEF Drops, Except, Good
  <2> QED
    BY <2>2, <2>3, <2>5, <2>6, RestrictionFits
<1> QED
  BY <1>1, <1>2, <1>3, <1>4, <1>5 DEF RosterCommand

LEMMA OtherCommandFits ==
    ASSUME IInv, IInv', InitiativeCommand \/ CapacityCommand \/ GoalCommand \/ RiskCommand
    PROVE  Misfits' \subseteq Misfits
<1> USE DEF IInv, Good, Fields
<1>1. ASSUME roster' = roster, refs'.members = refs.members
      PROVE  Misfits' \subseteq Misfits
  BY <1>1 DEF Misfits
<1>2. CASE InitiativeCommand
  <2>1. roster' = roster /\ refs'.members = refs.members
    BY <1>2 DEF InitiativeCommand, SetOwner, SetExecutor, Ask, CreateItem, AssignItem, DeleteItem,
                WithoutItems
  <2> QED
    BY <1>1, <2>1
<1>3. CASE GoalCommand \/ RiskCommand
  <2>1. roster' = roster /\ refs'.members = refs.members
    BY <1>3 DEF GoalCommand, RiskCommand, SetGoal, DeleteGoal, LinkRisk, DeleteRisk, ReplaceRisks
  <2> QED
    BY <1>1, <2>1
<1>4. ASSUME NEW m, NEW t, NEW code, CreateMember(m, t, code)
      PROVE  Misfits' \subseteq Misfits
  <2>1. /\ roster' = roster /\ refs'.members = With(refs.members, m, [team |-> t, code |-> code])
        /\ code \in roster[t]
    BY <1>4 DEF CreateMember
  <2>2. \A x \in DOMAIN refs'.members :
            IF x = m THEN refs'.members[x] = [team |-> t, code |-> code]
            ELSE x \in DOMAIN refs.members /\ refs'.members[x] = refs.members[x]
    BY <2>1 DEF With
  <2> HIDE DEF IInv, Good
  <2> QED
    BY <2>1, <2>2, MisfitsFewer
<1>5. ASSUME NEW m, NEW code, UpdateMember(m, code)
      PROVE  Misfits' \subseteq Misfits
  <2>1. /\ roster' = roster /\ refs'.members = [refs.members EXCEPT ![m].code = code]
        /\ code \in roster[refs.members[m].team]
    BY <1>5 DEF UpdateMember
  <2>2. \A x \in DOMAIN refs'.members :
            /\ x \in DOMAIN refs.members
            /\ x # m => refs'.members[x] = refs.members[x]
            /\ x = m => refs'.members[x].team = refs.members[m].team /\ refs'.members[x].code = code
    BY <2>1
  <2> HIDE DEF IInv, Good
  <2> QED
    BY <2>1, <2>2, MisfitsFewer
<1>6. ASSUME NEW m, NEW confirm, DeleteMember(m, confirm)
      PROVE  Misfits' \subseteq Misfits
  <2>1. roster' = roster /\ refs'.members = Except(refs.members, {m})
    BY <1>6 DEF DeleteMember, WithoutMembers
  <2>2. \A x \in DOMAIN refs'.members : x \in DOMAIN refs.members /\ refs'.members[x] = refs.members[x]
    BY <2>1 DEF Except
  <2> HIDE DEF IInv, Good
  <2> QED
    BY <2>1, <2>2, MisfitsFewer
<1>7. ASSUME NEW new \in Capacities, ReplaceCapacity(new)
      PROVE  Misfits' \subseteq Misfits
  <2>1. /\ roster' = roster /\ refs'.members = new
        /\ \A x \in DOMAIN new : new[x].code \in roster[new[x].team]
    BY <1>7 DEF ReplaceCapacity, WithoutMembers
  <2> HIDE DEF IInv, Good
  <2> QED
    BY <2>1, MisfitsFewer
<1> QED
  BY <1>2, <1>3, <1>4, <1>5, <1>6, <1>7 DEF CapacityCommand

FitStep == Misfits' \subseteq Misfits \/ Setup(roster')

(* Whichever way a team's competencies change, members with one that the    *)
(* team does not have are left behind by the PUT of the setup only          *)
(* (update_cycle_team, replace_cycle_data, replace_capacity).               *)
THEOREM OnlySetupLeavesMisfits == Spec => MisfitsBySetupOnly
<1>1. IInv /\ IInv' /\ [Next]_vars => [FitStep]_vars
  BY RosterCommandFits, OtherCommandFits DEF Next, FitStep
<1>2. IInv /\ [Next]_vars => [FitStep]_vars
  BY <1>1, StepOK
<1>3. Spec => [][FitStep]_vars
  BY Invariant, <1>2, PTL DEF Spec
<1> QED
  BY <1>3 DEF MisfitsBySetupOnly, FitStep

=============================================================================
