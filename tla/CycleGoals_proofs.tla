------------------------- MODULE CycleGoals_proofs -------------------------
(***************************************************************************)
(* Proofs about CycleGoals for any sets of initiatives, teams, goals and   *)
(* texts, and any executors: what goals are filed under and linked to      *)
(* exists, and what commands may publish and lose.                         *)
(***************************************************************************)
EXTENDS CycleGoals, FiniteSetTheorems, TLAPS

Fields == {"team", "first", "links", "text"}

IsMap(f) == f = [x \in DOMAIN f |-> f[x]]

(* A goal with links is filed under one of them, and all of them exist; the *)
(* positions of the links do not matter.                                    *)
Sound(goal, live) ==
    /\ DOMAIN goal = Fields
    /\ goal.text \in Texts
    /\ IsMap(goal.links)
    /\ DOMAIN goal.links \subseteq live
    /\ goal.first \in IF DOMAIN goal.links = {} THEN live \cup {None} ELSE DOMAIN goal.links

Goal(t, i, links, text) == [team |-> t, first |-> i, links |-> links, text |-> text]

GoalsSound == \A g \in DOMAIN goals : Sound(goals[g], Live)

CardsOK ==
    /\ Live \subseteq Initiatives
    /\ \A i \in Live : cards[i] \in Card

IInv == GoalsSound /\ CardsOK

-----------------------------------------------------------------------------
(* The first of some links is one of them. *)
LEMMA FirstLinked ==
    \A links : \A i \in FirstOf(links) :
        i \in IF DOMAIN links = {} THEN {None} ELSE DOMAIN links
BY DEF FirstOf

LEMMA EmptyLinks == DOMAIN Empty = {} /\ IsMap(Empty) /\ \A f : IsMap(f) /\ DOMAIN f = {} => f = Empty
BY DEF Empty, IsMap

(* Links stay a function when one is added, with any position, or removed. *)
LEMMA WithMaps ==
    ASSUME NEW old, IsMap(old), NEW i, NEW n
    PROVE  LET new == IF i \in DOMAIN old THEN old ELSE With(old, i, n)
           IN IsMap(new) /\ DOMAIN new = DOMAIN old \cup {i}
<1>1. CASE i \in DOMAIN old
  BY <1>1
<1>2. CASE i \notin DOMAIN old
  BY <1>2 DEF With, IsMap
<1> QED
  BY <1>1, <1>2

LEMMA ExceptMaps ==
    ASSUME NEW old, NEW S
    PROVE  IsMap(Except(old, S)) /\ DOMAIN Except(old, S) = DOMAIN old \ S
BY DEF Except, IsMap

LEMMA WithoutMaps ==
    ASSUME NEW old, NEW i
    PROVE  IsMap(Without(old, i)) /\ DOMAIN Without(old, i) = DOMAIN old \ {i}
BY ExceptMaps DEF Without

(* More initiatives do a goal no harm. *)
LEMMA SoundGrows ==
    \A goal, live, more : Sound(goal, live) /\ live \subseteq more => Sound(goal, more)
BY DEF Sound

LEMMA MadeSound ==
    ASSUME NEW live, NEW t, NEW links, NEW i, NEW text \in Texts,
           IsMap(links), DOMAIN links \subseteq live,
           i \in IF DOMAIN links = {} THEN live \cup {None} ELSE DOMAIN links
    PROVE  Sound(Goal(t, i, links, text), live)
BY DEF Sound, Goal, Fields

(* A PUT and a submission file a goal under an initiative it is linked to. *)
LEMMA FiledSound ==
    ASSUME GoalsSound, NEW g, NEW t, NEW i \in Live, NEW text \in Texts
    PROVE  Sound(Filed(g, t, i, text), Live)
<1> DEFINE old == IF g \in DOMAIN goals THEN goals[g].links ELSE Empty
           new == IF i \in DOMAIN old THEN old ELSE With(old, i, 0)
<1>1. DOMAIN old \subseteq Live /\ IsMap(old)
  BY EmptyLinks DEF GoalsSound, Sound
<1> HIDE DEF old
<1>2. DOMAIN new \subseteq Live /\ i \in DOMAIN new /\ IsMap(new)
  BY <1>1, WithMaps
<1>3. Filed(g, t, i, text) = Goal(t, i, new, text)
  BY DEF Filed, Goal, old
<1> HIDE DEF new
<1>4. i \in IF DOMAIN new = {} THEN Live \cup {None} ELSE DOMAIN new
  BY <1>2
<1> QED
  BY <1>2, <1>3, <1>4, MadeSound

(* Texts are all that a goal command writes into initiatives. *)
LEMMA RewrittenOK ==
    ASSUME CardsOK, NEW S, NEW text \in Texts, cards' = Rewritten(S, text)
    PROVE  CardsOK' /\ Live' = Live
<1>1. DOMAIN cards' = Live
  BY DEF Rewritten, Live
<1>2. \A i \in Live : cards'[i] = IF i \in S THEN [cards[i] EXCEPT !.text = text] ELSE cards[i]
  BY DEF Rewritten
<1>3. \A i \in Live : cards'[i] \in Card
  BY <1>2 DEF CardsOK, Card
<1> QED
  BY <1>1, <1>3 DEF CardsOK, Live

(* A goal is put in the place of another, or is new. *)
LEMMA OneGoal ==
    ASSUME GoalsSound, NEW g, NEW goal, Live \subseteq Live', Sound(goal, Live'),
           \/ goals' = With(goals, g, goal)
           \/ goals' = [goals EXCEPT ![g] = goal]
    PROVE  GoalsSound'
<1> SUFFICES ASSUME NEW h \in DOMAIN goals'
             PROVE  Sound(goals'[h], Live')
  BY DEF GoalsSound, Sound, Goal, Live
<1>1. h \in DOMAIN goals \cup {g} /\ (h # g => goals'[h] = goals[h])
  BY DEF With
<1>2. h = g => goals'[h] = goal
  BY DEF With
<1>3. h # g => Sound(goals[h], Live)
  BY <1>1 DEF GoalsSound
<1> QED
  BY <1>1, <1>2, <1>3, SoundGrows

(* A goal gets other links and is filed under one of them, if there is one. *)
LEMMA RelinkedSound ==
    ASSUME NEW live, NEW goal, Sound(goal, live), NEW links, NEW f,
           IsMap(links), DOMAIN links \subseteq live,
           f \in IF DOMAIN links = {} THEN live \cup {None} ELSE DOMAIN links
    PROVE  Sound([goal EXCEPT !.links = links, !.first = f], live)
BY DEF Sound, Fields

LEMMA RelinkedGoals ==
    ASSUME GoalsSound, NEW g \in DOMAIN goals, NEW links, NEW f
    PROVE  [goals EXCEPT ![g].links = links, ![g].first = f]
               = [goals EXCEPT ![g] = [goals[g] EXCEPT !.links = links, !.first = f]]
<1> DEFINE one == [goals EXCEPT ![g].links = links]
<1>1. one[g] = [goals[g] EXCEPT !.links = links] /\ DOMAIN one = DOMAIN goals
      /\ one = [h \in DOMAIN goals |-> one[h]]
      /\ \A h \in DOMAIN goals \ {g} : one[h] = goals[h]
  OBVIOUS
<1>2. [goals EXCEPT ![g].links = links, ![g].first = f] = [one EXCEPT ![g].first = f]
  OBVIOUS
<1> HIDE DEF one
<1>3. [one EXCEPT ![g].first = f] = [goals EXCEPT ![g] = [one[g] EXCEPT !.first = f]]
  BY <1>1
<1>4. [one[g] EXCEPT !.first = f] = [goals[g] EXCEPT !.links = links, !.first = f]
  BY <1>1
<1> QED
  BY <1>2, <1>3, <1>4

-----------------------------------------------------------------------------
(* Commands on goals. *)
LEMMA NumberingsOK == \A links \in Numberings : DOMAIN links \subseteq Live /\ IsMap(links)
BY DEF Numberings, Lists, IsMap

LEMMA CreateGoalOK ==
    ASSUME IInv, NEW g \in GoalIds, NEW t \in Teams \cup {None}, NEW links \in Numberings,
           NEW text \in Texts, CreateGoal(g, t, links, text)
    PROVE  IInv'
<1>1. DOMAIN links \subseteq Live /\ IsMap(links)
  BY NumberingsOK
<1>2. CardsOK' /\ Live' = Live
  BY RewrittenOK DEF CreateGoal, IInv
<1>3. PICK i \in FirstOf(links) :
          goals' = With(goals, g, Goal(t, i, links, text))
  BY DEF CreateGoal, Goal
<1>4. i \in IF DOMAIN links = {} THEN Live \cup {None} ELSE DOMAIN links
  BY FirstLinked
<1>5. Sound(Goal(t, i, links, text), Live)
  BY <1>1, <1>4, MadeSound
<1> QED
  BY <1>2, <1>3, <1>5, OneGoal DEF IInv

LEMMA CreateUnlinkedGoalOK ==
    ASSUME IInv, NEW g \in GoalIds, NEW t \in Teams \cup {None}, NEW i \in Live \cup {None},
           NEW text \in Texts, CreateUnlinkedGoal(g, t, i, text)
    PROVE  IInv'
<1>1. CardsOK' /\ Live' = Live
  BY DEF IInv, CardsOK, Live, CreateUnlinkedGoal
<1>2. i \in IF DOMAIN Empty = {} THEN Live \cup {None} ELSE DOMAIN Empty
  BY EmptyLinks
<1>3. Sound(Goal(t, i, Empty, text), Live)
  BY <1>1, <1>2, EmptyLinks, MadeSound
<1> QED
  BY <1>1, <1>3, OneGoal DEF IInv, CreateUnlinkedGoal, Goal

LEMMA UpdateGoalOK ==
    ASSUME IInv, NEW g \in GoalIds, NEW t \in Teams \cup {None},
           NEW links \in Numberings \cup {None}, NEW text \in Texts, NEW confirm,
           UpdateGoal(g, t, links, text, confirm)
    PROVE  IInv'
<1> DEFINE new == Relinked(g, links)
<1>0. g \in DOMAIN goals
  BY DEF UpdateGoal
<1>1. DOMAIN new \subseteq Live /\ IsMap(new)
  BY <1>0, NumberingsOK DEF IInv, GoalsSound, Sound, Relinked
<1>2. CardsOK' /\ Live' = Live
  BY RewrittenOK DEF UpdateGoal, IInv
<1>3. PICK i \in IF links = None THEN {goals[g].first} ELSE FirstOf(links) :
          goals' = [goals EXCEPT ![g] = Goal(t, i, new, text)]
  BY DEF UpdateGoal, Goal
<1>4. i \in IF DOMAIN new = {} THEN Live \cup {None} ELSE DOMAIN new
  BY <1>0, FirstLinked DEF Relinked, IInv, GoalsSound, Sound
<1> HIDE DEF new
<1>5. Sound(Goal(t, i, new, text), Live)
  BY <1>1, <1>4, MadeSound
<1> QED
  BY <1>2, <1>3, <1>5, OneGoal DEF IInv

LEMMA DeleteGoalOK ==
    ASSUME IInv, NEW g, NEW confirm, DeleteGoal(g, confirm)
    PROVE  IInv'
<1>1. CardsOK' /\ Live' = Live
  BY DEF DeleteGoal, IInv, CardsOK, Live
<1>2. \A h \in DOMAIN goals' : h \in DOMAIN goals /\ goals'[h] = goals[h]
  BY DEF DeleteGoal, Without, Except
<1>3. GoalsSound'
  BY <1>1, <1>2 DEF IInv, GoalsSound, Sound, Goal
<1> QED
  BY <1>1, <1>3 DEF IInv

LEMMA RelinkOK ==
    ASSUME IInv, CardsOK', Live' = Live, NEW g \in DOMAIN goals, NEW links, NEW f,
           IsMap(links), DOMAIN links \subseteq Live,
           f \in IF DOMAIN links = {} THEN Live \cup {None} ELSE DOMAIN links,
           goals' = [goals EXCEPT ![g].links = links, ![g].first = f]
    PROVE  IInv'
<1> DEFINE goal == [goals[g] EXCEPT !.links = links, !.first = f]
<1>1. GoalsSound /\ Sound(goals[g], Live)
  BY DEF IInv, GoalsSound
<1>2. Sound(goal, Live)
  BY <1>1, RelinkedSound
<1>3. goals' = [goals EXCEPT ![g] = goal]
  BY <1>1, RelinkedGoals
<1> HIDE DEF goal
<1> QED
  BY <1>1, <1>2, <1>3, OneGoal DEF IInv

LEMMA AddLinkOK ==
    ASSUME IInv, NEW g \in GoalIds, NEW i \in Live, AddLink(g, i)
    PROVE  IInv'
<1> DEFINE old == goals[g].links
           new == IF i \in DOMAIN old THEN old ELSE With(old, i, Cardinality(DOMAIN old))
<1>0. g \in DOMAIN goals
  BY DEF AddLink
<1>1. Sound(goals[g], Live)
  BY <1>0 DEF IInv, GoalsSound
<1>2. DOMAIN new = DOMAIN old \cup {i} /\ DOMAIN new \subseteq Live /\ IsMap(new)
  BY <1>1, WithMaps DEF Sound
<1>3. CardsOK' /\ Live' = Live
  BY <1>1, RewrittenOK DEF AddLink, IInv, Sound
<1>4. PICK f \in IF old = Empty THEN {i} ELSE FirstOf(old) :
          goals' = [goals EXCEPT ![g].links = new, ![g].first = f]
  BY DEF AddLink
<1>5. f \in DOMAIN old \cup {i}
  <2>1. CASE DOMAIN old # {}
    BY <1>4, <2>1, FirstLinked, EmptyLinks
  <2>2. CASE DOMAIN old = {}
    BY <1>1, <1>4, <2>2, EmptyLinks DEF Sound
  <2> QED
    BY <2>1, <2>2
<1> HIDE DEF new
<1> QED
  BY <1>0, <1>2, <1>3, <1>4, <1>5, RelinkOK

LEMMA RemoveLinkOK ==
    ASSUME IInv, NEW g \in GoalIds, NEW i, NEW confirm, RemoveLink(g, i, confirm)
    PROVE  IInv'
<1> DEFINE rest == Without(goals[g].links, i)
<1>0. g \in DOMAIN goals
  BY DEF RemoveLink
<1>1. DOMAIN rest \subseteq Live /\ IsMap(rest)
  <2>1. DOMAIN goals[g].links \subseteq Live
    BY <1>0 DEF IInv, GoalsSound, Sound
  <2> QED
    BY <2>1, WithoutMaps
<1>2. CardsOK' /\ Live' = Live
  BY DEF RemoveLink, IInv, CardsOK, Live
<1>3. PICK f \in FirstOf(rest) : goals' = [goals EXCEPT ![g].links = rest, ![g].first = f]
  BY DEF RemoveLink
<1>4. f \in IF DOMAIN rest = {} THEN Live \cup {None} ELSE DOMAIN rest
  BY <1>3, FirstLinked
<1> HIDE DEF rest
<1> QED
  BY <1>0, <1>1, <1>2, <1>3, <1>4, RelinkOK

LEMMA ReplaceGoalsOK ==
    ASSUME IInv, NEW S \in SUBSET GoalIds, NEW rows \in [S -> Row], ReplaceGoals(rows)
    PROVE  IInv'
<1>1. \A g \in DOMAIN rows : rows[g].first \in Live /\ rows[g].text \in Texts
  BY DEF Row
<1>2. CardsOK' /\ Live' = Live
  <2> DEFINE named == {rows[g].first : g \in DOMAIN rows}
  <2>1. PICK last \in [named -> DOMAIN rows] :
            cards' = [i \in Live |-> IF i \in named
                          THEN [cards[i] EXCEPT !.text = rows[last[i]].text] ELSE cards[i]]
    BY DEF ReplaceGoals
  <2>2. DOMAIN cards' = Live
    BY <2>1 DEF Live
  <2>3. ASSUME NEW i \in Live
        PROVE  cards'[i] \in Card
    <3>1. cards[i] \in Card
      BY DEF IInv, CardsOK
    <3>2. CASE i \in named
      <4>1. last[i] \in DOMAIN rows
        BY <3>2
      <4>2. rows[last[i]].text \in Texts
        BY <1>1, <4>1
      <4>3. cards'[i] = [cards[i] EXCEPT !.text = rows[last[i]].text]
        BY <2>1, <3>2
      <4> QED
        BY <3>1, <4>2, <4>3 DEF Card
    <3>3. CASE i \notin named
      BY <2>1, <3>1, <3>3
    <3> QED
      BY <3>2, <3>3
  <2> QED
    BY <2>2, <2>3 DEF IInv, CardsOK, Live
<1>3. \A g \in DOMAIN goals' :
          g \in DOMAIN rows /\ goals'[g] = Filed(g, rows[g].team, rows[g].first, rows[g].text)
  BY DEF ReplaceGoals
<1>4. \A g \in DOMAIN goals' : Sound(goals'[g], Live)
  BY <1>1, <1>3, FiledSound DEF IInv
<1> QED
  BY <1>2, <1>4, SoundGrows DEF IInv, GoalsSound

-----------------------------------------------------------------------------
(* Commands of Pre PI Planning. *)

(* What lost initiatives leave: goals that name none of them. *)
LEMMA UntiedGoals ==
    ASSUME GoalsSound, NEW S, Untied(S), NEW g \in DOMAIN goals
    PROVE  LET rest == Except(goals[g].links, S)
           IN /\ DOMAIN goals' \subseteq DOMAIN goals
              /\ IsMap(rest) /\ DOMAIN rest = DOMAIN goals[g].links \ S
              /\ g \notin Tied(S) => g \in DOMAIN goals' /\ goals'[g] = goals[g]
              /\ g \in Tied(S) => (g \in DOMAIN goals' <=> DOMAIN rest # {})
              /\ g \in Tied(S) /\ g \in DOMAIN goals' =>
                     \E f \in FirstOf(rest) :
                         goals'[g] = [goals[g] EXCEPT !.first = f, !.links = rest]
<1> DEFINE rest(h) == Except(goals[h].links, S)
           passed == {h \in Tied(S) : rest(h) # Empty}
<1>1. PICK first \in [passed -> Initiatives] :
          /\ \A h \in passed : first[h] \in FirstOf(rest(h))
          /\ goals' = [h \in (DOMAIN goals \ Tied(S)) \cup passed |->
                 IF h \in passed
                 THEN [goals[h] EXCEPT !.first = first[h], !.links = rest(h)]
                 ELSE goals[h]]
  BY DEF Untied
<1>2. IsMap(rest(g)) /\ DOMAIN rest(g) = DOMAIN goals[g].links \ S
  BY ExceptMaps
<1>3. passed \subseteq Tied(S) /\ Tied(S) \subseteq DOMAIN goals
  BY DEF Tied
<1>4. g \in passed <=> g \in Tied(S) /\ DOMAIN rest(g) # {}
  BY <1>2, EmptyLinks
<1> HIDE DEF rest, passed
<1>5. DOMAIN goals' = (DOMAIN goals \ Tied(S)) \cup passed
  BY <1>1
<1>6. g \in passed => goals'[g] = [goals[g] EXCEPT !.first = first[g], !.links = rest(g)]
  BY <1>1, <1>5
<1>7. g \notin Tied(S) => goals'[g] = goals[g]
  BY <1>1, <1>3, <1>5
<1> QED
  BY <1>1, <1>2, <1>3, <1>4, <1>5, <1>6, <1>7 DEF rest

LEMMA UntiedSound ==
    ASSUME GoalsSound, NEW S, Untied(S), Live \ S \subseteq Live'
    PROVE  GoalsSound'
<1> SUFFICES ASSUME NEW g \in DOMAIN goals'
             PROVE  Sound(goals'[g], Live')
  BY DEF GoalsSound, Sound, Fields, IsMap, Live
<1>1. g \in DOMAIN goals
  <2>1. CASE DOMAIN goals = {}
    BY <2>1 DEF Untied, Tied
  <2>2. CASE DOMAIN goals # {}
    BY <2>2, UntiedGoals
  <2> QED
    BY <2>1, <2>2
<1> DEFINE rest == Except(goals[g].links, S)
<1>2. Sound(goals[g], Live) /\ IsMap(rest) /\ DOMAIN rest = DOMAIN goals[g].links \ S
  BY <1>1, ExceptMaps DEF GoalsSound
<1>3. CASE g \notin Tied(S)
  <2>1. goals'[g] = goals[g]
    BY <1>1, <1>3, UntiedGoals
  <2>2. goals[g].first \notin S /\ DOMAIN goals[g].links \cap S = {}
    BY <1>1, <1>3 DEF Tied
  <2> QED
    BY <1>2, <2>1, <2>2 DEF Sound
<1>4. CASE g \in Tied(S)
  <2>1. PICK f \in FirstOf(rest) : goals'[g] = [goals[g] EXCEPT !.first = f, !.links = rest]
    BY <1>1, <1>4, UntiedGoals
  <2>2. DOMAIN rest # {} /\ DOMAIN rest \subseteq Live'
    BY <1>1, <1>2, <1>4, UntiedGoals DEF Sound
  <2> HIDE DEF rest
  <2>3. f \in DOMAIN rest
    BY <2>2, FirstLinked
  <2> QED
    BY <1>2, <2>1, <2>2, <2>3 DEF Sound, Fields
<1> QED
  BY <1>3, <1>4

(* Other initiatives keep their goals. *)
LEMMA UntiedKept ==
    ASSUME GoalsSound, NEW S, Untied(S), NEW g \in DOMAIN goals, NEW i \in DOMAIN goals[g].links \ S
    PROVE  g \in DOMAIN goals' /\ i \in DOMAIN goals'[g].links
<1> DEFINE rest == Except(goals[g].links, S)
<1>1. IsMap(rest) /\ i \in DOMAIN rest /\ DOMAIN goals[g] = Fields
  BY ExceptMaps DEF GoalsSound, Sound
<1>2. CASE g \notin Tied(S)
  BY <1>2, UntiedGoals
<1>3. CASE g \in Tied(S)
  <2>1. g \in DOMAIN goals'
    BY <1>1, <1>3, UntiedGoals
  <2>2. PICK f : goals'[g] = [goals[g] EXCEPT !.first = f, !.links = rest]
    BY <1>3, <2>1, UntiedGoals
  <2> HIDE DEF rest
  <2> QED
    BY <1>1, <2>1, <2>2 DEF Fields
<1> QED
  BY <1>2, <1>3

LEMMA SameGoalsSound ==
    ASSUME GoalsSound, goals' = goals, Live \subseteq Live'
    PROVE  GoalsSound'
BY SoundGrows DEF GoalsSound

(* What a form asks for is there afterwards.  Only unpublished service      *)
(* cards change, and only new ones are published.                           *)
LEMMA ServedOK ==
    ASSUME NEW base, NEW asked \in Requests, \A j \in DOMAIN base : base[j] \in Card
    PROVE  LET served == Served(base, asked)
           IN /\ DOMAIN served = DOMAIN base \cup DOMAIN asked
              /\ \A j \in DOMAIN served :
                     /\ served[j] \in Card
                     /\ j \notin DOMAIN base => served[j].generated
                     /\ j \in DOMAIN base =>
                            \/ served[j] = base[j]
                            \/ served[j].generated /\ ~ base[j].on_board
<1> DEFINE all == [j \in DOMAIN base \cup DOMAIN asked |->
                      IF j \in DOMAIN base THEN base[j] ELSE NewCard(TRUE, NoText)]
           open == {j \in DOMAIN asked : all[j].generated /\ ~ all[j].on_board}
           served == Served(base, asked)
<1>1. NewCard(TRUE, NoText) \in Card /\ NewCard(TRUE, NoText).generated
  BY CycleGoalsAssumption DEF NewCard, Card
<1>2. \A j \in DOMAIN all : all[j] \in Card
  BY <1>1
<1>3. served = [j \in DOMAIN all |->
                   IF j \in open
                   THEN [all[j] EXCEPT !.pre_planned = FALSE, !.on_board = asked[j]]
                   ELSE all[j]]
  BY DEF Served
<1>4. DOMAIN all = DOMAIN base \cup DOMAIN asked
  OBVIOUS
<1>5. \A j \in DOMAIN base : all[j] = base[j]
  OBVIOUS
<1>6. \A j \in DOMAIN all \ DOMAIN base : all[j].generated
  BY <1>1
<1>7. open \subseteq DOMAIN all /\ \A j \in open : all[j].generated /\ ~ all[j].on_board
  OBVIOUS
<1>8. \A j \in open : asked[j] \in BOOLEAN
  BY DEF Requests
<1> HIDE DEF all, open, served
<1>9. DOMAIN served = DOMAIN base \cup DOMAIN asked
  BY <1>3, <1>4
<1>10. ASSUME NEW j \in DOMAIN all
       PROVE  /\ served[j] \in Card
              /\ served[j] = all[j] \/ (j \in open /\ served[j].generated)
  <2>1. CASE j \in open
    <3>1. served[j] = [all[j] EXCEPT !.pre_planned = FALSE, !.on_board = asked[j]]
      BY <1>3, <2>1
    <3>2. all[j] \in Card /\ asked[j] \in BOOLEAN /\ all[j].generated
      BY <1>2, <1>7, <1>8, <2>1
    <3> QED
      BY <2>1, <3>1, <3>2 DEF Card
  <2>2. CASE j \notin open
    BY <1>2, <1>3, <2>2
  <2> QED
    BY <2>1, <2>2
<1>11. \A j \in DOMAIN served :
           /\ served[j] \in Card
           /\ j \notin DOMAIN base => served[j].generated
           /\ j \in DOMAIN base => served[j] = base[j] \/ (served[j].generated /\ ~ base[j].on_board)
  BY <1>4, <1>5, <1>6, <1>7, <1>9, <1>10
<1> QED
  BY <1>9, <1>11 DEF served

LEMMA NewCardOK == \A text \in Texts, generated \in BOOLEAN : NewCard(generated, text) \in Card
BY DEF NewCard, Card

LEMMA CreateInitiativeOK ==
    ASSUME IInv, NEW i \in Initiatives, NEW text \in Texts, CreateInitiative(i, text)
    PROVE  IInv'
<1> DEFINE card == NewCard(FALSE, text)
<1>1. card \in Card
  BY NewCardOK
<1> HIDE DEF card
<1>2. Live' = Live \cup {i} /\ \A j \in Live' : cards'[j] = IF j = i THEN card ELSE cards[j]
  BY DEF CreateInitiative, With, Live, card
<1>3. CardsOK'
  BY <1>1, <1>2 DEF IInv, CardsOK
<1> QED
  BY <1>2, <1>3, SameGoalsSound DEF IInv, CreateInitiative

LEMMA DispatchOK ==
    ASSUME IInv, NEW S \in SUBSET Initiatives, NEW text \in [S -> Texts], Dispatch(text)
    PROVE  IInv'
<1>1. /\ Live' = Live \cup S
      /\ \A i \in Live' :
             cards'[i] \in {cards[i], [cards[i] EXCEPT !.generated = FALSE, !.text = text[i]],
                            NewCard(FALSE, text[i])}
      /\ \A i \in Live' \ S : i \in Live /\ cards'[i] = cards[i]
      /\ \A i \in Live' \ Live : cards'[i] = NewCard(FALSE, text[i]) /\ i \in S
      /\ \A i \in Live' : i \in S \/ cards'[i] = cards[i]
  BY DEF Dispatch, Live
<1>2. \A i \in Live' : cards'[i] \in Card
  <2> SUFFICES ASSUME NEW i \in Live'
               PROVE  cards'[i] \in Card
    OBVIOUS
  <2>1. i \in S => text[i] \in Texts
    OBVIOUS
  <2>2. CASE i \in Live
    <3>1. cards[i] \in Card
      BY <2>2 DEF IInv, CardsOK
    <3>2. i \in S => cards'[i] \in {cards[i], [cards[i] EXCEPT !.generated = FALSE, !.text = text[i]]}
      BY <2>2 DEF Dispatch, Live
    <3> QED
      BY <1>1, <2>1, <2>2, <3>1, <3>2 DEF Card
  <2>3. CASE i \notin Live
    BY <1>1, <2>1, <2>3, NewCardOK
  <2> QED
    BY <2>2, <2>3
<1>3. CardsOK'
  BY <1>1, <1>2 DEF IInv, CardsOK
<1> QED
  BY <1>1, <1>3, SameGoalsSound DEF IInv, Dispatch

(* Rows, with what their forms ask for and without what goes. *)
LEMMA ServedCards ==
    ASSUME NEW base, \A j \in DOMAIN base : base[j] \in Card, DOMAIN base \subseteq Initiatives,
           NEW asked \in Requests, NEW gone, cards' = Except(Served(base, asked), gone)
    PROVE  CardsOK' /\ Live' = (DOMAIN base \cup DOMAIN asked) \ gone
<1> DEFINE served == Served(base, asked)
<1>1. DOMAIN served = DOMAIN base \cup DOMAIN asked /\ \A j \in DOMAIN served : served[j] \in Card
  BY ServedOK
<1>2. DOMAIN asked \subseteq Initiatives
  BY CycleGoalsAssumption DEF Requests
<1> HIDE DEF served
<1>3. cards' = [j \in DOMAIN served \ gone |-> served[j]]
  BY DEF Except, served
<1> QED
  BY <1>1, <1>2, <1>3 DEF CardsOK, Live

LEMMA EditedOK ==
    ASSUME CardsOK, NEW i \in Live, NEW text \in Texts
    PROVE  LET edited == [cards EXCEPT ![i].text = text]
           IN /\ DOMAIN edited = Live
              /\ \A j \in Live : /\ edited[j] \in Card
                                 /\ edited[j].on_board = cards[j].on_board
                                 /\ edited[j].pre_planned = cards[j].pre_planned
                                 /\ edited[j].generated = cards[j].generated
<1> DEFINE edited == [cards EXCEPT ![i].text = text]
<1>1. DOMAIN edited = Live
  BY DEF Live
<1>2. ASSUME NEW j \in Live
      PROVE  /\ edited[j] \in Card
             /\ edited[j].on_board = cards[j].on_board
             /\ edited[j].pre_planned = cards[j].pre_planned
             /\ edited[j].generated = cards[j].generated
  <2>1. cards[j] \in Card
    BY DEF CardsOK
  <2>2. edited[j] = IF j = i THEN [cards[j] EXCEPT !.text = text] ELSE cards[j]
    BY DEF Live
  <2> HIDE DEF edited
  <2> QED
    BY <2>1, <2>2 DEF Card
<1> QED
  BY <1>1, <1>2

LEMMA EditInitiativeOK ==
    ASSUME IInv, NEW i \in Live, NEW text \in Texts, NEW asked \in Requests,
           NEW gone \in SUBSET ServiceCards, EditInitiative(i, text, asked, gone)
    PROVE  IInv'
<1> DEFINE base == [cards EXCEPT ![i].text = text]
<1>1. DOMAIN base = Live /\ \A j \in DOMAIN base : base[j] \in Card
  BY EditedOK DEF IInv
<1>2. cards' = Except(Served(base, asked), gone) /\ Untied(gone)
  BY DEF EditInitiative
<1> HIDE DEF base
<1>3. CardsOK' /\ Live' = (Live \cup DOMAIN asked) \ gone
  <2>1. DOMAIN base \subseteq Initiatives
    BY <1>1 DEF IInv, CardsOK
  <2> QED
    BY <1>1, <1>2, <2>1, ServedCards
<1> QED
  BY <1>2, <1>3, UntiedSound DEF IInv

LEMMA PutPrePIOK ==
    ASSUME IInv, NEW plan \in Snapshots, NEW asked \in Requests, NEW gone,
           PutPrePI(plan, asked, gone)
    PROVE  IInv'
<1> DEFINE row(i) == [pre_planned |-> plan[i].pre_planned, on_board |-> plan[i].on_board,
                      generated |-> i \in ServiceCards, text |-> plan[i].text]
           base == [i \in DOMAIN plan |-> row(i)]
           lost == (Live \ DOMAIN plan) \cup gone
<1>1. /\ DOMAIN plan \subseteq Initiatives
      /\ \A i \in DOMAIN plan : plan[i] \in [pre_planned : BOOLEAN, on_board : BOOLEAN, text : Texts]
  BY CycleGoalsAssumption
<1>2. \A i \in DOMAIN base : base[i] \in Card
  BY <1>1 DEF Card
<1>3. cards' = Except(Served(base, asked), gone) /\ Untied(lost) /\ DOMAIN base = DOMAIN plan
  BY DEF PutPrePI
<1> HIDE DEF base
<1>4. CardsOK' /\ Live' = (DOMAIN plan \cup DOMAIN asked) \ gone
  BY <1>1, <1>2, <1>3, ServedCards
<1>5. Live \ lost \subseteq Live'
  BY <1>4
<1> HIDE DEF lost
<1> QED
  BY <1>3, <1>4, <1>5, UntiedSound DEF IInv

LEMMA PutTeamBoardsOK ==
    ASSUME IInv, NEW plan \in Snapshots, PutTeamBoards(plan)
    PROVE  IInv'
<1>1. \A i \in DOMAIN plan : plan[i] \in [pre_planned : BOOLEAN, on_board : BOOLEAN, text : Texts]
  BY CycleGoalsAssumption
<1>2. Live' = Live /\ \A i \in Live : cards[i] \in Card
  BY DEF PutTeamBoards, Live, IInv, CardsOK
<1>3. \A i \in Live : cards'[i] \in Card
  <2> SUFFICES ASSUME NEW i \in Live
               PROVE  cards'[i] \in Card
    OBVIOUS
  <2>1. CASE i \in DOMAIN plan
    <3>1. cards'[i] = [cards[i] EXCEPT !.pre_planned = plan[i].pre_planned,
                                       !.on_board = plan[i].on_board]
      BY <2>1 DEF PutTeamBoards
    <3> QED
      BY <1>1, <1>2, <2>1, <3>1 DEF Card
  <2>2. CASE i \notin DOMAIN plan
    BY <1>2, <2>2 DEF PutTeamBoards
  <2> QED
    BY <2>1, <2>2
<1>4. CardsOK'
  BY <1>2, <1>3 DEF IInv, CardsOK
<1> QED
  BY <1>2, <1>4, SameGoalsSound DEF IInv, PutTeamBoards

(* The flags after a move. *)
LEMMA Moves ==
    ASSUME CardsOK, NEW i, NEW planned \in BOOLEAN, NEW confirm, MoveInitiative(i, planned, confirm)
    PROVE  /\ i \in Live /\ Live' = Live /\ \A j \in Live \ {i} : cards'[j] = cards[j]
           /\ cards'[i] \in Card
           /\ cards'[i].pre_planned = planned
           /\ cards'[i].on_board = (cards[i].on_board /\ planned)
<1>1. i \in Live /\ Live' = Live /\ \A j \in Live \ {i} : cards'[j] = cards[j]
  BY DEF MoveInitiative, Live
<1>2. cards[i] \in Card
  BY <1>1 DEF CardsOK
<1>3. cards'[i] = [cards[i] EXCEPT !.pre_planned = planned, !.on_board = @ /\ planned]
  BY <1>1, <1>2 DEF MoveInitiative, Live, Card
<1> QED
  BY <1>1, <1>2, <1>3 DEF Card

LEMMA MoveInitiativeOK ==
    ASSUME IInv, NEW i \in Initiatives, NEW planned \in BOOLEAN, NEW confirm,
           MoveInitiative(i, planned, confirm)
    PROVE  IInv'
<1>1. Live' = Live /\ \A j \in Live : cards'[j] = cards[j] \/ (j = i /\ cards'[j] \in Card)
  BY Moves DEF IInv
<1>2. CardsOK'
  BY <1>1 DEF IInv, CardsOK
<1>3. GoalsSound'
  BY <1>1, UntiedSound, SameGoalsSound DEF IInv, MoveInitiative
<1> QED
  BY <1>2, <1>3 DEF IInv

LEMMA DeleteInitiativeOK ==
    ASSUME IInv, NEW i \in Initiatives, NEW confirm, DeleteInitiative(i, confirm)
    PROVE  IInv'
<1>1. Live' = Live \ {i} /\ \A j \in Live' : cards'[j] = cards[j]
  BY DEF DeleteInitiative, Without, Except, Live
<1>2. CardsOK'
  BY <1>1 DEF IInv, CardsOK
<1> QED
  BY <1>1, <1>2, UntiedSound DEF IInv, DeleteInitiative

LEMMA SubmitPrePIOK ==
    ASSUME IInv, NEW teams, SubmitPrePI(teams)
    PROVE  IInv'
<1> DEFINE cand == Candidates(teams)
<1>1. cand \subseteq Live
  BY DEF Candidates
<1>2. Live' = Live /\ \A i \in Live : cards'[i] = [cards[i] EXCEPT !.on_board = @ \/ i \in cand]
  BY DEF SubmitPrePI, Live
<1>3. CardsOK'
  <2>1. ASSUME NEW i \in Live
        PROVE  cards'[i] \in Card
    <3>1. cards[i] \in Card
      BY DEF IInv, CardsOK
    <3>2. CASE i \in cand
      <4>1. cards'[i] = [cards[i] EXCEPT !.on_board = TRUE]
        BY <1>1, <1>2, <3>2
      <4> QED
        BY <3>1, <4>1 DEF Card
    <3>3. CASE i \notin cand
      <4>1. cards'[i] = cards[i]
        BY <1>2, <3>1, <3>3 DEF Card
      <4> QED
        BY <3>1, <4>1
    <3> QED
      BY <3>2, <3>3
  <2> QED
    BY <1>2, <2>1 DEF IInv, CardsOK
<1>4. PICK goalOf \in [cand -> GoalIds] :
          LET filed == {goalOf[i] : i \in cand}
              subject(g) == CHOOSE i \in cand : goalOf[i] = g
          IN goals' = [g \in DOMAIN goals \cup filed |->
                          IF g \in filed
                          THEN Filed(g, Executor[subject(g)], subject(g), cards[subject(g)].text)
                          ELSE goals[g]]
  BY DEF SubmitPrePI
<1> DEFINE filed == {goalOf[i] : i \in cand}
           subject(g) == CHOOSE i \in cand : goalOf[i] = g
<1> HIDE DEF cand
<1>5. \A g \in filed : subject(g) \in cand
  OBVIOUS
<1>6. \A g \in DOMAIN goals' :
          IF g \in filed
          THEN goals'[g] = Filed(g, Executor[subject(g)], subject(g), cards[subject(g)].text)
          ELSE g \in DOMAIN goals /\ goals'[g] = goals[g]
  BY <1>4
<1> HIDE DEF filed, subject
<1>7. \A i \in cand : i \in Live /\ cards[i].text \in Texts
  BY <1>1 DEF IInv, CardsOK, Card
<1>8. \A g \in DOMAIN goals' : Sound(goals'[g], Live)
  BY <1>5, <1>6, <1>7, FiledSound DEF IInv, GoalsSound
<1> QED
  BY <1>2, <1>3, <1>8 DEF IInv, GoalsSound

-----------------------------------------------------------------------------
LEMMA Invariance == Spec => []IInv
<1>1. Init => IInv
  BY DEF Init, IInv, GoalsSound, CardsOK, Live, Empty
<1>2. IInv /\ [Next]_vars => IInv'
  <2> SUFFICES ASSUME IInv, [Next]_vars
               PROVE  IInv'
    OBVIOUS
  <2>0. GoalTeams \subseteq Teams \cup {None}
    BY CycleGoalsAssumption
  <2>1. CASE GuardedCommand(TRUE)
    BY <2>0, <2>1, UpdateGoalOK, DeleteGoalOK, RemoveLinkOK, MoveInitiativeOK, DeleteInitiativeOK
    DEF GuardedCommand
  <2>2. CASE FreeCommand
    <3> USE <2>0
    <3>1. ASSUME NEW links \in Numberings, NEW g \in GoalIds, NEW t \in GoalTeams,
                 NEW text \in Texts, CreateGoal(g, t, links, text)
          PROVE  IInv'
      BY <3>1, CreateGoalOK
    <3>2. ASSUME NEW i \in Live \cup {None}, NEW g \in GoalIds, NEW t \in GoalTeams,
                 NEW text \in Texts, CreateUnlinkedGoal(g, t, i, text)
          PROVE  IInv'
      BY <3>2, CreateUnlinkedGoalOK
    <3>3. ASSUME NEW g \in GoalIds, NEW i \in Live, AddLink(g, i)
          PROVE  IInv'
      BY <3>3, AddLinkOK
    <3>4. ASSUME NEW i \in Initiatives, NEW text \in Texts, CreateInitiative(i, text)
          PROVE  IInv'
      BY <3>4, CreateInitiativeOK
    <3>5. ASSUME NEW S \in SUBSET Initiatives, NEW text \in [S -> Texts], Dispatch(text)
          PROVE  IInv'
      BY <3>5, DispatchOK
    <3>6. ASSUME NEW i \in Live, NEW text \in Texts, NEW asked \in Requests,
                 NEW gone \in SUBSET ServiceCards, EditInitiative(i, text, asked, gone)
          PROVE  IInv'
      BY <3>6, EditInitiativeOK
    <3>7. ASSUME NEW teams, SubmitPrePI(teams)
          PROVE  IInv'
      BY <3>7, SubmitPrePIOK
    <3> QED
      BY <2>2, <3>1, <3>2, <3>3, <3>4, <3>5, <3>6, <3>7 DEF FreeCommand
  <2>3. CASE \E S \in SUBSET GoalIds : \E rows \in [S -> Row] : ReplaceGoals(rows)
    BY <2>3, ReplaceGoalsOK
  <2>4. CASE PutInitiatives
    BY <2>4, PutPrePIOK, PutTeamBoardsOK DEF PutInitiatives
  <2>5. CASE UNCHANGED vars
    BY <2>5, SameGoalsSound DEF vars, IInv, CardsOK, Live
  <2> QED
    BY <2>1, <2>2, <2>3, <2>4, <2>5 DEF Next
<1> QED
  BY <1>1, <1>2, PTL DEF Spec

(* A goal is filed under an initiative it is linked to, and neither its    *)
(* links nor its first initiative outlive the initiatives they name,       *)
(* whatever moves, deletes, publishes or replaces                          *)
(* (_delete_or_unlink_goals_for_initiatives, _set_goal_links).            *)
THEOREM GoalsStayLinked == Spec => []PrimaryLinked
<1>1. IInv => PrimaryLinked
  BY DEF IInv, GoalsSound, Sound, PrimaryLinked, Linked
<1> QED
  BY <1>1, Invariance, PTL

-----------------------------------------------------------------------------
(* What a step publishes outside the planned block. *)
StrayStep ==
    \/ \A i \in Strays' \ Strays : i \in ServiceCards' /\ (i \in Live => ~ cards[i].on_board)
    \/ PutInitiatives

(* Initiatives keep their flags. *)
FlagsKept ==
    \A i \in Live' : cards'[i].on_board /\ ~ cards'[i].pre_planned =>
        i \in Live /\ cards[i].on_board /\ ~ cards[i].pre_planned

LEMMA KeptFlags == FlagsKept => StrayStep
BY DEF FlagsKept, StrayStep, Strays, Live

LEMMA RewrittenFlags ==
    ASSUME CardsOK, NEW S, NEW text, cards' = Rewritten(S, text)
    PROVE  FlagsKept
<1> SUFFICES ASSUME NEW i \in Live', cards'[i].on_board, ~ cards'[i].pre_planned
             PROVE  i \in Live /\ cards[i].on_board /\ ~ cards[i].pre_planned
  BY DEF FlagsKept
<1>1. i \in Live /\ cards'[i] \in {cards[i], [cards[i] EXCEPT !.text = text]}
  BY DEF Rewritten, Live
<1>2. cards[i] \in Card
  BY <1>1 DEF CardsOK
<1> QED
  BY <1>1, <1>2 DEF Card

LEMMA EditStray ==
    ASSUME IInv, NEW i \in Live, NEW text \in Texts, NEW asked \in Requests,
           NEW gone \in SUBSET ServiceCards, EditInitiative(i, text, asked, gone)
    PROVE  StrayStep
<1> DEFINE base == [cards EXCEPT ![i].text = text]
           served == Served(base, asked)
<1>1. /\ DOMAIN base = Live
      /\ \A j \in Live : /\ base[j] \in Card
                         /\ base[j].on_board = cards[j].on_board
                         /\ base[j].pre_planned = cards[j].pre_planned
  BY EditedOK DEF IInv
<1>2. cards' = [j \in DOMAIN served \ gone |-> served[j]]
  BY DEF EditInitiative, Except
<1> HIDE DEF base
<1>3. \A j \in DOMAIN served :
          /\ j \notin Live => served[j].generated
          /\ j \in Live => served[j] = base[j] \/ (served[j].generated /\ ~ base[j].on_board)
  BY <1>1, ServedOK
<1> HIDE DEF served
<1> SUFFICES ASSUME NEW j \in Strays' \ Strays
             PROVE  j \in ServiceCards' /\ (j \in Live => ~ cards[j].on_board)
  BY DEF StrayStep
<1>4. /\ j \in DOMAIN served /\ j \in Live' /\ cards'[j] = served[j]
      /\ served[j].on_board /\ ~ served[j].pre_planned
  BY <1>2 DEF Strays, Live
<1>5. j \in Live => ~ (cards[j].on_board /\ ~ cards[j].pre_planned)
  BY DEF Strays
<1>6. served[j].generated /\ (j \in Live => ~ cards[j].on_board)
  BY <1>1, <1>3, <1>4, <1>5
<1> QED
  BY <1>4, <1>6 DEF ServiceCards

LEMMA StrayNext ==
    ASSUME IInv, Next
    PROVE  StrayStep
<1>0. CardsOK
  BY DEF IInv
<1>1. ASSUME GuardedCommand(TRUE)
      PROVE  FlagsKept
  <2>1. ASSUME NEW g, NEW t, NEW links, NEW text, UpdateGoal(g, t, links, text, TRUE)
        PROVE  FlagsKept
    BY <1>0, <2>1, RewrittenFlags DEF UpdateGoal
  <2>2. ASSUME UNCHANGED cards
        PROVE  FlagsKept
    BY <2>2 DEF FlagsKept, Live
  <2>3. ASSUME NEW i, NEW planned \in BOOLEAN, MoveInitiative(i, planned, TRUE)
        PROVE  FlagsKept
    BY <1>0, <2>3, Moves DEF FlagsKept
  <2>4. ASSUME NEW i, DeleteInitiative(i, TRUE)
        PROVE  FlagsKept
    BY <2>4 DEF DeleteInitiative, Without, Except, FlagsKept, Live
  <2> QED
    BY <1>1, <2>1, <2>2, <2>3, <2>4 DEF GuardedCommand, DeleteGoal, RemoveLink
<1>2. ASSUME FreeCommand
      PROVE  StrayStep
  <2>1. ASSUME NEW g, NEW t, NEW links, NEW text, CreateGoal(g, t, links, text)
        PROVE  FlagsKept
    BY <1>0, <2>1, RewrittenFlags DEF CreateGoal
  <2>2. ASSUME NEW g, NEW t, NEW i, NEW text, CreateUnlinkedGoal(g, t, i, text)
        PROVE  FlagsKept
    BY <2>2 DEF CreateUnlinkedGoal, FlagsKept, Live
  <2>3. ASSUME NEW g, NEW i, AddLink(g, i)
        PROVE  FlagsKept
    BY <1>0, <2>3, RewrittenFlags DEF AddLink
  <2>4. ASSUME NEW i, NEW text, CreateInitiative(i, text)
        PROVE  FlagsKept
    BY <2>4 DEF CreateInitiative, NewCard, With, FlagsKept, Live
  <2>5. ASSUME NEW text, Dispatch(text)
        PROVE  FlagsKept
    <3> SUFFICES ASSUME NEW i \in Live', cards'[i].on_board, ~ cards'[i].pre_planned
                 PROVE  i \in Live /\ cards[i].on_board /\ ~ cards[i].pre_planned
      BY DEF FlagsKept
    <3>1. i \notin Live => cards'[i] = NewCard(FALSE, text[i])
      BY <2>5 DEF Dispatch, Live
    <3>2. i \in Live
      BY <3>1 DEF NewCard
    <3>3. cards'[i] \in {cards[i], [cards[i] EXCEPT !.generated = FALSE, !.text = text[i]]}
      BY <2>5, <3>2 DEF Dispatch, Live
    <3>4. cards[i] \in Card
      BY <1>0, <3>2 DEF CardsOK
    <3> QED
      BY <3>2, <3>3, <3>4 DEF Card
  <2>6. ASSUME NEW teams, SubmitPrePI(teams)
        PROVE  FlagsKept
    <3> SUFFICES ASSUME NEW i \in Live', cards'[i].on_board, ~ cards'[i].pre_planned
                 PROVE  i \in Live /\ cards[i].on_board /\ ~ cards[i].pre_planned
      BY DEF FlagsKept
    <3> DEFINE cand == Candidates(teams)
    <3>1. i \in Live /\ cards'[i] = [cards[i] EXCEPT !.on_board = @ \/ i \in cand]
      BY <2>6 DEF SubmitPrePI, Live
    <3>2. cards[i] \in Card /\ (i \in cand => cards[i].pre_planned)
      BY <1>0, <3>1 DEF CardsOK, Candidates
    <3> HIDE DEF cand
    <3>3. /\ cards'[i].pre_planned = cards[i].pre_planned
          /\ cards'[i].on_board = (cards[i].on_board \/ i \in cand)
      BY <3>1, <3>2 DEF Card
    <3> QED
      BY <3>1, <3>2, <3>3
  <2>7. FlagsKept => StrayStep
    BY KeptFlags
  <2> QED
    BY <1>2, <2>1, <2>2, <2>3, <2>4, <2>5, <2>6, <2>7, EditStray DEF FreeCommand
<1>3. ASSUME NEW S \in SUBSET GoalIds, NEW rows \in [S -> Row], ReplaceGoals(rows)
      PROVE  FlagsKept
  <2> SUFFICES ASSUME NEW i \in Live', cards'[i].on_board, ~ cards'[i].pre_planned
               PROVE  i \in Live /\ cards[i].on_board /\ ~ cards[i].pre_planned
    BY DEF FlagsKept
  <2>1. PICK text : i \in Live /\ cards'[i] \in {cards[i], [cards[i] EXCEPT !.text = text]}
    BY <1>3 DEF ReplaceGoals, Live
  <2>2. cards[i] \in Card
    BY <1>0, <2>1 DEF CardsOK
  <2> QED
    BY <2>1, <2>2 DEF Card
<1> QED
  BY <1>1, <1>2, <1>3, KeptFlags DEF Next, StrayStep

(* Nothing gets on the boards outside the planned block, or leaves the      *)
(* block while it is on the boards, but service cards that a form publishes *)
(* and what the PUTs of Pre PI and of the team boards send.                 *)
THEOREM PublishedArePlanned == Spec => OnlyServiceCardsStray
<1>1. IInv /\ [Next]_vars => [StrayStep]_vars
  BY StrayNext
<1>2. Spec => [][StrayStep]_vars
  BY Invariance, <1>1, PTL DEF Spec
<1> QED
  BY <1>2 DEF OnlyServiceCardsStray, StrayStep

-----------------------------------------------------------------------------
(* Nothing that a confirmation is asked for is lost. *)
GoalsKept ==
    \A g \in DOMAIN goals : DOMAIN goals[g].links # {} =>
        g \in DOMAIN goals' /\ DOMAIN goals[g].links \subseteq DOMAIN goals'[g].links

BoardKept == \A i \in Live : cards[i].on_board => i \in DOMAIN cards' /\ cards'[i].on_board

LEMMA RewrittenKept ==
    ASSUME CardsOK, NEW S, NEW text, cards' = Rewritten(S, text)
    PROVE  BoardKept
<1> SUFFICES ASSUME NEW i \in Live, cards[i].on_board
             PROVE  i \in DOMAIN cards' /\ cards'[i].on_board
  BY DEF BoardKept
<1>1. cards[i] \in Card
  BY DEF CardsOK
<1>2. i \in DOMAIN cards' /\ cards'[i] \in {cards[i], [cards[i] EXCEPT !.text = text]}
  BY DEF Rewritten
<1> QED
  BY <1>1, <1>2 DEF Card

LEMMA OneGoalKept ==
    ASSUME NEW g, NEW goal,
           g \in DOMAIN goals => DOMAIN goals[g].links \subseteq DOMAIN goal.links,
           goals' = With(goals, g, goal) \/ goals' = [goals EXCEPT ![g] = goal]
    PROVE  GoalsKept
<1> SUFFICES ASSUME NEW h \in DOMAIN goals
             PROVE  h \in DOMAIN goals' /\ DOMAIN goals[h].links \subseteq DOMAIN goals'[h].links
  BY DEF GoalsKept
<1> QED
  BY DEF With

LEMMA SameGoalsKept == goals' = goals => GoalsKept
BY DEF GoalsKept

(* The commands that ask, without their confirmation. *)
LEMMA UnconfirmedKept ==
    ASSUME IInv, GuardedCommand(FALSE)
    PROVE  GoalsKept /\ BoardKept
<1>0. CardsOK /\ GoalsSound
  BY DEF IInv
<1>1. ASSUME NEW links \in Numberings \cup {None}, NEW g \in GoalIds, NEW t, NEW text \in Texts,
             UpdateGoal(g, t, links, text, FALSE)
      PROVE  GoalsKept /\ BoardKept
  <2> DEFINE new == Relinked(g, links)
  <2>1. DOMAIN goals[g].links \subseteq DOMAIN new
    BY <1>1 DEF UpdateGoal
  <2>2. PICK i : goals' = [goals EXCEPT ![g] = Goal(t, i, new, text)]
    BY <1>1 DEF UpdateGoal, Goal
  <2>3. Goal(t, i, new, text).links = new
    BY DEF Goal
  <2> HIDE DEF new
  <2>4. GoalsKept
    BY <2>1, <2>2, <2>3, OneGoalKept
  <2>5. BoardKept
    BY <1>0, <1>1, RewrittenKept DEF UpdateGoal
  <2> QED
    BY <2>4, <2>5
<1>2. ASSUME NEW g \in GoalIds, DeleteGoal(g, FALSE)
      PROVE  GoalsKept /\ BoardKept
  <2>1. DOMAIN goals[g].links = {}
    BY <1>2 DEF DeleteGoal, Linked
  <2> QED
    BY <1>2, <2>1 DEF DeleteGoal, Without, Except, GoalsKept, BoardKept, Live
<1>3. ASSUME NEW i \in Initiatives, NEW planned \in BOOLEAN, MoveInitiative(i, planned, FALSE)
      PROVE  GoalsKept /\ BoardKept
  <2>1. ~ (~planned /\ cards[i].on_board)
    BY <1>3, Zenon DEF MoveInitiative
  <2>2. goals' = goals
    BY <1>3, <2>1, Zenon DEF MoveInitiative
  <2>3. BoardKept
    BY <1>0, <1>3, <2>1, Moves DEF BoardKept, Live
  <2> QED
    BY <2>2, <2>3, SameGoalsKept
<1>4. ASSUME NEW i \in Initiatives, DeleteInitiative(i, FALSE)
      PROVE  GoalsKept /\ BoardKept
  <2>1. Tied({i}) = {} /\ ~ cards[i].on_board
    BY <1>4 DEF DeleteInitiative
  <2>2. BoardKept
    BY <1>4, <2>1 DEF DeleteInitiative, Without, Except, BoardKept, Live
  <2>3. Untied({i})
    BY <1>4 DEF DeleteInitiative
  <2>4. \A g \in DOMAIN goals : g \in DOMAIN goals' /\ goals'[g] = goals[g]
    BY <1>0, <2>1, <2>3, UntiedGoals
  <2> QED
    BY <2>2, <2>4 DEF GoalsKept
<1>5. ASSUME NEW g, NEW i, RemoveLink(g, i, FALSE)
      PROVE  FALSE
  BY <1>5 DEF RemoveLink
<1> QED
  BY <1>1, <1>2, <1>3, <1>4, <1>5, CycleGoalsAssumption DEF GuardedCommand

LEMMA NoLosers == GoalsKept /\ BoardKept => Losers = {}
BY DEF GoalsKept, BoardKept, Losers

(* A form loses the service cards that go, and no other. *)
LEMMA EditLosers ==
    ASSUME IInv, NEW i \in Live, NEW text \in Texts, NEW asked \in Requests,
           NEW gone \in SUBSET ServiceCards, EditInitiative(i, text, asked, gone)
    PROVE  Losers \subseteq ServiceCards \ DOMAIN cards'
<1> DEFINE base == [cards EXCEPT ![i].text = text]
           served == Served(base, asked)
<1>1. /\ DOMAIN base = Live
      /\ \A j \in Live : base[j] \in Card /\ base[j].on_board = cards[j].on_board
  BY EditedOK DEF IInv
<1>2. cards' = [j \in DOMAIN served \ gone |-> served[j]] /\ Untied(gone)
  BY DEF EditInitiative, Except
<1> HIDE DEF base
<1>0. \A j \in DOMAIN base : base[j] \in Card
  BY <1>1
<1>3. /\ DOMAIN served = DOMAIN base \cup DOMAIN asked
      /\ \A j \in DOMAIN served : j \in DOMAIN base =>
             served[j] = base[j] \/ (served[j].generated /\ ~ base[j].on_board)
  BY <1>0, ServedOK
<1> HIDE DEF served
<1>4. \A j \in Live \ gone : j \in DOMAIN cards' /\ (cards[j].on_board => cards'[j].on_board)
  BY <1>1, <1>2, <1>3
<1>5. \A g \in DOMAIN goals : \A j \in DOMAIN goals[g].links \ gone :
          g \in DOMAIN goals' /\ j \in DOMAIN goals'[g].links
  BY <1>2, UntiedKept DEF IInv
<1>6. Losers \subseteq gone
  BY <1>4, <1>5 DEF Losers
<1>7. gone \cap DOMAIN cards' = {}
  BY <1>2
<1> QED
  BY <1>6, <1>7

(* The commands that never ask. *)
LEMMA FreeKept ==
    ASSUME IInv, FreeCommand
    PROVE  Losers \subseteq ServiceCards \ DOMAIN cards'
<1>0. CardsOK /\ GoalsSound
  BY DEF IInv
<1>1. ASSUME NEW links, NEW g, NEW t, NEW text, CreateGoal(g, t, links, text)
      PROVE  GoalsKept /\ BoardKept
  <2>1. BoardKept
    BY <1>0, <1>1, RewrittenKept DEF CreateGoal
  <2>2. PICK goal : goals' = With(goals, g, goal)
    BY <1>1 DEF CreateGoal
  <2> QED
    BY <1>1, <2>1, <2>2, OneGoalKept DEF CreateGoal
<1>2. ASSUME NEW i, NEW g, NEW t, NEW text, CreateUnlinkedGoal(g, t, i, text)
      PROVE  GoalsKept /\ BoardKept
  <2>1. PICK goal : goals' = With(goals, g, goal)
    BY <1>2 DEF CreateUnlinkedGoal
  <2>2. BoardKept
    BY <1>2 DEF CreateUnlinkedGoal, BoardKept, Live
  <2> QED
    BY <1>2, <2>1, <2>2, OneGoalKept DEF CreateUnlinkedGoal
<1>3. ASSUME NEW g \in GoalIds, NEW i \in Live, AddLink(g, i)
      PROVE  GoalsKept /\ BoardKept
  <2> DEFINE old == goals[g].links
             new == IF i \in DOMAIN old THEN old ELSE With(old, i, Cardinality(DOMAIN old))
  <2>1. g \in DOMAIN goals
    BY <1>3 DEF AddLink
  <2>2. PICK f : goals' = [goals EXCEPT ![g].links = new, ![g].first = f]
    BY <1>3 DEF AddLink
  <2>3. IsMap(old) /\ DOMAIN goals[g] = Fields
    BY <1>0, <2>1 DEF GoalsSound, Sound
  <2>4. DOMAIN old \subseteq DOMAIN new
    BY <2>3, WithMaps
  <2> DEFINE goal == [goals[g] EXCEPT !.links = new, !.first = f]
  <2>5. goals' = [goals EXCEPT ![g] = goal]
    BY <1>0, <2>1, <2>2, RelinkedGoals
  <2> HIDE DEF old, new
  <2>6. goal.links = new
    BY <2>3 DEF Fields
  <2> HIDE DEF goal
  <2>7. GoalsKept
    BY <2>4, <2>5, <2>6, OneGoalKept DEF old
  <2>8. BoardKept
    BY <1>0, <1>3, RewrittenKept DEF AddLink
  <2> QED
    BY <2>7, <2>8
<1>4. ASSUME NEW i \in Initiatives, NEW text, CreateInitiative(i, text)
      PROVE  GoalsKept /\ BoardKept
  BY <1>4, SameGoalsKept DEF CreateInitiative, With, BoardKept, Live
<1>6. ASSUME NEW text, Dispatch(text)
      PROVE  GoalsKept /\ BoardKept
  <2>1. ASSUME NEW i \in Live, cards[i].on_board
        PROVE  i \in DOMAIN cards' /\ cards'[i].on_board
    <3>1. i \in DOMAIN cards'
          /\ cards'[i] \in {cards[i], [cards[i] EXCEPT !.generated = FALSE, !.text = text[i]]}
      BY <1>6 DEF Dispatch
    <3>2. cards[i] \in Card
      BY <1>0 DEF CardsOK
    <3> QED
      BY <2>1, <3>1, <3>2 DEF Card
  <2> QED
    BY <1>6, <2>1, SameGoalsKept DEF Dispatch, BoardKept
<1>5. ASSUME NEW teams, SubmitPrePI(teams)
      PROVE  GoalsKept /\ BoardKept
  <2> DEFINE cand == Candidates(teams)
  <2>1. Live' = Live /\ \A i \in Live : cards'[i] = [cards[i] EXCEPT !.on_board = @ \/ i \in cand]
    BY <1>5 DEF SubmitPrePI, Live
  <2>2. ASSUME NEW i \in Live, cards[i].on_board
        PROVE  i \in DOMAIN cards' /\ cards'[i].on_board
    <3>1. cards[i] \in Card
      BY <1>0 DEF CardsOK
    <3>2. cards'[i].on_board = (cards[i].on_board \/ i \in cand)
      BY <2>1, <3>1 DEF Card
    <3> QED
      BY <2>1, <2>2, <3>2 DEF Live
  <2>3. PICK filed, subject :
            subject \in [filed -> Live] /\
            goals' = [g \in DOMAIN goals \cup filed |->
                          IF g \in filed
                          THEN Filed(g, Executor[subject[g]], subject[g], cards[subject[g]].text)
                          ELSE goals[g]]
    <3>1. PICK goalOf \in [cand -> GoalIds] :
              LET filed == {goalOf[i] : i \in cand}
                  subject(g) == CHOOSE i \in cand : goalOf[i] = g
              IN goals' = [g \in DOMAIN goals \cup filed |->
                              IF g \in filed
                              THEN Filed(g, Executor[subject(g)], subject(g), cards[subject(g)].text)
                              ELSE goals[g]]
      BY <1>5 DEF SubmitPrePI
    <3> DEFINE filed == {goalOf[i] : i \in cand}
               subject == [g \in filed |-> CHOOSE i \in cand : goalOf[i] = g]
    <3>2. subject \in [filed -> Live]
      BY DEF Candidates
    <3>3. goals' = [g \in DOMAIN goals \cup filed |->
                       IF g \in filed
                       THEN Filed(g, Executor[subject[g]], subject[g], cards[subject[g]].text)
                       ELSE goals[g]]
      BY <3>1
    <3> HIDE DEF filed, subject
    <3> QED
      BY <3>2, <3>3
  <2>4. ASSUME NEW g \in DOMAIN goals
        PROVE  g \in DOMAIN goals' /\ DOMAIN goals[g].links \subseteq DOMAIN goals'[g].links
    <3>1. g \in DOMAIN goals'
      BY <2>3
    <3>2. CASE g \in filed
      <4> DEFINE old == goals[g].links
                 new == IF subject[g] \in DOMAIN old THEN old ELSE With(old, subject[g], 0)
      <4>1. IsMap(old)
        BY <1>0 DEF GoalsSound, Sound
      <4>2. DOMAIN old \subseteq DOMAIN new
        BY <4>1, WithMaps
      <4>3. goals'[g] = Filed(g, Executor[subject[g]], subject[g], cards[subject[g]].text)
        BY <2>3, <3>2
      <4>4. goals'[g].links = new
        BY <4>3 DEF Filed
      <4> QED
        BY <3>1, <4>2, <4>4
    <3>3. CASE g \notin filed
      BY <2>3, <3>1, <3>3
    <3> QED
      BY <3>2, <3>3
  <2> QED
    BY <2>2, <2>4 DEF GoalsKept, BoardKept
<1> QED
  BY <1>1, <1>2, <1>3, <1>4, <1>5, <1>6, NoLosers, EditLosers DEF FreeCommand

LossConfirmed ==
    \/ Losers = {}
    \/ /\ ~ GuardedCommand(FALSE)
       /\ Losers \subseteq ServiceCards \ DOMAIN cards' \/ ~ FreeCommand

(* No command on goals or initiatives but the PUTs takes a link from a     *)
(* goal, deletes a linked goal or withdraws a publication without a        *)
(* confirmation, except for service cards that a form abandons and         *)
(* deletes with their goals (_replace_executors).                          *)
THEOREM NothingLostUnasked == Spec => LossesConfirmed
<1>1. IInv => LossConfirmed
  BY UnconfirmedKept, NoLosers, FreeKept DEF LossConfirmed
<1>2. IInv /\ [Next]_vars => [LossConfirmed]_vars
  BY <1>1
<1>3. Spec => [][LossConfirmed]_vars
  BY Invariance, <1>2, PTL DEF Spec
<1> QED
  BY <1>3 DEF LossesConfirmed, LossConfirmed
-----------------------------------------------------------------------------
(* What a submission publishes is there afterwards, with a goal of its own. *)
LEMMA SubmissionSettles ==
    ASSUME IInv, NEW teams, SubmitPrePI(teams)
    PROVE  Settled(teams)'
<1> DEFINE cand == Candidates(teams)
<1>1. \A i \in Live : cards[i] \in Card
  BY DEF IInv, CardsOK
<1>2. Live' = Live /\ \A i \in Live : cards'[i] = [cards[i] EXCEPT !.on_board = @ \/ i \in cand]
  BY DEF SubmitPrePI, Live
<1>3. \A i \in Live : cards'[i].pre_planned = cards[i].pre_planned /\ cards'[i].text = cards[i].text
  BY <1>1, <1>2 DEF Card
<1>4. Candidates(teams)' = cand /\ cand \subseteq Live
  BY <1>2, <1>3 DEF Candidates
<1>5. \A i \in cand : cards'[i].on_board
  <2>1. \A i \in cand : cards'[i] = [cards[i] EXCEPT !.on_board = TRUE]
    BY <1>2, <1>4
  <2> QED
    BY <1>1, <1>4, <2>1 DEF Card
<1>6. PICK goalOf \in [cand -> GoalIds] :
          /\ \A i, j \in cand : goalOf[i] = goalOf[j] => i = j
          /\ LET filed == {goalOf[i] : i \in cand}
                 subject(g) == CHOOSE i \in cand : goalOf[i] = g
             IN goals' = [g \in DOMAIN goals \cup filed |->
                             IF g \in filed
                             THEN Filed(g, Executor[subject(g)], subject(g), cards[subject(g)].text)
                             ELSE goals[g]]
  BY DEF SubmitPrePI
<1> HIDE DEF cand
<1> SUFFICES ASSUME NEW i \in cand
             PROVE  \E g \in Matching(Executor[i], i)' :
                        i \in DOMAIN goals'[g].links /\ goals'[g].text = cards'[i].text
  BY <1>4, <1>5 DEF Settled
<1> DEFINE g == goalOf[i]
           filed == {goalOf[j] : j \in cand}
           subject(h) == CHOOSE j \in cand : goalOf[j] = h
<1>7. g \in filed /\ subject(g) = i
  BY <1>6
<1>8. \A h \in filed : goals'[h] = Filed(h, Executor[subject(h)], subject(h), cards[subject(h)].text)
  BY <1>6
<1>9. g \in DOMAIN goals'
  BY <1>6, <1>7
<1> HIDE DEF filed, subject
<1>10. goals'[g] = Filed(g, Executor[i], i, cards[i].text)
  BY <1>7, <1>8
<1> HIDE DEF g
<1>11. /\ goals'[g].team = Executor[i] /\ goals'[g].first = i /\ goals'[g].text = cards[i].text
       /\ i \in DOMAIN goals'[g].links
  BY <1>10 DEF Filed, With
<1>12. cards'[i].text = cards[i].text
  BY <1>3, <1>4
<1> QED
  BY <1>9, <1>11, <1>12 DEF Matching

(* A submission leaves nothing to submit. *)
THEOREM SubmissionsSettle == Spec => SubmitSettles
<1> DEFINE Settling == \A teams \in SUBSET Teams : SubmitPrePI(teams) => Settled(teams)'
<1>1. IInv => Settling
  BY SubmissionSettles
<1>2. IInv /\ [Next]_vars => [Settling]_vars
  BY <1>1
<1>3. Spec => [][Settling]_vars
  BY Invariance, <1>2, PTL DEF Spec
<1> QED
  BY <1>3 DEF SubmitSettles

-----------------------------------------------------------------------------
(* The orders of the links: their number bounds them when they are given,  *)
(* and when one is appended.                                               *)
Last == Cardinality(Initiatives) - 1

Ordered(links) == \A i \in DOMAIN links : links[i] \in 0 .. Last

GoalFiled(goal) == goal.team \in Teams \cup {None} /\ Ordered(goal.links)

GoalsFiled == \A g \in DOMAIN goals : g \in GoalIds /\ GoalFiled(goals[g])

Filing == GoalsFiled /\ IsMap(cards)

LEMMA Count ==
    ASSUME NEW S \in SUBSET Initiatives
    PROVE  /\ IsFiniteSet(S) /\ Cardinality(S) \in Nat
           /\ Last \in Int /\ Cardinality(S) - 1 <= Last
<1>1. IsFiniteSet(Initiatives) /\ Cardinality(Initiatives) \in Nat
  BY CycleGoalsAssumption, FS_CardinalityType
<1>2. IsFiniteSet(S) /\ Cardinality(S) <= Cardinality(Initiatives)
  BY <1>1, FS_Subset
<1>3. Cardinality(S) \in Nat
  BY <1>2, FS_CardinalityType
<1> QED
  BY <1>1, <1>2, <1>3 DEF Last

LEMMA NumberingsOrdered ==
    ASSUME CardsOK, NEW links \in Numberings
    PROVE  Ordered(links)
<1>1. PICK S \in SUBSET Initiatives : links \in [S -> 0 .. Cardinality(S) - 1]
  BY DEF Numberings, Lists
<1> QED
  BY <1>1, Count DEF Ordered

LEMMA EmptyOrdered == Ordered(Empty)
BY EmptyLinks DEF Ordered

LEMMA ExceptOrdered ==
    ASSUME NEW links, Ordered(links), NEW S
    PROVE  Ordered(Except(links, S))
BY DEF Ordered, Except

(* A link is put first, or after the others. *)
LEMMA WithOrdered ==
    ASSUME NEW old, Ordered(old), DOMAIN old \subseteq Initiatives, NEW i \in Initiatives,
           NEW n, n = 0 \/ n = Cardinality(DOMAIN old)
    PROVE  Ordered(IF i \in DOMAIN old THEN old ELSE With(old, i, n))
<1>1. CASE i \in DOMAIN old
  BY <1>1
<1>2. CASE i \notin DOMAIN old
  <2>1. IsFiniteSet(DOMAIN old) /\ Cardinality(DOMAIN old) \in Nat /\ Last \in Int
    BY Count
  <2>2. Cardinality(DOMAIN old \cup {i}) = Cardinality(DOMAIN old) + 1
    BY <1>2, <2>1, FS_AddElement
  <2>3. DOMAIN old \cup {i} \in SUBSET Initiatives
    OBVIOUS
  <2>4. Cardinality(DOMAIN old \cup {i}) - 1 <= Last
    BY <2>3, Count
  <2>5. n \in 0 .. Last
    BY <2>1, <2>2, <2>4
  <2> QED
    BY <1>2, <2>5 DEF With, Ordered
<1> QED
  BY <1>1, <1>2

LEMMA FiledFiled ==
    ASSUME IInv, Filing, NEW g, NEW t \in Teams \cup {None}, NEW i \in Live, NEW text
    PROVE  GoalFiled(Filed(g, t, i, text))
<1> DEFINE old == IF g \in DOMAIN goals THEN goals[g].links ELSE Empty
           new == IF i \in DOMAIN old THEN old ELSE With(old, i, 0)
<1>1. Ordered(old) /\ DOMAIN old \subseteq Live
  BY EmptyOrdered, EmptyLinks DEF Filing, GoalsFiled, GoalFiled, IInv, GoalsSound, Sound
<1>2. Live \subseteq Initiatives
  BY DEF IInv, CardsOK
<1> HIDE DEF old
<1>3. Ordered(new)
  BY <1>1, <1>2, WithOrdered
<1>4. Filed(g, t, i, text).team = t /\ Filed(g, t, i, text).links = new
  BY DEF Filed, old
<1> HIDE DEF new
<1> QED
  BY <1>3, <1>4 DEF GoalFiled

LEMMA OneGoalFiled ==
    ASSUME GoalsFiled, NEW g \in GoalIds, NEW goal, GoalFiled(goal),
           goals' = With(goals, g, goal) \/ goals' = [goals EXCEPT ![g] = goal]
    PROVE  GoalsFiled'
<1> SUFFICES ASSUME NEW h \in DOMAIN goals'
             PROVE  h \in GoalIds /\ GoalFiled(goals'[h])
  BY DEF GoalsFiled, GoalFiled, Ordered
<1>1. h \in DOMAIN goals \cup {g} /\ (h # g => goals'[h] = goals[h])
  BY DEF With
<1>2. h = g => goals'[h] = goal
  BY DEF With
<1> QED
  BY <1>1, <1>2 DEF GoalsFiled

LEMMA RelinkFiled ==
    ASSUME IInv, GoalsFiled, NEW g \in DOMAIN goals, NEW links, Ordered(links), NEW f,
           goals' = [goals EXCEPT ![g].links = links, ![g].first = f]
    PROVE  GoalsFiled'
<1> DEFINE goal == [goals[g] EXCEPT !.links = links, !.first = f]
<1>1. GoalsSound /\ DOMAIN goals[g] = Fields /\ g \in GoalIds /\ goals[g].team \in Teams \cup {None}
  BY DEF IInv, GoalsSound, Sound, GoalsFiled, GoalFiled
<1>2. goals' = [goals EXCEPT ![g] = goal]
  BY <1>1, RelinkedGoals
<1>3. goal.team = goals[g].team /\ goal.links = links
  BY <1>1 DEF Fields
<1> HIDE DEF goal
<1>4. GoalFiled(goal)
  BY <1>1, <1>3 DEF GoalFiled
<1> QED
  BY <1>1, <1>2, <1>4, OneGoalFiled

LEMMA UntiedFiled ==
    ASSUME IInv, GoalsFiled, NEW S, Untied(S)
    PROVE  GoalsFiled'
<1> SUFFICES ASSUME NEW g \in DOMAIN goals'
             PROVE  g \in GoalIds /\ GoalFiled(goals'[g])
  BY DEF GoalsFiled, GoalFiled, Ordered
<1>1. g \in DOMAIN goals
  BY DEF Untied, Tied
<1> DEFINE rest == Except(goals[g].links, S)
<1>2. /\ g \in GoalIds /\ goals[g].team \in Teams \cup {None} /\ DOMAIN goals[g] = Fields
      /\ Ordered(goals[g].links) /\ GoalFiled(goals[g])
  BY <1>1 DEF IInv, GoalsSound, Sound, GoalsFiled, GoalFiled
<1>3. CASE g \notin Tied(S)
  BY <1>1, <1>2, <1>3, UntiedGoals DEF IInv
<1>4. CASE g \in Tied(S)
  <2>1. PICK f : goals'[g] = [goals[g] EXCEPT !.first = f, !.links = rest]
    BY <1>1, <1>4, UntiedGoals DEF IInv
  <2>2. Ordered(rest)
    BY <1>2, ExceptOrdered
  <2> HIDE DEF rest
  <2>3. goals'[g].team = goals[g].team /\ goals'[g].links = rest
    BY <1>2, <2>1 DEF Fields
  <2> QED
    BY <1>2, <2>2, <2>3 DEF GoalFiled
<1> QED
  BY <1>3, <1>4

LEMMA SameGoalsFiled ==
    ASSUME GoalsFiled, \A g \in DOMAIN goals' : g \in DOMAIN goals /\ goals'[g] = goals[g]
    PROVE  GoalsFiled'
BY DEF GoalsFiled, GoalFiled, Ordered

LEMMA CardsMap == IsMap(cards) /\ IInv /\ [Next]_vars => IsMap(cards')
<1> SUFFICES ASSUME IsMap(cards), [Next]_vars
             PROVE  IsMap(cards')
  OBVIOUS
<1>1. ASSUME \/ \E S, text : cards' = Rewritten(S, text)
             \/ \E i, card : cards' = With(cards, i, card)
             \/ \E i : cards' = Without(cards, i)
             \/ UNCHANGED cards
      PROVE  IsMap(cards')
  BY <1>1 DEF Rewritten, With, Without, Except, IsMap
<1>2. ASSUME NEW confirm, GuardedCommand(confirm)
      PROVE  IsMap(cards')
  <2>1. ASSUME NEW i, NEW planned, MoveInitiative(i, planned, confirm)
        PROVE  IsMap(cards')
    BY <2>1 DEF MoveInitiative, IsMap
  <2>2. ASSUME NEW i, DeleteInitiative(i, confirm)
        PROVE  IsMap(cards')
    BY <1>1, <2>2 DEF DeleteInitiative
  <2>3. ASSUME NEW g, NEW t, NEW links, NEW text, UpdateGoal(g, t, links, text, confirm)
        PROVE  IsMap(cards')
    BY <1>1, <2>3 DEF UpdateGoal
  <2>4. ASSUME NEW g, DeleteGoal(g, confirm)
        PROVE  IsMap(cards')
    BY <1>1, <2>4 DEF DeleteGoal
  <2>5. ASSUME NEW g, NEW i, RemoveLink(g, i, confirm)
        PROVE  IsMap(cards')
    BY <1>1, <2>5 DEF RemoveLink
  <2> QED
    BY <1>2, <2>1, <2>2, <2>3, <2>4, <2>5 DEF GuardedCommand
<1>3. CASE FreeCommand
  <2>1. ASSUME NEW g, NEW t, NEW links, NEW text, CreateGoal(g, t, links, text)
        PROVE  IsMap(cards')
    BY <1>1, <2>1 DEF CreateGoal
  <2>2. ASSUME NEW g, NEW t, NEW i, NEW text, CreateUnlinkedGoal(g, t, i, text)
        PROVE  IsMap(cards')
    BY <1>1, <2>2 DEF CreateUnlinkedGoal
  <2>3. ASSUME NEW g, NEW i, AddLink(g, i)
        PROVE  IsMap(cards')
    BY <1>1, <2>3 DEF AddLink
  <2>4. ASSUME NEW i, NEW text, CreateInitiative(i, text)
        PROVE  IsMap(cards')
    BY <1>1, <2>4 DEF CreateInitiative
  <2>5. ASSUME NEW i, NEW text, NEW asked, NEW gone, EditInitiative(i, text, asked, gone)
        PROVE  IsMap(cards')
    BY <2>5, ExceptMaps DEF EditInitiative
  <2>7. ASSUME NEW text, Dispatch(text)
        PROVE  IsMap(cards')
    BY <2>7 DEF Dispatch, IsMap
  <2>6. ASSUME NEW teams, SubmitPrePI(teams)
        PROVE  IsMap(cards')
    BY <2>6 DEF SubmitPrePI, IsMap
  <2> QED
    BY <1>3, <2>1, <2>2, <2>3, <2>4, <2>5, <2>6, <2>7 DEF FreeCommand
<1>4. ASSUME NEW rows, ReplaceGoals(rows)
      PROVE  IsMap(cards')
  BY <1>4 DEF ReplaceGoals, IsMap
<1>5. CASE PutInitiatives
  <2>1. ASSUME NEW plan, PutTeamBoards(plan)
        PROVE  IsMap(cards')
    BY <2>1 DEF PutTeamBoards, IsMap
  <2>2. ASSUME NEW plan, NEW asked, NEW gone, PutPrePI(plan, asked, gone)
        PROVE  IsMap(cards')
    BY <2>2, ExceptMaps DEF PutPrePI
  <2> QED
    BY <1>5, <2>1, <2>2 DEF PutInitiatives
<1>6. CASE UNCHANGED vars
  BY <1>6 DEF vars
<1> QED
  BY <1>2, <1>3, <1>4, <1>5, <1>6 DEF Next

LEMMA FilingStep == IInv /\ Filing /\ [Next]_vars => GoalsFiled'
<1> SUFFICES ASSUME IInv, Filing, [Next]_vars
             PROVE  GoalsFiled'
  OBVIOUS
<1>0. /\ GoalsFiled /\ CardsOK /\ GoalTeams \subseteq Teams \cup {None} /\ Live \subseteq Initiatives
      /\ Executor \in [Initiatives -> Teams \cup {None}]
  BY CycleGoalsAssumption DEF IInv, Filing, CardsOK
<1>1. ASSUME NEW links \in Numberings, NEW g \in GoalIds, NEW t \in GoalTeams, NEW text,
             CreateGoal(g, t, links, text)
      PROVE  GoalsFiled'
  <2>1. PICK i : goals' = With(goals, g, Goal(t, i, links, text))
    BY <1>1 DEF CreateGoal, Goal
  <2>2. GoalFiled(Goal(t, i, links, text))
    BY <1>0, NumberingsOrdered DEF GoalFiled, Goal
  <2> QED
    BY <1>0, <2>1, <2>2, OneGoalFiled
<1>2. ASSUME NEW i, NEW g \in GoalIds, NEW t \in GoalTeams, NEW text,
             CreateUnlinkedGoal(g, t, i, text)
      PROVE  GoalsFiled'
  <2>1. goals' = With(goals, g, Goal(t, i, Empty, text))
    BY <1>2 DEF CreateUnlinkedGoal, Goal
  <2>2. GoalFiled(Goal(t, i, Empty, text))
    BY <1>0, EmptyOrdered DEF GoalFiled, Goal
  <2> QED
    BY <1>0, <2>1, <2>2, OneGoalFiled
<1>3. ASSUME NEW links \in Numberings \cup {None}, NEW g \in GoalIds, NEW t \in GoalTeams, NEW text,
             NEW confirm, UpdateGoal(g, t, links, text, confirm)
      PROVE  GoalsFiled'
  <2> DEFINE new == Relinked(g, links)
  <2>1. PICK i : goals' = [goals EXCEPT ![g] = Goal(t, i, new, text)]
    BY <1>3 DEF UpdateGoal, Goal
  <2>2. Ordered(new)
    BY <1>0, <1>3, NumberingsOrdered DEF Relinked, GoalsFiled, GoalFiled, UpdateGoal
  <2> HIDE DEF new
  <2>3. GoalFiled(Goal(t, i, new, text))
    BY <1>0, <2>2 DEF GoalFiled, Goal
  <2> QED
    BY <1>0, <2>1, <2>3, OneGoalFiled
<1>4. ASSUME NEW g \in GoalIds, NEW confirm, DeleteGoal(g, confirm)
      PROVE  GoalsFiled'
  BY <1>0, <1>4, SameGoalsFiled DEF DeleteGoal, Without, Except
<1>5. ASSUME NEW g \in GoalIds, NEW i \in Live, AddLink(g, i)
      PROVE  GoalsFiled'
  <2> DEFINE old == goals[g].links
             new == IF i \in DOMAIN old THEN old ELSE With(old, i, Cardinality(DOMAIN old))
  <2>1. g \in DOMAIN goals
    BY <1>5 DEF AddLink
  <2>2. Ordered(old) /\ DOMAIN old \subseteq Initiatives /\ i \in Initiatives
    BY <1>0, <2>1 DEF GoalsFiled, GoalFiled, IInv, GoalsSound, Sound
  <2>3. PICK f : goals' = [goals EXCEPT ![g].links = new, ![g].first = f]
    BY <1>5 DEF AddLink
  <2>4. Ordered(new)
    <3> HIDE DEF old
    <3> QED
      BY <2>2, WithOrdered
  <2> HIDE DEF new
  <2> QED
    BY <1>0, <2>1, <2>3, <2>4, RelinkFiled
<1>6. ASSUME NEW g \in GoalIds, NEW i, NEW confirm, RemoveLink(g, i, confirm)
      PROVE  GoalsFiled'
  <2> DEFINE rest == Without(goals[g].links, i)
  <2>1. g \in DOMAIN goals
    BY <1>6 DEF RemoveLink
  <2>2. Ordered(rest)
    BY <1>0, <2>1, ExceptOrdered DEF GoalsFiled, GoalFiled, Without
  <2>3. PICK f : goals' = [goals EXCEPT ![g].links = rest, ![g].first = f]
    BY <1>6 DEF RemoveLink
  <2> HIDE DEF rest
  <2> QED
    BY <1>0, <2>1, <2>2, <2>3, RelinkFiled
<1>7. ASSUME NEW S \in SUBSET GoalIds, NEW rows \in [S -> Row], ReplaceGoals(rows)
      PROVE  GoalsFiled'
  <2>1. \A g \in DOMAIN rows : /\ rows[g].first \in Live /\ rows[g].team \in Teams \cup {None}
                               /\ g \in GoalIds
    BY <1>0 DEF Row
  <2>2. \A g \in DOMAIN goals' :
            g \in DOMAIN rows /\ goals'[g] = Filed(g, rows[g].team, rows[g].first, rows[g].text)
    BY <1>7 DEF ReplaceGoals
  <2>3. \A g \in DOMAIN goals' : g \in GoalIds /\ GoalFiled(goals'[g])
    BY <2>1, <2>2, FiledFiled
  <2> QED
    BY <2>3 DEF GoalsFiled, GoalFiled, Ordered
<1>8. ASSUME NEW i \in Initiatives, NEW planned, NEW confirm, MoveInitiative(i, planned, confirm)
      PROVE  GoalsFiled'
  BY <1>0, <1>8, UntiedFiled, SameGoalsFiled DEF MoveInitiative
<1>9. ASSUME NEW i \in Initiatives, NEW confirm, DeleteInitiative(i, confirm)
      PROVE  GoalsFiled'
  BY <1>0, <1>9, UntiedFiled DEF DeleteInitiative
<1>10. ASSUME goals' = goals
       PROVE  GoalsFiled'
  BY <1>0, <1>10, SameGoalsFiled
<1>15. ASSUME NEW i, NEW text, NEW asked, NEW gone, EditInitiative(i, text, asked, gone)
       PROVE  GoalsFiled'
  BY <1>0, <1>15, UntiedFiled DEF EditInitiative
<1>16. CASE PutInitiatives
  BY <1>0, <1>10, <1>16, UntiedFiled DEF PutInitiatives, PutTeamBoards, PutPrePI
<1>11. ASSUME NEW teams, SubmitPrePI(teams)
       PROVE  GoalsFiled'
  <2> DEFINE cand == Candidates(teams)
  <2>1. PICK goalOf \in [cand -> GoalIds] :
            LET filed == {goalOf[i] : i \in cand}
                subject(g) == CHOOSE i \in cand : goalOf[i] = g
            IN goals' = [g \in DOMAIN goals \cup filed |->
                            IF g \in filed
                            THEN Filed(g, Executor[subject(g)], subject(g), cards[subject(g)].text)
                            ELSE goals[g]]
    BY <1>11 DEF SubmitPrePI
  <2> DEFINE filed == {goalOf[i] : i \in cand}
             subject(g) == CHOOSE i \in cand : goalOf[i] = g
  <2>2. cand \subseteq Live
    BY DEF Candidates
  <2> HIDE DEF cand
  <2>3. \A g \in filed : subject(g) \in Live /\ g \in GoalIds
    BY <2>2
  <2>4. \A g \in DOMAIN goals' :
            IF g \in filed
            THEN goals'[g] = Filed(g, Executor[subject(g)], subject(g), cards[subject(g)].text)
            ELSE g \in DOMAIN goals /\ goals'[g] = goals[g]
    BY <2>1
  <2> HIDE DEF filed, subject
  <2>5. \A g \in filed : Executor[subject(g)] \in Teams \cup {None}
    BY <1>0, <2>3
  <2>6. ASSUME NEW g \in DOMAIN goals'
        PROVE  g \in GoalIds /\ GoalFiled(goals'[g])
    <3>1. CASE g \in filed
      BY <2>3, <2>4, <2>5, <3>1, FiledFiled
    <3>2. CASE g \notin filed
      BY <1>0, <2>4, <3>2 DEF GoalsFiled
    <3> QED
      BY <3>1, <3>2
  <2> QED
    BY <2>6 DEF GoalsFiled, GoalFiled, Ordered
<1>12. CASE UNCHANGED vars
  BY <1>0, <1>12, SameGoalsFiled DEF vars
<1>13. ASSUME NEW confirm \in BOOLEAN, GuardedCommand(confirm)
       PROVE  GoalsFiled'
  BY <1>3, <1>4, <1>6, <1>8, <1>9, <1>13 DEF GuardedCommand
<1>14. CASE FreeCommand
  BY <1>1, <1>2, <1>5, <1>10, <1>11, <1>14, <1>15 DEF FreeCommand, CreateInitiative, Dispatch
<1> QED
  BY <1>7, <1>12, <1>13, <1>14, <1>16 DEF Next

(* Goals and initiatives have their types; no order of a link exceeds the  *)
(* number of initiatives, however links are appended and removed.          *)
THEOREM GoalsWellFormed == Spec => []TypeOK
<1>1. Init => Filing
  BY DEF Init, Filing, GoalsFiled, GoalFiled, Empty, IsMap
<1>2. IInv /\ Filing /\ [Next]_vars => Filing'
  BY FilingStep, CardsMap DEF Filing, IsMap
<1>3. IInv /\ Filing => TypeOK
  <2> SUFFICES ASSUME IInv, Filing
               PROVE  TypeOK
    OBVIOUS
  <2>1. DOMAIN cards \subseteq Initiatives /\ cards \in [DOMAIN cards -> Card]
    BY DEF IInv, CardsOK, Live, Filing, IsMap
  <2>2. ASSUME NEW g \in DOMAIN goals
        PROVE  /\ g \in GoalIds
               /\ DOMAIN goals[g] = {"team", "first", "links", "text"}
               /\ goals[g].team \in Teams \cup {None}
               /\ goals[g].first \in Initiatives \cup {None}
               /\ DOMAIN goals[g].links \subseteq Initiatives
               /\ goals[g].links \in [DOMAIN goals[g].links -> 0 .. Last]
               /\ goals[g].text \in Texts
    <3>1. Sound(goals[g], Live) /\ Live \subseteq Initiatives
      BY DEF IInv, GoalsSound, CardsOK
    <3>2. g \in GoalIds /\ goals[g].team \in Teams \cup {None} /\ Ordered(goals[g].links)
      BY DEF Filing, GoalsFiled, GoalFiled
    <3>3. goals[g].links \in [DOMAIN goals[g].links -> 0 .. Last]
      BY <3>1, <3>2 DEF Sound, IsMap, Ordered
    <3> QED
      BY <3>1, <3>2, <3>3 DEF Sound, Fields
  <2> QED
    BY <2>1, <2>2 DEF TypeOK, Last
<1> QED
  BY <1>1, <1>2, <1>3, Invariance, PTL
  DEF Spec
=============================================================================
