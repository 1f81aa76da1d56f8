--------------------------- MODULE Backlog_proofs ---------------------------
(***************************************************************************)
(* Proofs about Backlog for any items, cycles, keys and teams: keys, links *)
(* and requests stay matched, every change is reported, a dispatch may be  *)
(* sent again, and only crossed requests make one fail.                    *)
(***************************************************************************)
EXTENDS Backlog, FiniteSetTheorems, SequenceTheorems, TLAPS

(* What every command preserves.  No part is inductive alone: links find the *)
(* copies that a dispatch renames, keys find the ones it adopts.             *)
IInv == TablesOK /\ KeysUnique /\ LinksMatch /\ CopiesAreNoServiceCards

(* The steps that LinksStay and SentForGood allow.                           *)
LinksKept ==
    \A n \in Linked : initiatives'[n] # None =>
        \/ initiatives'[n].item = initiatives[n].item
        \/ initiatives'[n].item = None /\ items'[initiatives[n].item] = None

SentKept ==
    \A x \in Live : items[x].sent /\ items'[x] # None =>
        items'[x].sent /\ items[x].sentTo \subseteq items'[x].sentTo

Good == IInv' /\ LinksKept /\ SentKept

-----------------------------------------------------------------------------
(* Rows and their fields.                                                    *)

LEMMA WrittenRow ==
    ASSUME IInv, NEW x \in Items, NEW key \in Keys, NEW draft \in Drafts
    PROVE  /\ Written(x, key, draft) \in Item
           /\ Written(x, key, draft) # None
           /\ Written(x, key, draft).key = key
           /\ Written(x, key, draft).sent = draft.sent
           /\ x \in Live => Written(x, key, draft).sentTo = items[x].sentTo
  <1>1. draft \in Draft
    BY BacklogAssumption
  <1>2. (IF x \in Live THEN items[x].sentTo ELSE {}) \in SUBSET Cycles
    BY DEF IInv, TablesOK, Live, Item
  <1>3. Written(x, key, draft) \in Item
    BY <1>1, <1>2 DEF Written, Item, Draft
  <1> QED
    BY <1>3, BacklogAssumption DEF Written

LEMMA ItemRow ==
    ASSUME IInv, NEW x \in Live
    PROVE  x \in Items /\ items[x] \in Item
  BY DEF IInv, TablesOK, Live

LEMMA InitiativeRow ==
    ASSUME IInv, NEW n \in Initiatives, initiatives[n] # None
    PROVE  initiatives[n] \in Initiative
  BY DEF IInv, TablesOK

-----------------------------------------------------------------------------
(* The commands on the backlog.                                              *)

LEMMA CreateItemGood ==
    ASSUME IInv, NEW x \in Items, NEW key \in Keys, NEW draft \in Drafts,
           CreateItem(x, key, draft)
    PROVE  Good
  <1>1. /\ x \notin Live /\ key \notin KeysOf(Live)
        /\ items' = [items EXCEPT ![x] = Written(x, key, draft)]
        /\ initiatives' = initiatives /\ requests' = requests /\ raised' = {Backlog}
    BY DEF CreateItem
  <1>2. TablesOK'
    BY <1>1, WrittenRow DEF IInv, TablesOK
  <1>3. /\ Live' = Live \cup {x} /\ items'[x].key = key
        /\ \A y \in Live : items'[y] = items[y]
    BY <1>1, WrittenRow DEF IInv, TablesOK, Live
  <1>4. KeysUnique'
    BY <1>1, <1>3 DEF IInv, KeysUnique, KeysOf, InCycle
  <1>5. LinksMatch'
    BY <1>1, <1>3 DEF IInv, LinksMatch, Linked
  <1>6. CopiesAreNoServiceCards'
    BY <1>1 DEF IInv, CopiesAreNoServiceCards, Linked
  <1>7. LinksKept /\ SentKept
    BY <1>1, <1>3 DEF LinksKept, SentKept
  <1> QED
    BY <1>2, <1>4, <1>5, <1>6, <1>7 DEF Good, IInv

LEMMA UpdateItemGood ==
    ASSUME IInv, NEW x \in Items, NEW key \in Keys, NEW draft \in Drafts,
           UpdateItem(x, key, draft)
    PROVE  Good
  <1>1. /\ x \in Live /\ key \notin KeysOf(Live \ {x})
        /\ draft.sent = items[x].sent
        /\ items' = [items EXCEPT ![x] = Written(x, key, draft)]
        /\ initiatives' = initiatives /\ requests' = requests /\ raised' = {Backlog}
    <2>1. items[x].sent \in BOOLEAN /\ draft.sent \in BOOLEAN
      BY BacklogAssumption, ItemRow DEF UpdateItem, Item, Draft
    <2> QED
      BY <2>1 DEF UpdateItem, Permitted
  <1>2. TablesOK'
    BY <1>1, WrittenRow DEF IInv, TablesOK
  <1>3. /\ Live' = Live /\ items'[x].key = key
        /\ items'[x].sent = items[x].sent /\ items'[x].sentTo = items[x].sentTo
        /\ \A y \in Live \ {x} : items'[y] = items[y]
    BY <1>1, WrittenRow DEF IInv, TablesOK, Live
  <1>4. KeysUnique'
    BY <1>1, <1>3 DEF IInv, KeysUnique, KeysOf, InCycle
  <1>5. LinksMatch'
    BY <1>1, <1>3 DEF IInv, LinksMatch, Linked
  <1>6. CopiesAreNoServiceCards'
    BY <1>1 DEF IInv, CopiesAreNoServiceCards, Linked
  <1>7. LinksKept /\ SentKept
    BY <1>1, <1>3 DEF LinksKept, SentKept
  <1> QED
    BY <1>2, <1>4, <1>5, <1>6, <1>7 DEF Good, IInv

(* Unlinking leaves cycles, keys and the links to other items alone.         *)
LEMMA UnlinkedRows ==
    ASSUME IInv, NEW gone \in SUBSET Items, initiatives' = Unlinked(gone)
    PROVE  /\ initiatives' \in [Initiatives -> Initiative \cup {None}]
           /\ \A n \in Initiatives :
                  /\ initiatives'[n] = None <=> initiatives[n] = None
                  /\ initiatives[n] # None =>
                         /\ initiatives'[n].cycle = initiatives[n].cycle
                         /\ initiatives'[n].key = initiatives[n].key
                         /\ initiatives'[n].generated = initiatives[n].generated
                         /\ initiatives'[n].item =
                                IF initiatives[n].item \in gone THEN None
                                ELSE initiatives[n].item
  <1> SUFFICES ASSUME NEW n \in Initiatives
               PROVE  /\ initiatives'[n] \in Initiative \cup {None}
                      /\ initiatives'[n] = None <=> initiatives[n] = None
                      /\ initiatives[n] # None =>
                             /\ initiatives'[n].cycle = initiatives[n].cycle
                             /\ initiatives'[n].key = initiatives[n].key
                             /\ initiatives'[n].generated = initiatives[n].generated
                             /\ initiatives'[n].item =
                                    IF initiatives[n].item \in gone THEN None
                                    ELSE initiatives[n].item
    BY DEF Unlinked
  <1>1. CASE n \in CopiesOf(gone)
    <2>1. /\ initiatives[n] \in Initiative /\ initiatives[n].item \in gone
          /\ initiatives[n] # None
      BY <1>1, InitiativeRow DEF CopiesOf, Linked
    <2>2. initiatives'[n] = [initiatives[n] EXCEPT !.item = None]
      BY <1>1 DEF Unlinked
    <2>3. initiatives'[n] \in Initiative
      BY <2>1, <2>2 DEF Initiative
    <2> QED
      BY <2>1, <2>2, <2>3, BacklogAssumption DEF Initiative
  <1>2. CASE n \notin CopiesOf(gone)
    <2>1. initiatives'[n] = initiatives[n]
      BY <1>2 DEF Unlinked
    <2>2. initiatives[n] # None => initiatives[n].item \notin gone
      BY <1>2, BacklogAssumption DEF CopiesOf, Linked
    <2> QED
      BY <2>1, <2>2 DEF IInv, TablesOK
  <1> QED
    BY <1>1, <1>2

(* Both commands that remove items: the rows that stay keep "sent" and the   *)
(* cycles they were sent to, their keys are distinct.                        *)
LEMMA RemovalGood ==
    ASSUME IInv, NEW gone \in SUBSET Live,
           TablesOK', initiatives' = Unlinked(gone),
           \A x \in Live : items'[x] = None <=> x \in gone,
           \A x \in Live \ gone : items'[x].sent = items[x].sent
                                  /\ items'[x].sentTo = items[x].sentTo,
           \A x, y \in Live' : items'[x].key = items'[y].key => x = y
    PROVE  Good
  <1>0. Live \subseteq Items /\ None \notin Items
    BY BacklogAssumption DEF Live
  <1>1. \A n \in Initiatives :
            /\ initiatives'[n] = None <=> initiatives[n] = None
            /\ initiatives[n] # None =>
                   /\ initiatives'[n].cycle = initiatives[n].cycle
                   /\ initiatives'[n].key = initiatives[n].key
                   /\ initiatives'[n].generated = initiatives[n].generated
                   /\ initiatives'[n].item = IF initiatives[n].item \in gone THEN None
                                             ELSE initiatives[n].item
    BY <1>0, UnlinkedRows
  <1>2. \A n \in Linked' : /\ n \in Linked /\ initiatives'[n].item = initiatives[n].item
                           /\ initiatives[n].item \notin gone
    BY <1>1 DEF Linked
  <1>3. Live \ gone \subseteq Live'
    BY <1>0 DEF Live
  <1>4. KeysUnique'
    BY <1>1 DEF IInv, KeysUnique, InCycle
  <1>5. LinksMatch'
    <2>1. ASSUME NEW n \in Linked'
          PROVE  /\ initiatives'[n].item \in Live' /\ items'[initiatives'[n].item].sent
                 /\ initiatives'[n].cycle \in items'[initiatives'[n].item].sentTo
      BY <1>1, <1>2, <1>3, <2>1 DEF IInv, LinksMatch, Linked
    <2>2. ASSUME NEW n \in Linked', NEW m \in Linked',
                 initiatives'[n].item = initiatives'[m].item,
                 initiatives'[n].cycle = initiatives'[m].cycle
          PROVE  n = m
      BY <1>1, <1>2, <2>2 DEF IInv, LinksMatch, Linked
    <2> QED
      BY <2>1, <2>2 DEF LinksMatch
  <1>6. CopiesAreNoServiceCards'
    BY <1>1, <1>2 DEF IInv, CopiesAreNoServiceCards, Linked
  <1>7. LinksKept
    BY <1>1 DEF LinksKept, Linked, IInv, LinksMatch
  <1>8. SentKept
    BY DEF SentKept
  <1> QED
    BY <1>4, <1>5, <1>6, <1>7, <1>8 DEF Good, IInv

LEMMA CyclesHoldingTyped ==
    ASSUME IInv, NEW gone \in SUBSET Items
    PROVE  CyclesHolding(gone) \subseteq Cycles
  BY InitiativeRow DEF CyclesHolding, CopiesOf, Linked, Initiative

LEMMA DeleteItemGood ==
    ASSUME IInv, NEW x \in Items, DeleteItem(x)
    PROVE  Good
  <1>1. /\ x \in Live /\ items' = [items EXCEPT ![x] = None]
        /\ initiatives' = Unlinked({x}) /\ requests' = requests
        /\ raised' = {Backlog} \cup CyclesHolding({x})
    BY DEF DeleteItem
  <1>2. TablesOK'
    <2>1. initiatives' \in [Initiatives -> Initiative \cup {None}]
      BY <1>1, UnlinkedRows
    <2>2. raised' \subseteq Cycles \cup {Backlog}
      BY <1>1, CyclesHoldingTyped
    <2> QED
      BY <1>1, <2>1, <2>2 DEF IInv, TablesOK
  <1>3. /\ Live' = Live \ {x} /\ items'[x] = None
        /\ \A y \in Live \ {x} : items'[y] = items[y]
    BY <1>1 DEF IInv, TablesOK, Live
  <1>4. \A y, z \in Live' : items'[y].key = items'[z].key => y = z
    BY <1>3 DEF IInv, KeysUnique
  <1>5. \A y \in Live : items'[y] = None <=> y \in {x}
    BY <1>3 DEF Live
  <1> QED
    BY <1>1, <1>2, <1>3, <1>4, <1>5, RemovalGood

LEMMA ReplaceBoardGood ==
    ASSUME IInv, NEW written \in SUBSET Items, NEW order \in Orders(written),
           NEW keys \in [written -> Keys], NEW drafts \in [written -> Drafts],
           Range(order) = written, ReplaceBoard(order, keys, drafts)
    PROVE  Good
  <1> DEFINE gone == Live \ written
  <1>1. /\ IsInjective(keys)
        /\ \A x \in written : Permitted(x, drafts[x])
        /\ items' = [x \in Items |-> IF x \in written
                                     THEN Written(x, keys[x], drafts[x]) ELSE None]
        /\ initiatives' = Unlinked(gone) /\ requests' = requests
        /\ raised' = {Backlog} \cup CyclesHolding(gone)
    BY DEF ReplaceBoard
  <1>2. gone \in SUBSET Live /\ gone \in SUBSET Items
    BY DEF Live
  <1>3. \A x \in written :
            /\ items'[x] \in Item /\ items'[x] # None
            /\ items'[x].key = keys[x]
            /\ x \in Live => items'[x].sent = items[x].sent
                             /\ items'[x].sentTo = items[x].sentTo
    <2> SUFFICES ASSUME NEW x \in written
                 PROVE  /\ items'[x] \in Item /\ items'[x] # None
                        /\ items'[x].key = keys[x]
                        /\ x \in Live => items'[x].sent = items[x].sent
                                         /\ items'[x].sentTo = items[x].sentTo
      OBVIOUS
    <2>1. x \in Items /\ keys[x] \in Keys /\ drafts[x] \in Drafts
      OBVIOUS
    <2>2. items'[x] = Written(x, keys[x], drafts[x])
      BY <1>1, <2>1
    <2>3. x \in Live => drafts[x].sent = items[x].sent
      <3>1. x \in Live => items[x].sent \in BOOLEAN
        BY ItemRow DEF Item
      <3>2. drafts[x].sent \in BOOLEAN
        BY <2>1, BacklogAssumption DEF Draft
      <3> QED
        BY <1>1, <3>1, <3>2 DEF Permitted
    <2> QED
      BY <2>1, <2>2, <2>3, WrittenRow
  <1>4. TablesOK'
    <2>1. initiatives' \in [Initiatives -> Initiative \cup {None}]
      BY <1>1, <1>2, UnlinkedRows
    <2>2. raised' \subseteq Cycles \cup {Backlog}
      BY <1>1, <1>2, CyclesHoldingTyped
    <2>3. items' \in [Items -> Item \cup {None}]
      BY <1>1, <1>3
    <2> QED
      BY <1>1, <2>1, <2>2, <2>3 DEF IInv, TablesOK
  <1>5. Live' = written
    BY <1>1, <1>3 DEF Live
  <1>6. \A y, z \in Live' : items'[y].key = items'[z].key => y = z
    BY <1>1, <1>3, <1>5 DEF IsInjective
  <1>7. \A y \in Live : items'[y] = None <=> y \in gone
    BY <1>5 DEF Live
  <1> QED
    BY <1>1, <1>2, <1>3, <1>4, <1>6, <1>7, RemovalGood

-----------------------------------------------------------------------------
(* Dispatch.                                                                 *)

(* No two items share a copy, and a copy is a free id or an initiative of    *)
(* the cycle.                                                                *)
LEMMA CopyChoice ==
    ASSUME IInv, NEW c \in Cycles, NEW t \in Tribes,
           NEW copy \in [Candidates(c, t) -> Initiatives], Assignment(c, t, copy)
    PROVE  /\ \A x, y \in Candidates(c, t) : copy[x] = copy[y] => x = y
           /\ \A x \in Candidates(c, t) :
                  \/ initiatives[copy[x]] = None
                  \/ copy[x] \in LinkedTo(c, x)
                  \/ /\ LinkedTo(c, x) = {}
                     /\ copy[x] \in Keyed(c, items[x].key)
                     /\ initiatives[copy[x]].item = None
  BY DEF Assignment, IsInjective, CopyIn

(* A linked initiative is a copy of the dispatch only for its own item; the  *)
(* copies a candidate has are its copies in the dispatch.                    *)
LEMMA LinkedCopies ==
    ASSUME IInv, NEW c \in Cycles, NEW t \in Tribes,
           NEW copy \in [Candidates(c, t) -> Initiatives], Assignment(c, t, copy),
           NEW x \in Candidates(c, t)
    PROVE  /\ copy[x] \in Linked => copy[x] \in LinkedTo(c, x)
           /\ \A m \in LinkedTo(c, x) : m = copy[x]
  <1>1. x \in Items /\ x # None
    BY BacklogAssumption DEF Candidates, Live
  <1>2. copy[x] \in Linked => copy[x] \in LinkedTo(c, x)
    BY CopyChoice DEF Linked
  <1>3. ASSUME NEW m \in LinkedTo(c, x)
        PROVE  m = copy[x]
    <2>1. copy[x] \in LinkedTo(c, x)
      BY <1>3 DEF Assignment, CopyIn
    <2> QED
      BY <1>1, <1>3, <2>1 DEF IInv, LinksMatch, LinkedTo, InCycle, Linked
  <1> QED
    BY <1>2, <1>3

(* An initiative of the cycle that holds a key the dispatch gives away is    *)
(* itself a copy of the dispatch.                                            *)
LEMMA KeysAreFreed ==
    ASSUME IInv, NEW c \in Cycles, NEW t \in Tribes,
           NEW copy \in [Candidates(c, t) -> Initiatives], Assignment(c, t, copy),
           NEW x \in Candidates(c, t), NEW m \in Keyed(c, items[x].key)
    PROVE  \E y \in Candidates(c, t) : copy[y] = m
  <1>1. CASE m \in LinkedTo(c, x)
    BY <1>1, LinkedCopies
  <1>2. CASE m \notin LinkedTo(c, x) /\ initiatives[m].item \in Candidates(c, t)
    <2>1. m \in LinkedTo(c, initiatives[m].item)
      BY DEF Keyed, LinkedTo
    <2> QED
      BY <1>2, <2>1, LinkedCopies
  <1>3. CASE m \notin LinkedTo(c, x) /\ initiatives[m].item \notin Candidates(c, t)
    <2>1. LinkedTo(c, x) = {} /\ initiatives[m].item = None
      BY <1>3 DEF Assignment, Conflict
    <2>2. copy[x] \in Keyed(c, items[x].key)
      BY <2>1 DEF Assignment, CopyIn
    <2>3. copy[x] = m
      BY <2>2 DEF IInv, KeysUnique, Keyed
    <2> QED
      BY <2>3
  <1> QED
    BY <1>1, <1>2, <1>3

LEMMA RenewedRow ==
    ASSUME IInv, NEW c \in Cycles, NEW x \in Live
    PROVE  /\ Renewed(c, x) \in Initiative
           /\ Renewed(c, x) # None
           /\ Renewed(c, x).cycle = c
           /\ Renewed(c, x).item = x
           /\ Renewed(c, x).key = items[x].key
           /\ ~Renewed(c, x).generated
  <1>1. x \in Items /\ items[x] \in Item
    BY ItemRow
  <1>2. Renewed(c, x) \in Initiative
    BY <1>1 DEF Renewed, CopyTeam, Item, Initiative
  <1> QED
    BY <1>2, BacklogAssumption DEF Renewed

LEMMA RowsAfterTyped ==
    ASSUME IInv, NEW done \in SUBSET Live, NEW copy
    PROVE  RowsAfter(copy, done) \subseteq Request
  <1> SUFFICES ASSUME NEW r \in requests
               PROVE  (IF \E x \in done : copy[x] = r.target
                       THEN [r EXCEPT !.key = items[CHOOSE x \in done : copy[x] = r.target].key]
                       ELSE r) \in Request
    BY DEF RowsAfter
  <1>1. r \in Request
    BY DEF IInv, TablesOK
  <1>2. CASE \E x \in done : copy[x] = r.target
    <2> DEFINE y == CHOOSE x \in done : copy[x] = r.target
    <2>1. y \in Live
      BY <1>2
    <2>2. items[y].key \in Keys
      BY <2>1, ItemRow DEF Item
    <2> HIDE DEF y
    <2>3. [r EXCEPT !.key = items[y].key] \in Request
      BY <1>1, <2>2 DEF Request
    <2> QED
      BY <1>2, <2>3 DEF y
  <1> QED
    BY <1>1, <1>2

LEMMA DispatchGood ==
    ASSUME IInv, NEW c \in Cycles, NEW t \in Tribes,
           NEW copy \in [Candidates(c, t) -> Initiatives], Dispatch(c, t, copy)
    PROVE  Good
  <1> DEFINE cand == Candidates(c, t)
             IsCopy(n) == \E x \in cand : copy[x] = n
             Source(n) == CHOOSE x \in cand : copy[x] = n
  <1>0. Assignment(c, t, copy) /\ cand \subseteq Live /\ Live \subseteq Items
    BY DEF Dispatch, Candidates, Live
  <1>1. /\ items' = [x \in Items |->
               IF x \in cand THEN [items[x] EXCEPT !.sent = TRUE, !.sentTo = @ \cup {c}]
               ELSE items[x]]
        /\ initiatives' = [n \in Initiatives |->
               IF IsCopy(n) THEN Renewed(c, Source(n)) ELSE initiatives[n]]
        /\ requests' = RowsAfter(copy, cand)
        /\ raised' = {Backlog, c}
    BY DEF Dispatch
  <1>2. \A x \in cand : Source(copy[x]) = x
    BY <1>0, CopyChoice
  <1> HIDE DEF Source
  <1>3. \A x \in cand : initiatives'[copy[x]] = Renewed(c, x)
    BY <1>1, <1>2
  <1>4. \A n \in Initiatives : ~IsCopy(n) => initiatives'[n] = initiatives[n]
    BY <1>1
  <1>5. ASSUME NEW x \in cand
        PROVE  /\ items'[x] \in Item /\ items'[x] # None /\ items'[x].key = items[x].key
               /\ items'[x].sent /\ items'[x].sentTo = items[x].sentTo \cup {c}
    <2>1. x \in Items /\ items[x] \in Item
      BY <1>0, ItemRow
    <2>2. items'[x] = [items[x] EXCEPT !.sent = TRUE, !.sentTo = items[x].sentTo \cup {c}]
      BY <1>1, <2>1
    <2>3. items'[x] \in Item
      BY <2>1, <2>2 DEF Item
    <2> QED
      BY <2>1, <2>2, <2>3, BacklogAssumption DEF Item
  <1>6. \A x \in Items \ cand : items'[x] = items[x]
    BY <1>1
  <1>7. /\ Live' = Live
        /\ \A x \in Live : /\ items'[x].key = items[x].key
                           /\ items[x].sent => items'[x].sent
                           /\ items[x].sentTo \subseteq items'[x].sentTo
    BY <1>0, <1>5, <1>6 DEF Live
  <1>8. TablesOK'
    <2>1. items' \in [Items -> Item \cup {None}]
      BY <1>1, <1>5, <1>6 DEF IInv, TablesOK
    <2>2. initiatives' \in [Initiatives -> Initiative \cup {None}]
      <3>1. ASSUME NEW n \in Initiatives
            PROVE  initiatives'[n] \in Initiative \cup {None}
        <4>1. CASE IsCopy(n)
          BY <1>0, <1>3, <4>1, RenewedRow
        <4>2. CASE ~IsCopy(n)
          BY <1>4, <4>2 DEF IInv, TablesOK
        <4> QED
          BY <4>1, <4>2
      <3> QED
        BY <1>1, <3>1
    <2>3. requests' \subseteq Request
      BY <1>0, <1>1, RowsAfterTyped
    <2> QED
      BY <1>1, <2>1, <2>2, <2>3 DEF TablesOK
  <1>9. ASSUME NEW n \in Initiatives, initiatives'[n] # None
        PROVE  \/ \E x \in cand : /\ n = copy[x] /\ initiatives'[n].cycle = c
                                  /\ initiatives'[n].item = x
                                  /\ initiatives'[n].key = items[x].key
                                  /\ ~initiatives'[n].generated
               \/ ~IsCopy(n) /\ initiatives'[n] = initiatives[n]
    BY <1>0, <1>3, <1>4, RenewedRow
  <1>10. KeysUnique'
    <2>1. ASSUME NEW n \in InCycle(c)', NEW m \in InCycle(c)',
                 initiatives'[n].key = initiatives'[m].key, IsCopy(n)
          PROVE  IsCopy(m)
      <3>1. PICK x \in cand : n = copy[x] /\ initiatives'[n].key = items[x].key
        BY <1>0, <1>3, <2>1, RenewedRow
      <3>2. CASE ~IsCopy(m)
        <4>1. m \in Keyed(c, items[x].key)
          BY <1>4, <2>1, <3>1, <3>2 DEF Keyed, InCycle
        <4> QED
          BY <1>0, <4>1, KeysAreFreed
      <3> QED
        BY <3>2
    <2>2. ASSUME NEW b \in Cycles, NEW n \in InCycle(b)', NEW m \in InCycle(b)',
                 initiatives'[n].key = initiatives'[m].key
          PROVE  n = m
      <3>1. n \in Initiatives /\ m \in Initiatives
            /\ initiatives'[n] # None /\ initiatives'[m] # None
            /\ initiatives'[n].cycle = b /\ initiatives'[m].cycle = b
        BY <2>2 DEF InCycle
      <3>2. CASE IsCopy(n) \/ IsCopy(m)
        <4>1. b = c
          BY <1>0, <1>3, <3>1, <3>2, RenewedRow
        <4>2. IsCopy(n) /\ IsCopy(m)
          BY <2>1, <2>2, <3>2, <4>1
        <4>3. PICK x \in cand : n = copy[x] /\ initiatives'[n].key = items[x].key
          BY <1>0, <1>3, <4>2, RenewedRow
        <4>4. PICK y \in cand : m = copy[y] /\ initiatives'[m].key = items[y].key
          BY <1>0, <1>3, <4>2, RenewedRow
        <4> QED
          BY <1>0, <2>2, <4>3, <4>4 DEF IInv, KeysUnique
      <3>3. CASE ~IsCopy(n) /\ ~IsCopy(m)
        <4>1. n \in InCycle(b) /\ m \in InCycle(b) /\ initiatives[n].key = initiatives[m].key
          BY <1>4, <2>2, <3>1, <3>3 DEF InCycle
        <4> QED
          BY <4>1 DEF IInv, KeysUnique
      <3> QED
        BY <3>2, <3>3
    <2>3. \A x, y \in Live' : items'[x].key = items'[y].key => x = y
      BY <1>7 DEF IInv, KeysUnique
    <2> QED
      BY <2>2, <2>3 DEF KeysUnique
  <1>11. LinksMatch'
    <2>1. ASSUME NEW n \in Linked'
          PROVE  /\ initiatives'[n].item \in Live' /\ items'[initiatives'[n].item].sent
                 /\ initiatives'[n].cycle \in items'[initiatives'[n].item].sentTo
      <3>1. n \in Initiatives /\ initiatives'[n] # None /\ initiatives'[n].item # None
        BY DEF Linked
      <3>2. CASE IsCopy(n)
        <4>1. PICK x \in cand : /\ initiatives'[n].cycle = c /\ initiatives'[n].item = x
          BY <1>9, <3>1, <3>2
        <4> QED
          BY <1>0, <1>5, <1>7, <4>1
      <3>3. CASE ~IsCopy(n)
        BY <1>4, <1>7, <3>1, <3>3 DEF IInv, LinksMatch, Linked
      <3> QED
        BY <3>2, <3>3
    <2>2. ASSUME NEW n \in Linked', NEW m \in Linked',
                 initiatives'[n].item = initiatives'[m].item,
                 initiatives'[n].cycle = initiatives'[m].cycle, IsCopy(n)
          PROVE  IsCopy(m)
      <3>1. PICK x \in cand : /\ initiatives'[n].cycle = c /\ initiatives'[n].item = x
        BY <1>9, <2>2 DEF Linked
      <3>2. CASE ~IsCopy(m)
        <4>1. m \in LinkedTo(c, x)
          BY <1>4, <2>2, <3>1, <3>2 DEF LinkedTo, InCycle, Linked
        <4> QED
          BY <1>0, <4>1, LinkedCopies
      <3> QED
        BY <3>2
    <2>3. ASSUME NEW n \in Linked', NEW m \in Linked',
                 initiatives'[n].item = initiatives'[m].item,
                 initiatives'[n].cycle = initiatives'[m].cycle
          PROVE  n = m
      <3>1. CASE IsCopy(n) \/ IsCopy(m)
        <4>1. IsCopy(n) /\ IsCopy(m)
          BY <2>2, <2>3, <3>1
        <4>2. /\ n = copy[initiatives'[n].item]
              /\ m = copy[initiatives'[m].item]
          BY <1>9, <4>1 DEF Linked
        <4> QED
          BY <2>3, <4>2
      <3>2. CASE ~IsCopy(n) /\ ~IsCopy(m)
        BY <1>4, <2>3, <3>2 DEF IInv, LinksMatch, Linked
      <3> QED
        BY <3>1, <3>2
    <2> QED
      BY <2>1, <2>3 DEF LinksMatch
  <1>12. CopiesAreNoServiceCards'
    BY <1>4, <1>9 DEF IInv, CopiesAreNoServiceCards, Linked
  <1>13. LinksKept
    <2> SUFFICES ASSUME NEW n \in Linked
                 PROVE  initiatives'[n].item = initiatives[n].item
      BY DEF LinksKept
    <2>1. CASE IsCopy(n)
      <3>1. PICK x \in cand : copy[x] = n
        BY <2>1
      <3>2. n \in LinkedTo(c, x)
        BY <1>0, <3>1, LinkedCopies
      <3> QED
        BY <1>0, <1>3, <3>1, <3>2, RenewedRow DEF LinkedTo
    <2>2. CASE ~IsCopy(n)
      BY <1>4, <2>2 DEF Linked
    <2> QED
      BY <2>1, <2>2
  <1>14. SentKept
    BY <1>7 DEF SentKept
  <1> QED
    BY <1>8, <1>10, <1>11, <1>12, <1>13, <1>14 DEF Good, IInv

-----------------------------------------------------------------------------
(* The commands of Pre PI.                                                   *)

(* Commands that leave items and links as they are: what they make is linked *)
(* to nothing and has a key of its own in its cycle.                         *)
LEMMA UnlinkedChangesGood ==
    ASSUME IInv, TablesOK', items' = items,
           \A n \in Initiatives : initiatives'[n] # None =>
               IF initiatives[n] = None
               THEN /\ initiatives'[n].item = None
                    /\ \A m \in Initiatives \ {n} :
                           initiatives'[m] # None /\ initiatives'[m].cycle = initiatives'[n].cycle
                               => initiatives'[m].key # initiatives'[n].key
               ELSE /\ initiatives'[n].item = initiatives[n].item
                    /\ initiatives'[n].cycle = initiatives[n].cycle
                    /\ initiatives'[n].key = initiatives[n].key
                    /\ initiatives'[n].generated = initiatives[n].generated
    PROVE  Good
  <1>1. Live' = Live
    BY DEF Live
  <1>2. \A n \in Linked' : /\ n \in Linked
                           /\ initiatives'[n].item = initiatives[n].item
                           /\ initiatives'[n].cycle = initiatives[n].cycle
                           /\ initiatives'[n].generated = initiatives[n].generated
    BY DEF Linked
  <1>3. KeysUnique'
    <2>1. \A x, y \in Live' : items'[x].key = items'[y].key => x = y
      BY <1>1 DEF IInv, KeysUnique
    <2>2. ASSUME NEW c \in Cycles, NEW n \in InCycle(c)', NEW m \in InCycle(c)',
                 initiatives'[n].key = initiatives'[m].key
          PROVE  n = m
      <3>1. /\ n \in Initiatives /\ initiatives'[n] # None /\ initiatives'[n].cycle = c
            /\ m \in Initiatives /\ initiatives'[m] # None /\ initiatives'[m].cycle = c
        BY DEF InCycle
      <3>2. CASE initiatives[n] = None \/ initiatives[m] = None
        BY <2>2, <3>1, <3>2
      <3>3. CASE initiatives[n] # None /\ initiatives[m] # None
        BY <2>2, <3>1, <3>3 DEF IInv, KeysUnique, InCycle
      <3> QED
        BY <3>2, <3>3
    <2> QED
      BY <2>1, <2>2 DEF KeysUnique
  <1>4. LinksMatch'
    BY <1>1, <1>2 DEF IInv, LinksMatch
  <1>5. CopiesAreNoServiceCards'
    BY <1>2 DEF IInv, CopiesAreNoServiceCards
  <1>6. LinksKept /\ SentKept
    BY DEF LinksKept, SentKept, Linked, Live
  <1> QED
    BY <1>3, <1>4, <1>5, <1>6 DEF Good, IInv

LEMMA CreateInitiativeGood ==
    ASSUME IInv, NEW n \in Initiatives, NEW c \in Cycles, NEW key \in Keys,
           NEW staff \in Staffings, CreateInitiative(n, c, key, staff)
    PROVE  Good
  <1> DEFINE row == [cycle |-> c, item |-> None, key |-> key, owner |-> staff.owner,
                     team |-> staff.team, generated |-> FALSE]
  <1>1. /\ initiatives[n] = None /\ Keyed(c, key) = {}
        /\ initiatives' = [initiatives EXCEPT ![n] = row]
        /\ items' = items /\ requests' = requests /\ raised' = {c}
    BY DEF CreateInitiative
  <1>2. row \in Initiative
    BY BacklogAssumption DEF Staffing, Initiative
  <1>3. TablesOK'
    BY <1>1, <1>2 DEF IInv, TablesOK
  <1>4. /\ initiatives'[n] = row
        /\ \A m \in Initiatives \ {n} : initiatives'[m] = initiatives[m]
    BY <1>1 DEF IInv, TablesOK
  <1>5. \A m \in Initiatives \ {n} :
            initiatives'[m] # None /\ initiatives'[m].cycle = c => initiatives'[m].key # key
    BY <1>1, <1>4 DEF Keyed, InCycle
  <1>6. initiatives'[n].item = None /\ initiatives'[n].cycle = c /\ initiatives'[n].key = key
    BY <1>4
  <1> HIDE DEF row
  <1> QED
    BY <1>1, <1>3, <1>4, <1>5, <1>6, UnlinkedChangesGood

LEMMA EditOwnerGood ==
    ASSUME IInv, NEW n \in Initiatives, NEW staff \in Staffings, EditOwner(n, staff.owner)
    PROVE  Good
  <1>1. /\ initiatives[n] # None
        /\ initiatives' = [initiatives EXCEPT ![n] = [initiatives[n] EXCEPT !.owner = staff.owner]]
        /\ items' = items /\ requests' = requests /\ raised' = {initiatives[n].cycle}
    BY DEF EditOwner
  <1>2. /\ initiatives[n] \in Initiative
        /\ [initiatives[n] EXCEPT !.owner = staff.owner] \in Initiative
    BY <1>1, InitiativeRow, BacklogAssumption DEF Staffing, Initiative
  <1>3. TablesOK'
    BY <1>1, <1>2 DEF IInv, TablesOK, Initiative
  <1>4. /\ initiatives'[n] = [initiatives[n] EXCEPT !.owner = staff.owner]
        /\ \A m \in Initiatives \ {n} : initiatives'[m] = initiatives[m]
    BY <1>1 DEF IInv, TablesOK
  <1> QED
    BY <1>1, <1>2, <1>3, <1>4, UnlinkedChangesGood DEF Initiative

LEMMA DeleteInitiativeGood ==
    ASSUME IInv, NEW n \in Initiatives, DeleteInitiative(n)
    PROVE  Good
  <1>1. /\ initiatives[n] # None
        /\ initiatives' = [initiatives EXCEPT ![n] = None]
        /\ requests' = {IF r.target = n THEN [r EXCEPT !.target = None] ELSE r :
                            r \in requests \ From(n)}
        /\ items' = items /\ raised' = {initiatives[n].cycle}
    BY DEF DeleteInitiative
  <1>2. requests' \subseteq Request
    <2>1. \A r \in Request : [r EXCEPT !.target = None] \in Request
      BY DEF Request
    <2> QED
      BY <1>1, <2>1 DEF IInv, TablesOK
  <1>3. initiatives[n].cycle \in Cycles
    BY <1>1, InitiativeRow DEF Initiative
  <1>4. TablesOK'
    BY <1>1, <1>2, <1>3 DEF IInv, TablesOK
  <1>5. /\ initiatives'[n] = None
        /\ \A m \in Initiatives \ {n} : initiatives'[m] = initiatives[m]
    BY <1>1 DEF IInv, TablesOK
  <1> QED
    BY <1>1, <1>4, <1>5, UnlinkedChangesGood

LEMMA EditExecutorsGood ==
    ASSUME IInv, NEW n \in Initiatives, NEW staff \in Staffing, NEW wanted \in SUBSET Wanted,
           EditExecutors(n, staff, wanted)
    PROVE  Good
  <1> DEFINE me == initiatives[n]
             TeamFor(key) == (CHOOSE w \in wanted : w.key = key).team
             wantedKeys == {w.key : w \in wanted}
  <1>1. me # None /\ items' = items /\ raised' = {me.cycle}
    BY DEF EditExecutors
  <1>2. PICK target \in Targets(n, wanted) :
           LET rows == (requests \ From(n)) \cup
                   {[from |-> n, key |-> w.key, target |-> target[w.key],
                     team |-> w.team, sprint |-> w.sprint] : w \in wanted}
               KeyOf(m) == CHOOSE key \in DOMAIN target : target[key] = m
           IN \E gone \in SUBSET {r.target : r \in From(n)} :
              /\ Abandoned(n, rows, gone)
              /\ initiatives' = [m \in Initiatives |->
                     IF m \in gone THEN None
                     ELSE IF m = n THEN [me EXCEPT !.owner = staff.owner, !.team = staff.team]
                     ELSE IF m \notin Range(target) THEN initiatives[m]
                     ELSE IF initiatives[m] = None
                     THEN ServiceCard(me.cycle, KeyOf(m), staff.owner, TeamFor(KeyOf(m)))
                     ELSE Attracted(m, staff.owner, TeamFor(KeyOf(m)))]
              /\ requests' = {r \in rows : r.from \notin gone}
    BY DEF EditExecutors
  <1> DEFINE rows == (requests \ From(n)) \cup
                         {[from |-> n, key |-> w.key, target |-> target[w.key],
                           team |-> w.team, sprint |-> w.sprint] : w \in wanted}
             KeyOf(m) == CHOOSE key \in DOMAIN target : target[key] = m
  <1>3. PICK gone : 
              /\ initiatives' = [m \in Initiatives |->
                     IF m \in gone THEN None
                     ELSE IF m = n THEN [me EXCEPT !.owner = staff.owner, !.team = staff.team]
                     ELSE IF m \notin Range(target) THEN initiatives[m]
                     ELSE IF initiatives[m] = None
                     THEN ServiceCard(me.cycle, KeyOf(m), staff.owner, TeamFor(KeyOf(m)))
                     ELSE Attracted(m, staff.owner, TeamFor(KeyOf(m)))]
              /\ requests' = {r \in rows : r.from \notin gone}
    BY <1>2
  <1>4. /\ target \in [wantedKeys -> Initiatives]
        /\ \A k, l \in wantedKeys : target[k] = target[l] => k = l
        /\ \A key \in wantedKeys :
               IF Keyed(me.cycle, key) # {} THEN target[key] \in Keyed(me.cycle, key)
               ELSE initiatives[target[key]] = None
    BY DEF Targets, IsInjective
  <1>5. /\ me \in Initiative /\ me.cycle \in Cycles
        /\ staff.owner \in Teams \cup {None} /\ staff.team \in Teams \cup {None}
    BY <1>1, InitiativeRow DEF Initiative, Staffing
  <1>6. ASSUME NEW m \in Range(target)
        PROVE  /\ KeyOf(m) \in wantedKeys /\ target[KeyOf(m)] = m
               /\ KeyOf(m) \in Keys /\ TeamFor(KeyOf(m)) \in Teams
    <2>1. KeyOf(m) \in wantedKeys /\ target[KeyOf(m)] = m
      BY <1>4 DEF Range
    <2> DEFINE w == CHOOSE w \in wanted : w.key = KeyOf(m)
    <2>2. w \in wanted /\ w.key = KeyOf(m)
      BY <2>1
    <2> QED
      BY <2>1, <2>2 DEF Wanted
  <1> HIDE DEF KeyOf, TeamFor
  <1>7. ASSUME NEW m \in Initiatives, initiatives'[m] # None
        PROVE  /\ initiatives'[m] \in Initiative
               /\ IF initiatives[m] = None
                  THEN /\ initiatives'[m].item = None /\ initiatives'[m].cycle = me.cycle
                       /\ \E key \in wantedKeys : /\ target[key] = m
                                                  /\ initiatives'[m].key = key
                                                  /\ Keyed(me.cycle, key) = {}
                  ELSE /\ initiatives'[m].item = initiatives[m].item
                       /\ initiatives'[m].cycle = initiatives[m].cycle
                       /\ initiatives'[m].key = initiatives[m].key
                       /\ initiatives'[m].generated = initiatives[m].generated
    <2>1. m \notin gone
      BY <1>3, <1>7
    <2>2. CASE m = n
      <3>1. initiatives'[m] = [me EXCEPT !.owner = staff.owner, !.team = staff.team]
        BY <1>3, <2>1, <2>2
      <3> QED
        BY <1>1, <1>5, <2>2, <3>1 DEF Initiative
    <2>3. CASE m # n /\ m \notin Range(target)
      BY <1>3, <1>7, <2>1, <2>3 DEF IInv, TablesOK
    <2>4. CASE m # n /\ m \in Range(target) /\ initiatives[m] = None
      <3>1. initiatives'[m] = ServiceCard(me.cycle, KeyOf(m), staff.owner, TeamFor(KeyOf(m)))
        BY <1>3, <2>1, <2>4
      <3>2. Keyed(me.cycle, KeyOf(m)) = {}
        BY <1>4, <1>6, <2>4 DEF Keyed, InCycle
      <3> QED
        BY <1>5, <1>6, <2>4, <3>1, <3>2 DEF ServiceCard, Initiative
    <2>5. CASE m # n /\ m \in Range(target) /\ initiatives[m] # None
      <3>1. initiatives'[m] = Attracted(m, staff.owner, TeamFor(KeyOf(m)))
        BY <1>3, <2>1, <2>5
      <3>2. initiatives[m] \in Initiative
        BY <2>5, InitiativeRow
      <3>3. initiatives'[m] = [initiatives[m] EXCEPT
                !.owner = IF initiatives[m].generated \/ initiatives[m].owner = None
                          THEN staff.owner ELSE initiatives[m].owner,
                !.team = IF initiatives[m].team = None THEN TeamFor(KeyOf(m))
                         ELSE initiatives[m].team]
        BY <3>1 DEF Attracted
      <3> QED
        BY <1>5, <1>6, <2>5, <3>2, <3>3 DEF Initiative
    <2> QED
      BY <2>2, <2>3, <2>4, <2>5
  <1>8. TablesOK'
    <2>1. rows \subseteq Request
      BY <1>4 DEF IInv, TablesOK, Wanted, Request
    <2>2. initiatives' \in [Initiatives -> Initiative \cup {None}]
      BY <1>3, <1>7
    <2> QED
      BY <1>1, <1>3, <1>5, <2>1, <2>2 DEF IInv, TablesOK
  <1>9. ASSUME NEW m \in Initiatives, initiatives'[m] # None, initiatives[m] = None,
               NEW k \in Initiatives \ {m}, initiatives'[k] # None,
               initiatives'[k].cycle = initiatives'[m].cycle
        PROVE  initiatives'[k].key # initiatives'[m].key
    <2>1. PICK key \in wantedKeys : /\ target[key] = m /\ initiatives'[m].key = key
                                    /\ Keyed(me.cycle, key) = {}
      BY <1>7, <1>9
    <2>2. initiatives'[k].cycle = me.cycle
      BY <1>7, <1>9
    <2>3. CASE initiatives[k] = None
      BY <1>7, <1>9, <2>1, <2>3
    <2>4. CASE initiatives[k] # None
      BY <1>7, <1>9, <2>1, <2>2, <2>4 DEF Keyed, InCycle
    <2> QED
      BY <2>3, <2>4
  <1> QED
    BY <1>1, <1>7, <1>8, <1>9, UnlinkedChangesGood

-----------------------------------------------------------------------------
(* Requests, and the versions a command raises.                              *)

(* The steps that ChangesRaiseVersions allows.                               *)
VersionsRaised ==
    /\ \A c \in Cycles : RowsOf(c)' # RowsOf(c) \/ RequestsOf(c)' # RequestsOf(c) => c \in raised'
    /\ items' # items \/ board' # board => Backlog \in raised'

Reported == RequestsMatch' /\ VersionsRaised

(* A cycle whose initiatives keep their rows and their requests.             *)
Untouched(c) ==
    /\ \A n \in Initiatives : initiatives'[n] # initiatives[n] =>
           /\ n \notin InCycle(c)
           /\ initiatives'[n] # None => initiatives'[n].cycle # c
    /\ \A r \in Request : r.from \in InCycle(c) => (r \in requests' <=> r \in requests)

LEMMA UntouchedCycle ==
    ASSUME IInv, TablesOK', NEW c \in Cycles, Untouched(c)
    PROVE  RowsOf(c)' = RowsOf(c) /\ RequestsOf(c)' = RequestsOf(c)
  <1>1. InCycle(c)' = InCycle(c) /\ \A n \in InCycle(c) : initiatives'[n] = initiatives[n]
    BY DEF Untouched, InCycle
  <1>2. RowsOf(c)' = RowsOf(c)
    BY <1>1 DEF RowsOf
  <1>3. requests \subseteq Request /\ requests' \subseteq Request
    BY DEF IInv, TablesOK
  <1>4. RequestsOf(c)' = RequestsOf(c)
    BY <1>1, <1>3 DEF RequestsOf, Untouched
  <1> QED
    BY <1>2, <1>4

(* Commands that change neither requests nor the existence, cycle or key of  *)
(* an initiative.                                                            *)
LEMMA SameRequestsReported ==
    ASSUME IInv, RequestsMatch, TablesOK', requests' = requests,
           items' # items \/ board' # board => Backlog \in raised',
           \A n \in Initiatives : initiatives[n] # None =>
               /\ initiatives'[n] # None
               /\ initiatives'[n].cycle = initiatives[n].cycle
               /\ initiatives'[n].key = initiatives[n].key,
           \A n \in Initiatives : initiatives'[n] # initiatives[n] =>
               initiatives'[n] # None /\ initiatives'[n].cycle \in raised'
    PROVE  Reported
  <1>1. \A r \in requests : /\ r.from \in Initiatives
                            /\ r.target # None => r.target \in Initiatives
    BY DEF IInv, TablesOK, Request
  <1>2. RequestsMatch'
    BY <1>1 DEF RequestsMatch
  <1>3. \A c \in Cycles : c \notin raised' => Untouched(c)
    BY DEF Untouched, InCycle
  <1> QED
    BY <1>2, <1>3, UntouchedCycle DEF Reported, VersionsRaised

(* Both commands that remove items raise the cycles that hold copies.        *)
LEMMA RemovalReported ==
    ASSUME IInv, RequestsMatch, TablesOK', NEW gone \in SUBSET Items,
           initiatives' = Unlinked(gone), requests' = requests,
           raised' = {Backlog} \cup CyclesHolding(gone)
    PROVE  Reported
  <1>1. \A n \in Initiatives : initiatives'[n] # initiatives[n] =>
            n \in CopiesOf(gone) /\ initiatives[n] # None
    BY DEF Unlinked, CopiesOf, Linked, IInv, TablesOK
  <1>2. \A n \in CopiesOf(gone) : initiatives[n].cycle \in raised'
    BY DEF CyclesHolding
  <1> QED
    BY <1>1, <1>2, UnlinkedRows, SameRequestsReported

LEMMA CreateInitiativeReported ==
    ASSUME IInv, RequestsMatch, TablesOK', NEW n \in Initiatives, NEW c \in Cycles,
           NEW key \in Keys, NEW staff \in Staffings, CreateInitiative(n, c, key, staff)
    PROVE  Reported
  <1>1. /\ initiatives[n] = None /\ initiatives'[n] \in Initiative
        /\ initiatives'[n].cycle = c /\ raised' = {c}
        /\ \A m \in Initiatives \ {n} : initiatives'[m] = initiatives[m]
        /\ items' = items /\ board' = board /\ requests' = requests
    BY BacklogAssumption DEF CreateInitiative, IInv, TablesOK, Staffing, Initiative
  <1>2. initiatives'[n] # None
    BY <1>1, BacklogAssumption
  <1> QED
    BY <1>1, <1>2, SameRequestsReported

LEMMA EditOwnerReported ==
    ASSUME IInv, RequestsMatch, TablesOK', NEW n \in Initiatives, NEW staff \in Staffings,
           EditOwner(n, staff.owner)
    PROVE  Reported
  <1>1. /\ initiatives[n] \in Initiative
        /\ initiatives'[n] = [initiatives[n] EXCEPT !.owner = staff.owner]
        /\ raised' = {initiatives[n].cycle}
        /\ \A m \in Initiatives \ {n} : initiatives'[m] = initiatives[m]
        /\ items' = items /\ board' = board /\ requests' = requests
    BY InitiativeRow DEF EditOwner, IInv, TablesOK
  <1>2. /\ initiatives'[n] \in Initiative
        /\ initiatives'[n].cycle = initiatives[n].cycle
        /\ initiatives'[n].key = initiatives[n].key
    BY <1>1, BacklogAssumption DEF Initiative, Staffing
  <1>3. initiatives'[n] # None
    BY <1>2, BacklogAssumption
  <1> QED
    BY <1>1, <1>2, <1>3, SameRequestsReported

LEMMA DeleteInitiativeReported ==
    ASSUME IInv, RequestsMatch, TablesOK', NEW n \in Initiatives, DeleteInitiative(n)
    PROVE  Reported
  <1>1. /\ initiatives[n] # None /\ initiatives'[n] = None
        /\ \A m \in Initiatives \ {n} : initiatives'[m] = initiatives[m]
        /\ requests' = {IF r.target = n THEN [r EXCEPT !.target = None] ELSE r :
                            r \in requests \ From(n)}
        /\ items' = items /\ board' = board /\ raised' = {initiatives[n].cycle}
    BY DEF DeleteInitiative, IInv, TablesOK
  <1>2. \A r \in requests : r \in Request
    BY DEF IInv, TablesOK
  <1>3. ASSUME NEW r \in requests'
        PROVE  /\ initiatives'[r.from] # None
               /\ r.target # None => /\ initiatives'[r.target] # None
                                     /\ initiatives'[r.target].cycle = initiatives'[r.from].cycle
                                     /\ initiatives'[r.target].key = r.key
    <2>1. PICK q \in requests \ From(n) :
              r = IF q.target = n THEN [q EXCEPT !.target = None] ELSE q
      BY <1>1
    <2>2. q \in Request /\ q.from # n
      BY <1>2, <2>1 DEF From
    <2>3. CASE q.target = n
      <3>1. r.from = q.from /\ r.target = None
        BY <2>1, <2>2, <2>3 DEF Request
      <3> QED
        BY <1>1, <2>1, <2>2, <3>1 DEF RequestsMatch, Request
    <2>4. CASE q.target # n
      BY <1>1, <2>1, <2>2, <2>4 DEF RequestsMatch, Request
    <2> QED
      BY <2>3, <2>4
  <1>4. RequestsMatch'
    BY <1>3 DEF RequestsMatch
  <1>5. ASSUME NEW c \in Cycles, c \notin raised'
        PROVE  Untouched(c)
    <2>1. \A r \in requests : r.from \in InCycle(c) => r.from # n /\ r.target # n
      BY <1>1, <1>2, <1>5, BacklogAssumption DEF RequestsMatch, InCycle
    <2>2. \A r \in requests : [r EXCEPT !.target = None].from = r.from
      BY <1>2 DEF Request
    <2>3. ASSUME NEW r \in Request, r.from \in InCycle(c)
          PROVE  r \in requests' <=> r \in requests
      BY <1>1, <2>1, <2>2, <2>3 DEF From
    <2> QED
      BY <1>1, <1>5, <2>3 DEF Untouched, InCycle
  <1> QED
    BY <1>1, <1>4, <1>5, UntouchedCycle DEF Reported, VersionsRaised

LEMMA DispatchReported ==
    ASSUME IInv, RequestsMatch, TablesOK', NEW c \in Cycles, NEW t \in Tribes,
           NEW copy \in [Candidates(c, t) -> Initiatives], Dispatch(c, t, copy)
    PROVE  Reported
  <1> DEFINE cand == Candidates(c, t)
             IsCopy(n) == \E x \in cand : copy[x] = n
             Source(n) == CHOOSE x \in cand : copy[x] = n
  <1>0. Assignment(c, t, copy) /\ cand \subseteq Live
    BY DEF Dispatch, Candidates
  <1>1. /\ initiatives' = [n \in Initiatives |->
               IF IsCopy(n) THEN Renewed(c, Source(n)) ELSE initiatives[n]]
        /\ requests' = {IF IsCopy(r.target) THEN [r EXCEPT !.key = items[Source(r.target)].key]
                        ELSE r : r \in {q \in requests :
                                 \A x \in cand : copy[x] = q.from => CopyTeam(x) # None}}
        /\ raised' = {Backlog, c} /\ board' = board
    BY DEF Dispatch, RowsAfter
  <1>2. \A x \in cand : Source(copy[x]) = x
    BY <1>0, CopyChoice
  <1> HIDE DEF Source
  <1>3. ASSUME NEW x \in cand
        PROVE  /\ initiatives'[copy[x]] # None
               /\ initiatives'[copy[x]].cycle = c
               /\ initiatives'[copy[x]].key = items[x].key
               /\ initiatives[copy[x]] # None => initiatives[copy[x]].cycle = c
    <2>1. initiatives'[copy[x]] = Renewed(c, x)
      BY <1>1, <1>2
    <2>2. initiatives[copy[x]] # None => copy[x] \in InCycle(c)
      BY <1>0, CopyChoice DEF LinkedTo, Keyed
    <2> QED
      BY <1>0, <2>1, <2>2, RenewedRow DEF InCycle
  <1>4. \A n \in Initiatives : ~IsCopy(n) => initiatives'[n] = initiatives[n]
    BY <1>1
  <1>5. \A n \in Initiatives : initiatives[n] # None =>
            initiatives'[n] # None /\ initiatives'[n].cycle = initiatives[n].cycle
    BY <1>3, <1>4
  <1>6. ASSUME NEW r \in requests
        PROVE  /\ r \in Request /\ r.from \in Initiatives
               /\ initiatives[r.from] # None
               /\ r.target # None => /\ r.target \in Initiatives
                                     /\ initiatives[r.target] # None
                                     /\ initiatives[r.target].cycle = initiatives[r.from].cycle
                                     /\ initiatives[r.target].key = r.key
    BY DEF IInv, TablesOK, RequestsMatch, Request
  <1>7. ASSUME NEW q \in requests, NEW r,
               r = IF IsCopy(q.target) THEN [q EXCEPT !.key = items[Source(q.target)].key] ELSE q
        PROVE  /\ r.from = q.from /\ r.target = q.target
               /\ IsCopy(q.target) => r.key = initiatives'[q.target].key
               /\ ~IsCopy(q.target) => r = q
    <2>1. CASE IsCopy(q.target)
      <3>1. PICK x \in cand : copy[x] = q.target
        BY <2>1
      <3>2. r = [q EXCEPT !.key = items[x].key]
        BY <1>2, <1>7, <2>1, <3>1
      <3>3. r.from = q.from /\ r.target = q.target /\ r.key = items[x].key
        BY <1>6, <3>2 DEF Request
      <3> QED
        BY <1>3, <2>1, <3>1, <3>3
    <2>2. CASE ~IsCopy(q.target)
      BY <1>7, <2>2
    <2> QED
      BY <2>1, <2>2
  <1>8. RequestsMatch'
    <2>1. ASSUME NEW r \in requests'
          PROVE  /\ initiatives'[r.from] # None
                 /\ r.target # None => /\ initiatives'[r.target] # None
                                       /\ initiatives'[r.target].cycle = initiatives'[r.from].cycle
                                       /\ initiatives'[r.target].key = r.key
      <3>1. PICK q \in requests :
                r = IF IsCopy(q.target) THEN [q EXCEPT !.key = items[Source(q.target)].key] ELSE q
        BY <1>1
      <3>2. /\ r.from = q.from /\ r.target = q.target
            /\ IsCopy(q.target) => r.key = initiatives'[q.target].key
            /\ ~IsCopy(q.target) => r = q
        BY <1>7, <3>1
      <3>3. r.target # None /\ ~IsCopy(r.target) => initiatives'[r.target].key = r.key
        BY <1>4, <1>6, <3>2
      <3> QED
        BY <1>5, <1>6, <3>2, <3>3
    <2> QED
      BY <2>1 DEF RequestsMatch
  <1>9. ASSUME NEW b \in Cycles, b \notin raised'
        PROVE  Untouched(b)
    <2>1. b # c
      BY <1>1, <1>9
    <2>2. ASSUME NEW n \in Initiatives, initiatives'[n] # initiatives[n]
          PROVE  n \notin InCycle(b) /\ (initiatives'[n] # None => initiatives'[n].cycle # b)
      BY <1>3, <1>4, <2>1, <2>2 DEF InCycle
    <2>3. ASSUME NEW q \in requests, q.from \in InCycle(b)
          PROVE  ~IsCopy(q.target) /\ ~IsCopy(q.from)
      <3>1. ~IsCopy(q.from)
        BY <1>3, <2>1, <2>3 DEF InCycle
      <3>2. ASSUME NEW x \in cand, copy[x] = q.target
            PROVE  FALSE
        <4>1. q.target \in Initiatives /\ q.target # None
          BY <3>2, BacklogAssumption
        <4>2. initiatives[q.target] # None /\ initiatives[q.target].cycle = b
          BY <1>6, <2>3, <4>1 DEF InCycle
        <4> QED
          BY <1>3, <2>1, <3>2, <4>2
      <3> QED
        BY <3>1, <3>2
    <2>4. ASSUME NEW r \in Request, r.from \in InCycle(b), r \in requests'
          PROVE  r \in requests
      <3>1. PICK q \in requests :
                r = IF IsCopy(q.target) THEN [q EXCEPT !.key = items[Source(q.target)].key] ELSE q
        BY <1>1, <2>4
      <3> QED
        BY <1>7, <2>3, <2>4, <3>1
    <2>5. ASSUME NEW r \in requests, r.from \in InCycle(b)
          PROVE  r \in requests'
      BY <1>1, <2>3, <2>5
    <2> QED
      BY <2>2, <2>4, <2>5 DEF Untouched
  <1> QED
    BY <1>1, <1>8, <1>9, UntouchedCycle DEF Reported, VersionsRaised

LEMMA EditExecutorsReported ==
    ASSUME IInv, RequestsMatch, TablesOK', NEW n \in Initiatives, NEW staff \in Staffing,
           NEW wanted \in SUBSET Wanted, EditExecutors(n, staff, wanted)
    PROVE  Reported
  <1> DEFINE me == initiatives[n]
             TeamFor(key) == (CHOOSE w \in wanted : w.key = key).team
             wantedKeys == {w.key : w \in wanted}
  <1>1. me # None /\ items' = items /\ board' = board /\ raised' = {me.cycle}
    BY DEF EditExecutors
  <1>2. PICK target \in Targets(n, wanted) :
           LET rows == (requests \ From(n)) \cup
                   {[from |-> n, key |-> w.key, target |-> target[w.key],
                     team |-> w.team, sprint |-> w.sprint] : w \in wanted}
               KeyOf(m) == CHOOSE key \in DOMAIN target : target[key] = m
           IN \E gone \in SUBSET {r.target : r \in From(n)} :
              /\ Abandoned(n, rows, gone)
              /\ initiatives' = [m \in Initiatives |->
                     IF m \in gone THEN None
                     ELSE IF m = n THEN [me EXCEPT !.owner = staff.owner, !.team = staff.team]
                     ELSE IF m \notin Range(target) THEN initiatives[m]
                     ELSE IF initiatives[m] = None
                     THEN ServiceCard(me.cycle, KeyOf(m), staff.owner, TeamFor(KeyOf(m)))
                     ELSE Attracted(m, staff.owner, TeamFor(KeyOf(m)))]
              /\ requests' = {r \in rows : r.from \notin gone}
    BY DEF EditExecutors
  <1> DEFINE asked == {[from |-> n, key |-> w.key, target |-> target[w.key],
                        team |-> w.team, sprint |-> w.sprint] : w \in wanted}
             rows == (requests \ From(n)) \cup asked
             KeyOf(m) == CHOOSE key \in DOMAIN target : target[key] = m
  <1>3. PICK gone \in SUBSET {r.target : r \in From(n)} :
              /\ Abandoned(n, rows, gone)
              /\ initiatives' = [m \in Initiatives |->
                     IF m \in gone THEN None
                     ELSE IF m = n THEN [me EXCEPT !.owner = staff.owner, !.team = staff.team]
                     ELSE IF m \notin Range(target) THEN initiatives[m]
                     ELSE IF initiatives[m] = None
                     THEN ServiceCard(me.cycle, KeyOf(m), staff.owner, TeamFor(KeyOf(m)))
                     ELSE Attracted(m, staff.owner, TeamFor(KeyOf(m)))]
              /\ requests' = {r \in rows : r.from \notin gone}
    BY <1>2
  <1>4. /\ target \in [wantedKeys -> Initiatives]
        /\ \A k, l \in wantedKeys : target[k] = target[l] => k = l
        /\ \A key \in wantedKeys :
               IF Keyed(me.cycle, key) # {} THEN target[key] \in Keyed(me.cycle, key)
               ELSE initiatives[target[key]] = None
    BY DEF Targets, IsInjective
  <1>5. \A m \in Range(target) : KeyOf(m) \in wantedKeys /\ target[KeyOf(m)] = m
    BY <1>4 DEF Range
  <1>6. \A key \in wantedKeys : target[key] \in Range(target) /\ KeyOf(target[key]) = key
    BY <1>4, <1>5 DEF Range
  <1> HIDE DEF KeyOf, TeamFor
  <1>7. \A r \in rows : r.target \in gone => r.from \in gone
    BY <1>3 DEF Abandoned
  <1>8. ASSUME NEW r \in requests
        PROVE  /\ r \in Request /\ r.from \in Initiatives
               /\ initiatives[r.from] # None
               /\ r.target # None => /\ r.target \in Initiatives
                                     /\ initiatives[r.target] # None
                                     /\ initiatives[r.target].cycle = initiatives[r.from].cycle
                                     /\ initiatives[r.target].key = r.key
    BY DEF IInv, TablesOK, RequestsMatch, Request
  (* A card that goes was asked for by n, so it is in the same cycle.        *)
  <1>9. \A m \in gone : m \in Initiatives /\ initiatives[m] # None /\ initiatives[m].cycle = me.cycle
    <2> SUFFICES ASSUME NEW m \in gone
                 PROVE  m \in Initiatives /\ initiatives[m] # None
                        /\ initiatives[m].cycle = me.cycle
      OBVIOUS
    <2>1. PICK r \in From(n) : r.target = m /\ r.target # None
      BY <1>3 DEF Abandoned
    <2> QED
      BY <1>8, <2>1 DEF From
  <1>10. ASSUME NEW m \in Initiatives, m \notin gone, initiatives[m] # None
         PROVE  /\ initiatives'[m] # None
                /\ initiatives'[m].cycle = initiatives[m].cycle
                /\ initiatives'[m].key = initiatives[m].key
                /\ initiatives'[m] # initiatives[m] => initiatives[m].cycle = me.cycle
    <2>1. initiatives[m] \in Initiative
      BY <1>10, InitiativeRow
    <2>2. CASE m = n
      <3>1. initiatives'[m] = [me EXCEPT !.owner = staff.owner, !.team = staff.team]
        BY <1>3, <1>10, <2>2
      <3>2. initiatives'[m] \in Initiative
        BY <2>1, <2>2, <3>1 DEF Initiative, Staffing
      <3> QED
        BY <2>1, <2>2, <3>1, <3>2, BacklogAssumption DEF Initiative
    <2>3. CASE m # n /\ m \notin Range(target)
      BY <1>3, <1>10, <2>3
    <2>4. CASE m # n /\ m \in Range(target)
      <3>1. initiatives'[m] = Attracted(m, staff.owner, TeamFor(KeyOf(m)))
        BY <1>3, <1>10, <2>4
      <3>2. initiatives'[m] \in Initiative \cup {None}
        BY DEF TablesOK
      <3>3. /\ initiatives'[m].cycle = initiatives[m].cycle
            /\ initiatives'[m].key = initiatives[m].key
            /\ initiatives'[m] # None
        <4>1. DOMAIN initiatives'[m] = DOMAIN initiatives[m]
              /\ initiatives'[m].cycle = initiatives[m].cycle
              /\ initiatives'[m].key = initiatives[m].key
          BY <2>1, <3>1 DEF Attracted, Initiative
        <4>2. KeyOf(m) \in wantedKeys
          BY <1>5, <2>4
        <4>3. PICK w \in wanted : w.key = KeyOf(m)
          BY <4>2
        <4>4. TeamFor(KeyOf(m)) \in Teams
          BY <4>3 DEF TeamFor, Wanted
        <4>5. Attracted(m, staff.owner, TeamFor(KeyOf(m))) \in Initiative
          BY <2>1, <4>4 DEF Attracted, Initiative, Staffing
        <4> QED
          BY <3>1, <4>1, <4>5, BacklogAssumption
      <3>4. initiatives[m].cycle = me.cycle
        BY <1>4, <1>5, <1>10, <2>4 DEF Keyed, InCycle
      <3> QED
        BY <3>3, <3>4
    <2> QED
      BY <2>2, <2>3, <2>4
  <1>11. ASSUME NEW m \in Initiatives, initiatives[m] = None, m \in Range(target)
         PROVE  /\ initiatives'[m] = ServiceCard(me.cycle, KeyOf(m), staff.owner, TeamFor(KeyOf(m)))
                /\ initiatives'[m] # None
                /\ initiatives'[m].cycle = me.cycle
                /\ initiatives'[m].key = KeyOf(m)
    <2>1. m \notin gone /\ m # n
      BY <1>1, <1>9, <1>11
    <2>2. initiatives'[m] = ServiceCard(me.cycle, KeyOf(m), staff.owner, TeamFor(KeyOf(m)))
      BY <1>3, <1>11, <2>1
    <2>3. PICK w \in wanted : w.key = KeyOf(m)
      BY <1>5, <1>11
    <2>4. TeamFor(KeyOf(m)) \in Teams /\ KeyOf(m) \in Keys
      BY <2>3 DEF TeamFor, Wanted
    <2>5. me.cycle \in Cycles /\ staff.owner \in Teams \cup {None}
      BY <1>1, InitiativeRow DEF Initiative, Staffing
    <2>6. ServiceCard(me.cycle, KeyOf(m), staff.owner, TeamFor(KeyOf(m))) \in Initiative
      BY <2>4, <2>5 DEF ServiceCard, Initiative
    <2>7. /\ ServiceCard(me.cycle, KeyOf(m), staff.owner, TeamFor(KeyOf(m))).cycle = me.cycle
          /\ ServiceCard(me.cycle, KeyOf(m), staff.owner, TeamFor(KeyOf(m))).key = KeyOf(m)
      BY DEF ServiceCard
    <2>8. initiatives'[m] # None
      BY <2>2, <2>6, BacklogAssumption
    <2> QED
      BY <2>2, <2>7, <2>8
  <1>12. RequestsMatch'
    <2>1. ASSUME NEW r \in requests'
          PROVE  /\ initiatives'[r.from] # None
                 /\ r.target # None => /\ initiatives'[r.target] # None
                                       /\ initiatives'[r.target].cycle = initiatives'[r.from].cycle
                                       /\ initiatives'[r.target].key = r.key
      <3>1. r \in rows /\ r.from \notin gone /\ r.target \notin gone
        BY <1>3, <1>7
      <3>2. CASE r \in requests
        BY <1>8, <1>10, <3>1, <3>2
      <3>3. CASE r \in asked
        <4>1. PICK w \in wanted : r = [from |-> n, key |-> w.key, target |-> target[w.key],
                                        team |-> w.team, sprint |-> w.sprint]
          BY <3>3
        <4>2. /\ r.from = n /\ r.target = target[r.key] /\ r.key \in wantedKeys
              /\ r.target \in Initiatives
          BY <1>4, <4>1
        <4>3. initiatives'[n] # None /\ initiatives'[n].cycle = me.cycle
          BY <1>1, <1>10, <3>1, <4>2
        <4>4. CASE initiatives[r.target] = None
          BY <1>6, <1>11, <4>2, <4>3, <4>4
        <4>5. CASE initiatives[r.target] # None
          <5>1. initiatives[r.target].cycle = me.cycle /\ initiatives[r.target].key = r.key
            BY <1>4, <4>2, <4>5 DEF Keyed, InCycle
          <5> QED
            BY <1>10, <3>1, <4>2, <4>3, <4>5, <5>1
        <4> QED
          BY <4>4, <4>5
      <3> QED
        BY <3>1, <3>2, <3>3
    <2> QED
      BY <2>1 DEF RequestsMatch
  <1>13. ASSUME NEW b \in Cycles, b \notin raised'
         PROVE  Untouched(b)
    <2>1. b # me.cycle
      BY <1>1, <1>13
    <2>2. ASSUME NEW m \in Initiatives, initiatives'[m] # initiatives[m]
          PROVE  m \notin InCycle(b) /\ (initiatives'[m] # None => initiatives'[m].cycle # b)
      <3>1. CASE m \in gone
        <4>1. initiatives'[m] = None
          BY <1>3, <3>1
        <4> QED
          BY <1>9, <2>1, <3>1, <4>1 DEF InCycle
      <3>2. CASE m \notin gone /\ initiatives[m] # None
        BY <1>10, <2>1, <2>2, <3>2 DEF InCycle
      <3>3. CASE m \notin gone /\ initiatives[m] = None
        <4>1. m \in Range(target)
          BY <1>1, <1>3, <2>2, <3>3
        <4> QED
          BY <1>11, <2>1, <3>3, <4>1 DEF InCycle
      <3> QED
        BY <3>1, <3>2, <3>3
    <2>3. \A r \in Request : r.from \in InCycle(b) => r.from # n /\ r.from \notin gone
      BY <1>9, <2>1 DEF InCycle
    <2>4. \A r \in asked : r.from = n
      OBVIOUS
    <2>5. \A r \in Request : r.from \in InCycle(b) => (r \in requests' <=> r \in requests)
      BY <1>3, <2>3, <2>4 DEF From
    <2> QED
      BY <2>2, <2>5 DEF Untouched
  <1> QED
    BY <1>1, <1>12, <1>13, UntouchedCycle DEF Reported, VersionsRaised

-----------------------------------------------------------------------------
(* Every step, and the theorems.                                             *)

LEMMA StutterGood == IInv /\ UNCHANGED vars => Good
  BY DEF vars, IInv, TablesOK, KeysUnique, LinksMatch, CopiesAreNoServiceCards, Good,
         LinksKept, SentKept, Live, Linked, InCycle

LEMMA StepGood == IInv /\ [Next]_vars => Good
  <1> SUFFICES ASSUME IInv, Next
               PROVE  Good
    BY StutterGood
  <1>1. ASSUME NEW x \in Items, NEW key \in Keys, NEW draft \in Drafts,
               CreateItem(x, key, draft) \/ UpdateItem(x, key, draft)
        PROVE  Good
    BY <1>1, CreateItemGood, UpdateItemGood
  <1>2. ASSUME NEW x \in Items, DeleteItem(x)
        PROVE  Good
    BY <1>2, DeleteItemGood
  <1>3. ASSUME NEW order \in Orders(Live), ReorderItems(order)
        PROVE  Good
    <2>1. /\ items' = items /\ initiatives' = initiatives /\ requests' = requests
          /\ raised' = {Backlog}
      BY <1>3 DEF ReorderItems
    <2>2. TablesOK'
      BY <2>1 DEF IInv, TablesOK
    <2> QED
      BY <2>1, <2>2, UnlinkedChangesGood
  <1>4. ASSUME NEW written \in SUBSET Items, NEW order \in Orders(written),
               NEW keys \in [written -> Keys], NEW drafts \in [written -> Drafts],
               ReplaceBoard(order, keys, drafts)
        PROVE  Good
    BY <1>4, ReplaceBoardGood DEF Orders
  <1>5. ASSUME NEW c \in Cycles, NEW t \in Tribes,
               NEW copy \in [Candidates(c, t) -> Initiatives], Dispatch(c, t, copy)
        PROVE  Good
    BY <1>5, DispatchGood
  <1>6. ASSUME NEW n \in Initiatives, NEW c \in Cycles, NEW key \in Keys,
               NEW staff \in Staffings, CreateInitiative(n, c, key, staff)
        PROVE  Good
    BY <1>6, CreateInitiativeGood
  <1>7. ASSUME NEW n \in Initiatives, NEW staff \in Staffings, EditOwner(n, staff.owner)
        PROVE  Good
    BY <1>7, EditOwnerGood
  <1>8. ASSUME NEW n \in Initiatives, NEW wanted \in SUBSET Wanted, NEW staff \in Staffings,
               EditExecutors(n, staff, wanted)
        PROVE  Good
    BY <1>8, BacklogAssumption, EditExecutorsGood
  <1>9. ASSUME NEW n \in Initiatives, NEW wanted \in SUBSET Wanted, initiatives[n] # None,
               EditExecutors(n, [owner |-> initiatives[n].owner,
                                 team |-> initiatives[n].team], wanted)
        PROVE  Good
    <2>1. [owner |-> initiatives[n].owner, team |-> initiatives[n].team] \in Staffing
      BY <1>9, InitiativeRow DEF Initiative, Staffing
    <2> QED
      BY <1>9, <2>1, EditExecutorsGood
  <1>10. ASSUME NEW n \in Initiatives, DeleteInitiative(n)
         PROVE  Good
    BY <1>10, DeleteInitiativeGood
  <1> QED
    BY <1>1, <1>2, <1>3, <1>4, <1>5, <1>6, <1>7, <1>8, <1>9, <1>10 DEF Next

LEMMA StepReported ==
    ASSUME IInv, RequestsMatch, Next
    PROVE  Reported
  <1>0. TablesOK'
    BY StepGood DEF Good, IInv
  <1>1. ASSUME NEW x \in Items, NEW key \in Keys, NEW draft \in Drafts,
               CreateItem(x, key, draft) \/ UpdateItem(x, key, draft)
        PROVE  Reported
    BY <1>0, <1>1, SameRequestsReported DEF CreateItem, UpdateItem
  <1>2. ASSUME NEW x \in Items, DeleteItem(x)
        PROVE  Reported
    <2>1. /\ initiatives' = Unlinked({x}) /\ requests' = requests
          /\ raised' = {Backlog} \cup CyclesHolding({x})
      BY <1>2 DEF DeleteItem
    <2> QED
      BY <1>0, <2>1, RemovalReported
  <1>3. ASSUME NEW order \in Orders(Live), ReorderItems(order)
        PROVE  Reported
    BY <1>0, <1>3, SameRequestsReported DEF ReorderItems
  <1>4. ASSUME NEW written \in SUBSET Items, NEW order \in Orders(written),
               NEW keys \in [written -> Keys], NEW drafts \in [written -> Drafts],
               ReplaceBoard(order, keys, drafts)
        PROVE  Reported
    <2> DEFINE gone == Live \ Range(order)
    <2>1. /\ initiatives' = Unlinked(gone) /\ requests' = requests
          /\ raised' = {Backlog} \cup CyclesHolding(gone)
      BY <1>4 DEF ReplaceBoard
    <2>2. gone \in SUBSET Items
      BY DEF Live
    <2> QED
      BY <1>0, <2>1, <2>2, RemovalReported
  <1>5. ASSUME NEW c \in Cycles, NEW t \in Tribes,
               NEW copy \in [Candidates(c, t) -> Initiatives], Dispatch(c, t, copy)
        PROVE  Reported
    BY <1>0, <1>5, DispatchReported
  <1>6. ASSUME NEW n \in Initiatives, NEW c \in Cycles, NEW key \in Keys,
               NEW staff \in Staffings, CreateInitiative(n, c, key, staff)
        PROVE  Reported
    BY <1>0, <1>6, CreateInitiativeReported
  <1>7. ASSUME NEW n \in Initiatives, NEW staff \in Staffings, EditOwner(n, staff.owner)
        PROVE  Reported
    BY <1>0, <1>7, EditOwnerReported
  <1>8. ASSUME NEW n \in Initiatives, NEW wanted \in SUBSET Wanted, NEW staff \in Staffings,
               EditExecutors(n, staff, wanted)
        PROVE  Reported
    BY <1>0, <1>8, BacklogAssumption, EditExecutorsReported
  <1>9. ASSUME NEW n \in Initiatives, NEW wanted \in SUBSET Wanted, initiatives[n] # None,
               EditExecutors(n, [owner |-> initiatives[n].owner,
                                 team |-> initiatives[n].team], wanted)
        PROVE  Reported
    <2>1. [owner |-> initiatives[n].owner, team |-> initiatives[n].team] \in Staffing
      BY <1>9, InitiativeRow DEF Initiative, Staffing
    <2> QED
      BY <1>0, <1>9, <2>1, EditExecutorsReported
  <1>10. ASSUME NEW n \in Initiatives, DeleteInitiative(n)
         PROVE  Reported
    BY <1>0, <1>10, DeleteInitiativeReported
  <1> QED
    BY <1>1, <1>2, <1>3, <1>4, <1>5, <1>6, <1>7, <1>8, <1>9, <1>10 DEF Next

LEMMA InitGood == Init => IInv
  BY DEF Init, IInv, TablesOK, KeysUnique, LinksMatch, CopiesAreNoServiceCards,
         Live, Linked, InCycle

(* The tables have their types and the three relations hold in every state.  *)
THEOREM Invariance == Spec => []IInv
  <1>1. IInv /\ [Next]_vars => IInv'
    BY StepGood DEF Good
  <1> QED
    BY InitGood, <1>1, PTL DEF Spec

(* No two items have one key, nor two initiatives of a cycle.                *)
THEOREM KeysStayUnique == Spec => []KeysUnique
  <1>1. IInv => KeysUnique
    BY DEF IInv
  <1> QED
    BY Invariance, <1>1, PTL

(* A link leads to an item that was sent to this cycle; one copy per cycle.  *)
THEOREM LinksStayMatched == Spec => []LinksMatch
  <1>1. IInv => LinksMatch
    BY DEF IInv
  <1> QED
    BY Invariance, <1>1, PTL

(* A copy of an item is no service card, so no request takes it along.       *)
THEOREM CopiesStayCopies == Spec => []CopiesAreNoServiceCards
  <1>1. IInv => CopiesAreNoServiceCards
    BY DEF IInv
  <1> QED
    BY Invariance, <1>1, PTL

(* A copy stays linked to its item while the item exists.                    *)
THEOREM CopiesNeverChangeHands == Spec => LinksStay
  <1>1. IInv /\ [Next]_vars => [LinksKept]_vars
    BY StepGood DEF Good
  <1>2. Spec => [][LinksKept]_vars
    BY Invariance, <1>1, PTL DEF Spec
  <1> QED
    BY <1>2 DEF LinksStay, LinksKept

(* A sent item stays sent, to all the cycles it was sent to.                 *)
THEOREM SentStaysSent == Spec => SentForGood
  <1>1. IInv /\ [Next]_vars => [SentKept]_vars
    BY StepGood DEF Good
  <1>2. Spec => [][SentKept]_vars
    BY Invariance, <1>1, PTL DEF Spec
  <1> QED
    BY <1>2 DEF SentForGood, SentKept

-----------------------------------------------------------------------------
(* RequestsMatch is inductive beside IInv.                                   *)
LEMMA RequestsInit == Init => RequestsMatch
  BY DEF Init, RequestsMatch

LEMMA RequestsStep == IInv /\ RequestsMatch /\ [Next]_vars => RequestsMatch'
  <1>1. IInv /\ RequestsMatch /\ Next => RequestsMatch'
    BY StepReported DEF Reported
  <1>2. RequestsMatch /\ UNCHANGED vars => RequestsMatch'
    BY DEF vars, RequestsMatch
  <1> QED
    BY <1>1, <1>2

(* In every state requests and what they ask for belong together.            *)
THEOREM RequestsStayMatched == Spec => []RequestsMatch
  BY Invariance, RequestsInit, RequestsStep, PTL DEF Spec

(* Every command raises the versions of all aggregates it changes.           *)
THEOREM EveryChangeReported == Spec => ChangesRaiseVersions
  <1>1. IInv /\ RequestsMatch /\ [Next]_vars => [VersionsRaised]_vars
    BY StepReported DEF Reported
  <1>2. Spec => [][VersionsRaised]_vars
    BY Invariance, RequestsStayMatched, <1>1, PTL DEF Spec
  <1> QED
    BY <1>2 DEF ChangesRaiseVersions, VersionsRaised
-----------------------------------------------------------------------------
(* What a dispatch leaves behind.                                            *)

(* The candidates' copies are written, each for its own item.                *)
LEMMA DispatchedRows ==
    ASSUME IInv, NEW c \in Cycles, NEW t \in Tribes,
           NEW copy \in [Candidates(c, t) -> Initiatives], Dispatch(c, t, copy),
           NEW x \in Candidates(c, t)
    PROVE  initiatives'[copy[x]] = Renewed(c, x)
  <1> DEFINE cand == Candidates(c, t)
             Source(n) == CHOOSE y \in cand : copy[y] = n
  <1>1. initiatives' = [n \in Initiatives |->
            IF \E y \in cand : copy[y] = n THEN Renewed(c, Source(n)) ELSE initiatives[n]]
    BY DEF Dispatch
  <1>2. Source(copy[x]) = x
    BY CopyChoice DEF Dispatch
  <1> HIDE DEF Source
  <1> QED
    BY <1>1, <1>2

(* Items keep what a dispatch copies.                                        *)
LEMMA DispatchedItems ==
    ASSUME IInv, NEW c \in Cycles, NEW t \in Tribes,
           NEW copy \in [Candidates(c, t) -> Initiatives], Dispatch(c, t, copy)
    PROVE  /\ Candidates(c, t)' = Candidates(c, t)
           /\ \A x \in Candidates(c, t) :
                  /\ items'[x] = [items[x] EXCEPT !.sent = TRUE, !.sentTo = items[x].sentTo \cup {c}]
                  /\ items'[x].key = items[x].key
                  /\ items'[x].owner = items[x].owner /\ items'[x].team = items[x].team
           /\ \A x \in Items \ Candidates(c, t) : items'[x] = items[x]
  <1> DEFINE cand == Candidates(c, t)
  <1>1. items' = [x \in Items |->
            IF x \in cand THEN [items[x] EXCEPT !.sent = TRUE, !.sentTo = @ \cup {c}]
            ELSE items[x]]
    BY DEF Dispatch
  <1>2. cand \subseteq Live /\ Live \subseteq Items
    BY DEF Candidates, Live
  <1>3. ASSUME NEW x \in cand
        PROVE  /\ items'[x] = [items[x] EXCEPT !.sent = TRUE, !.sentTo = items[x].sentTo \cup {c}]
               /\ items'[x] # None
               /\ items'[x].key = items[x].key
               /\ items'[x].owner = items[x].owner /\ items'[x].team = items[x].team
               /\ items'[x].tribe = items[x].tribe /\ items'[x].period = items[x].period
    <2>1. items[x] \in Item /\ x \in Items
      BY <1>2, ItemRow
    <2>2. items'[x] = [items[x] EXCEPT !.sent = TRUE, !.sentTo = items[x].sentTo \cup {c}]
      BY <1>1, <2>1
    <2>3. items'[x] \in Item
      BY <2>1, <2>2 DEF Item
    <2> QED
      BY <2>1, <2>2, <2>3, BacklogAssumption DEF Item
  <1>4. \A x \in Items \ cand : items'[x] = items[x]
    BY <1>1
  <1>5. Candidates(c, t)' = cand
    <2>1. \A x \in cand : x \in Candidates(c, t)'
      BY <1>2, <1>3 DEF Candidates, Live
    <2>2. \A x \in Items \ cand : x \notin Candidates(c, t)'
      BY <1>4 DEF Candidates, Live
    <2>3. Candidates(c, t)' \subseteq Items
      BY DEF Candidates, Live
    <2> QED
      BY <2>1, <2>2, <2>3
  <1> QED
    BY <1>3, <1>4, <1>5

(* Requests never change hands, and a copy without a resource row has none.  *)
LEMMA DispatchedRequests ==
    ASSUME IInv, NEW done \in SUBSET Live, NEW copy, NEW q \in RowsAfter(copy, done)
    PROVE  \E r \in requests :
               /\ q.from = r.from /\ q.team = r.team /\ q.sprint = r.sprint /\ q.target = r.target
               /\ \A x \in done : copy[x] = r.from => CopyTeam(x) # None
  <1> DEFINE NewKey(r) == items[CHOOSE x \in done : copy[x] = r.target].key
  <1> HIDE DEF NewKey
  <1>1. PICK r \in requests :
            /\ \A x \in done : copy[x] = r.from => CopyTeam(x) # None
            /\ q = IF \E x \in done : copy[x] = r.target THEN [r EXCEPT !.key = NewKey(r)] ELSE r
    BY DEF RowsAfter, NewKey
  <1>2. r \in Request
    BY DEF IInv, TablesOK
  <1>3. q.from = r.from /\ q.team = r.team /\ q.sprint = r.sprint /\ q.target = r.target
    BY <1>1, <1>2 DEF Request
  <1> QED
    BY <1>1, <1>3

LEMMA DispatchSynchronised ==
    ASSUME IInv, NEW c \in Cycles, NEW t \in Tribes,
           NEW copy \in [Candidates(c, t) -> Initiatives], Dispatch(c, t, copy)
    PROVE  Synchronised(c, t)'
  <1> SUFFICES ASSUME NEW x \in Candidates(c, t)
               PROVE  \E n \in LinkedTo(c, x)' :
                          /\ initiatives'[n].key = items'[x].key
                          /\ initiatives'[n].owner = items'[x].owner
                          /\ initiatives'[n].team = CopyTeam(x)'
                          /\ CopyTeam(x)' = None => From(n)' = {}
    BY DispatchedItems DEF Synchronised
  <1>1. initiatives'[copy[x]] = Renewed(c, x) /\ copy[x] \in Initiatives
    BY DispatchedRows
  <1>2. /\ Renewed(c, x) # None /\ Renewed(c, x).cycle = c /\ Renewed(c, x).item = x
        /\ Renewed(c, x).key = items[x].key
    BY RenewedRow DEF Candidates
  <1>3. Renewed(c, x).owner = items[x].owner /\ Renewed(c, x).team = CopyTeam(x)
    BY DEF Renewed
  <1>4. copy[x] \in LinkedTo(c, x)'
    BY <1>1, <1>2 DEF LinkedTo, InCycle
  <1>5. /\ items'[x].key = items[x].key /\ items'[x].owner = items[x].owner
        /\ CopyTeam(x)' = CopyTeam(x)
    BY DispatchedItems DEF CopyTeam
  <1>6. CopyTeam(x) = None => From(copy[x])' = {}
    <2>1. Candidates(c, t) \in SUBSET Live /\ requests' = RowsAfter(copy, Candidates(c, t))
      BY DEF Candidates, Dispatch
    <2>2. ASSUME NEW q \in From(copy[x])'
          PROVE  CopyTeam(x) # None
      <3>1. q \in RowsAfter(copy, Candidates(c, t)) /\ q.from = copy[x]
        BY <2>1 DEF From
      <3> QED
        BY <2>1, <3>1, DispatchedRequests
    <2> QED
      BY <2>2
  <1> QED
    BY <1>1, <1>2, <1>3, <1>4, <1>5, <1>6

(* What is synchronised already stays as it is.                              *)
LEMMA DispatchRepeated ==
    ASSUME IInv, RequestsMatch, NEW c \in Cycles, NEW t \in Tribes,
           NEW copy \in [Candidates(c, t) -> Initiatives], Dispatch(c, t, copy),
           Synchronised(c, t)
    PROVE  UNCHANGED <<items, board, initiatives, requests>>
  <1> DEFINE cand == Candidates(c, t)
  <1>1. cand \subseteq Live /\ Live \subseteq Items /\ Assignment(c, t, copy) /\ board' = board
    BY DEF Candidates, Live, Dispatch
  <1>2. ASSUME NEW x \in cand
        PROVE  /\ copy[x] \in LinkedTo(c, x)
               /\ initiatives[copy[x]].key = items[x].key
               /\ initiatives[copy[x]].owner = items[x].owner
               /\ initiatives[copy[x]].team = CopyTeam(x)
               /\ CopyTeam(x) = None => From(copy[x]) = {}
    <2>1. PICK n \in LinkedTo(c, x) : /\ initiatives[n].key = items[x].key
                                      /\ initiatives[n].owner = items[x].owner
                                      /\ initiatives[n].team = CopyTeam(x)
                                      /\ CopyTeam(x) = None => From(n) = {}
      BY DEF Synchronised
    <2>2. n = copy[x]
      BY <1>1, <2>1, LinkedCopies
    <2> QED
      BY <2>1, <2>2
  <1>3. ASSUME NEW x \in cand
        PROVE  copy[x] \in Linked /\ initiatives[copy[x]].item = x /\ initiatives[copy[x]].cycle = c
    BY <1>1, <1>2, BacklogAssumption DEF LinkedTo, InCycle, Linked
  <1>4. items' = items
    <2>1. ASSUME NEW x \in cand
          PROVE  items'[x] = items[x]
      <3>1. items[x] \in Item /\ items[x].sent /\ c \in items[x].sentTo
        BY <1>1, <1>3, ItemRow DEF IInv, LinksMatch
      <3>2. items'[x] = [items[x] EXCEPT !.sent = TRUE, !.sentTo = items[x].sentTo \cup {c}]
        BY DispatchedItems
      <3>3. items[x].sent = TRUE /\ items[x].sentTo \cup {c} = items[x].sentTo
        BY <3>1 DEF Item
      <3> QED
        BY <3>1, <3>2, <3>3 DEF Item
    <2>2. \A x \in Items : items'[x] = items[x]
      <3>1. \A x \in Items \ cand : items'[x] = items[x]
        BY DispatchedItems
      <3> QED
        BY <2>1, <3>1
    <2>3. items \in [Items -> Item \cup {None}] /\ items' \in [Items -> Item \cup {None}]
      BY DispatchGood DEF IInv, TablesOK, Good
    <2> QED
      BY <2>2, <2>3
  <1>5. initiatives' = initiatives
    <2>1. ASSUME NEW x \in cand
          PROVE  initiatives'[copy[x]] = initiatives[copy[x]]
      <3>1. /\ initiatives[copy[x]] \in Initiative /\ Renewed(c, x) \in Initiative
            /\ ~initiatives[copy[x]].generated
        BY <1>1, <1>3, InitiativeRow, RenewedRow DEF Linked, IInv, CopiesAreNoServiceCards
      <3>2. /\ initiatives[copy[x]].cycle = c /\ initiatives[copy[x]].item = x
            /\ initiatives[copy[x]].key = items[x].key
            /\ initiatives[copy[x]].owner = items[x].owner
            /\ initiatives[copy[x]].team = CopyTeam(x)
        BY <1>2, <1>3
      <3>3. initiatives[copy[x]] = Renewed(c, x)
        <4>1. initiatives[copy[x]].generated = FALSE
          BY <3>1 DEF Initiative
        <4> HIDE DEF CopyTeam
        <4> QED
          BY <3>1, <3>2, <4>1 DEF Initiative, Renewed
      <3> QED
        BY <3>3, DispatchedRows
    <2>2. \A n \in Initiatives : (\A x \in cand : copy[x] # n) => initiatives'[n] = initiatives[n]
      BY DEF Dispatch
    <2>3. \A n \in Initiatives : initiatives'[n] = initiatives[n]
      BY <2>1, <2>2
    <2>4. /\ initiatives \in [Initiatives -> Initiative \cup {None}]
          /\ initiatives' \in [Initiatives -> Initiative \cup {None}]
      BY DispatchGood DEF IInv, TablesOK, Good
    <2> QED
      BY <2>3, <2>4
  <1>6. requests' = requests
    <2> DEFINE NewKey(r) == items[CHOOSE x \in cand : copy[x] = r.target].key
               After(r) == IF \E x \in cand : copy[x] = r.target
                           THEN [r EXCEPT !.key = NewKey(r)] ELSE r
    <2>1. \A r \in requests : \A x \in cand : copy[x] = r.from => CopyTeam(x) # None
      BY <1>2 DEF From
    <2>2. requests' = {After(r) : r \in requests}
      BY <2>1 DEF Dispatch, RowsAfter
    <2>3. ASSUME NEW r \in requests, \E x \in cand : copy[x] = r.target
          PROVE  NewKey(r) = r.key
      <3> DEFINE y == CHOOSE x \in cand : copy[x] = r.target
      <3>1. y \in cand /\ copy[y] = r.target
        BY <2>3
      <3> HIDE DEF y
      <3>2. r.target # None /\ initiatives[r.target].key = r.key
        BY <3>1, BacklogAssumption DEF RequestsMatch
      <3>3. items[y].key = r.key
        BY <1>2, <3>1, <3>2
      <3> QED
        BY <3>3 DEF y
    <2> HIDE DEF NewKey
    <2>4. ASSUME NEW r \in requests
          PROVE  After(r) = r
      <3>1. r \in Request
        BY DEF IInv, TablesOK
      <3> QED
        BY <2>3, <3>1 DEF Request
    <2> HIDE DEF After
    <2> QED
      BY <2>2, <2>4
  <1> QED
    BY <1>1, <1>4, <1>5, <1>6

(* A request of a copy with a resource row stays; only its key may follow    *)
(* that of the initiative it asks for.                                       *)
LEMMA DispatchKeptRequests ==
    ASSUME IInv, NEW c \in Cycles, NEW t \in Tribes,
           NEW copy \in [Candidates(c, t) -> Initiatives], Dispatch(c, t, copy),
           NEW x \in Candidates(c, t), NEW n \in LinkedTo(c, x), CopyTeam(x) # None
    PROVE  AskedBy(n)' = AskedBy(n)
  <1> DEFINE cand == Candidates(c, t)
             KeyFor(r) == items[CHOOSE y \in cand : copy[y] = r.target].key
             After(r) == IF \E y \in cand : copy[y] = r.target
                         THEN [r EXCEPT !.key = KeyFor(r)] ELSE r
             Kept == {q \in requests : \A y \in cand : copy[y] = q.from => CopyTeam(y) # None}
             Asks(r) == <<r.target, IF r.target = None THEN r.key ELSE None, r.team, r.sprint>>
  <1>1. requests' = {After(r) : r \in Kept}
    BY DEF Dispatch, RowsAfter
  <1>2. n = copy[x]
    BY LinkedCopies DEF Dispatch
  <1>3. \A r \in From(n) : r \in Kept
    BY <1>2, CopyChoice DEF From, Dispatch
  <1> HIDE DEF KeyFor
  <1>4. ASSUME NEW r \in requests
        PROVE  After(r).from = r.from /\ Asks(After(r)) = Asks(r)
    <2>1. r \in Request
      BY DEF IInv, TablesOK
    <2>2. CASE \E y \in cand : copy[y] = r.target
      <3>1. r.target # None
        BY <2>2, BacklogAssumption
      <3>2. /\ After(r).from = r.from /\ After(r).target = r.target
            /\ After(r).team = r.team /\ After(r).sprint = r.sprint
        BY <2>1, <2>2 DEF Request
      <3> QED
        BY <3>1, <3>2
    <2>3. CASE ~\E y \in cand : copy[y] = r.target
      BY <2>3
    <2> QED
      BY <2>2, <2>3
  <1> HIDE DEF After, Kept
  <1>5. AskedBy(n) = {Asks(r) : r \in From(n)} /\ AskedBy(n)' = {Asks(r) : r \in From(n)'}
    BY DEF AskedBy
  <1>6. \A r \in From(n) : After(r) \in From(n)' /\ Asks(After(r)) = Asks(r)
    BY <1>1, <1>3, <1>4 DEF From
  <1>7. \A r \in From(n)' : \E q \in From(n) : Asks(r) = Asks(q)
    BY <1>1, <1>4 DEF From, Kept
  <1> HIDE DEF Asks
  <1> QED
    BY <1>5, <1>6, <1>7

(* A dispatch brings every copy up to date, under whatever key, and changes  *)
(* nothing when it is sent again.                                            *)
THEOREM DispatchBringsUpToDate == Spec => DispatchSynchronises
  <1> DEFINE Synchronises ==
          \A c \in Cycles, t \in Tribes :
            (\E copy \in [Candidates(c, t) -> Initiatives] : Dispatch(c, t, copy)) =>
                /\ Synchronised(c, t)'
                /\ Synchronised(c, t) => UNCHANGED <<items, board, initiatives, requests>>
  <1>1. IInv /\ RequestsMatch => Synchronises
    BY DispatchSynchronised, DispatchRepeated
  <1>2. IInv /\ RequestsMatch /\ [Next]_vars => [Synchronises]_vars
    BY <1>1
  <1>3. Spec => [][Synchronises]_vars
    BY Invariance, RequestsStayMatched, <1>2, PTL DEF Spec
  <1> QED
    BY <1>3 DEF DispatchSynchronises

(* A repeated dispatch keeps what the copies ask for.                        *)
THEOREM DispatchesKeepRequests == Spec => DispatchKeepsRequests
  <1> DEFINE RequestsKept ==
          \A c \in Cycles, t \in Tribes :
            (\E copy \in [Candidates(c, t) -> Initiatives] : Dispatch(c, t, copy)) =>
                \A x \in Candidates(c, t) : \A n \in LinkedTo(c, x) : CopyTeam(x) # None =>
                    AskedBy(n)' = AskedBy(n)
  <1>1. IInv => RequestsKept
    BY DispatchKeptRequests
  <1>2. IInv /\ [Next]_vars => [RequestsKept]_vars
    BY <1>1
  <1>3. Spec => [][RequestsKept]_vars
    BY Invariance, <1>2, PTL DEF Spec
  <1> QED
    BY <1>3 DEF DispatchKeepsRequests

-----------------------------------------------------------------------------
(* The order of the board.                                                   *)

(* BoardOK, with the length of the board.                                    *)
BoardIInv == /\ Len(board) \in Nat
             /\ board \in [1 .. Len(board) -> Live]
             /\ IsInjective(board) /\ Range(board) = Live

LEMMA OrderOfAll ==
    ASSUME NEW S \in SUBSET Items, NEW order \in Orders(S)
    PROVE  /\ Len(order) \in Nat /\ order \in [1 .. Len(order) -> S]
           /\ IsInjective(order) /\ Range(order) = S
  <1>1. IsFiniteSet(S)
    BY BacklogAssumption, FS_Subset
  <1>2. Cardinality(S) \in Nat
    BY <1>1, FS_CardinalityType
  <1>3. order \in [1 .. Cardinality(S) -> S] /\ IsInjective(order) /\ Range(order) = S
    BY DEF Orders
  <1>4. order \in Seq(S) /\ Len(order) = Cardinality(S)
    BY <1>2, <1>3
  <1> QED
    BY <1>2, <1>3, <1>4

LEMMA BoardAppended ==
    ASSUME BoardIInv, NEW x, x \notin Live, board' = Append(board, x), Live' = Live \cup {x}
    PROVE  BoardIInv'
  <1> DEFINE n == Len(board)
  <1>1. /\ n \in Nat /\ board \in [1 .. n -> Live] /\ board \in Seq(Live \cup {x})
        /\ \A i, j \in 1 .. n : board[i] = board[j] => i = j
        /\ \A y \in Live : \E i \in 1 .. n : board[i] = y
    BY DEF BoardIInv, IsInjective, Range
  <1>2. /\ Len(board') = n + 1 /\ board' \in Seq(Live')
        /\ board' \in [1 .. n + 1 -> Live']
        /\ board'[n + 1] = x /\ \A i \in 1 .. n : board'[i] = board[i]
    <2> DEFINE L == Live \cup {x}
    <2>1. board \in Seq(L) /\ x \in L /\ Live' = L
      BY <1>1
    <2> HIDE DEF L
    <2>2. board' \in Seq(L) /\ Len(board') = n + 1
      BY <2>1
    <2>3. board' \in [1 .. n + 1 -> L]
      BY <2>2, LenProperties
    <2>4. board'[n + 1] = x /\ \A i \in 1 .. n : board'[i] = board[i]
      BY <1>1, <2>1
    <2> QED
      BY <2>1, <2>2, <2>3, <2>4
  <1>3. \A i, j \in 1 .. n + 1 : board'[i] = board'[j] => i = j
    BY <1>1, <1>2
  <1>4. \A y \in Live' : \E i \in 1 .. n + 1 : board'[i] = y
    BY <1>1, <1>2
  <1> HIDE DEF n
  <1> QED
    BY <1>1, <1>2, <1>3, <1>4 DEF BoardIInv, IsInjective, Range

LEMMA BoardShortened ==
    ASSUME BoardIInv, NEW x \in Live, board' = OrderWithout(x), Live' = Live \ {x}
    PROVE  BoardIInv'
  <1> DEFINE n == Len(board)
             at == CHOOSE k \in 1 .. n : board[k] = x
  <1>1. /\ n \in Nat /\ board \in [1 .. n -> Live]
        /\ \A i, j \in 1 .. n : board[i] = board[j] => i = j
        /\ \A y \in Live : \E i \in 1 .. n : board[i] = y
    BY DEF BoardIInv, IsInjective, Range
  <1>2. at \in 1 .. n /\ board[at] = x
    BY <1>1
  <1>3. board' = [k \in 1 .. n - 1 |-> board[IF k < at THEN k ELSE k + 1]]
    BY DEF OrderWithout
  <1> HIDE DEF n, at
  <1>4. \A k \in 1 .. n - 1 : /\ (IF k < at THEN k ELSE k + 1) \in 1 .. n
                              /\ (IF k < at THEN k ELSE k + 1) # at
    BY <1>1, <1>2
  <1>5. board' \in [1 .. n - 1 -> Live']
    BY <1>1, <1>2, <1>3, <1>4
  <1>6. n - 1 \in Nat /\ Len(board') = n - 1
    <2>1. n - 1 \in Nat
      BY <1>1, <1>2
    <2> QED
      BY <2>1, <1>5
  <1>7. \A i, j \in 1 .. n - 1 : board'[i] = board'[j] => i = j
    BY <1>1, <1>2, <1>3, <1>4
  <1>8. ASSUME NEW y \in Live'
        PROVE  \E i \in 1 .. n - 1 : board'[i] = y
    <2>1. PICK k \in 1 .. n : board[k] = y
      BY <1>1
    <2>2. k # at
      BY <1>2, <2>1
    <2>3. CASE k < at
      BY <1>1, <1>2, <1>3, <2>1, <2>3
    <2>4. CASE k > at
      <3>1. k - 1 \in 1 .. n - 1 /\ ~(k - 1 < at) /\ (k - 1) + 1 = k
        BY <1>1, <1>2, <2>1, <2>4
      <3> QED
        BY <1>3, <2>1, <3>1
    <2> QED
      BY <1>1, <1>2, <2>1, <2>2, <2>3, <2>4
  <1> QED
    BY <1>5, <1>6, <1>7, <1>8 DEF BoardIInv, IsInjective, Range

LEMMA BoardStays ==
    ASSUME BoardIInv, board' = board, Live' = Live
    PROVE  BoardIInv'
  BY DEF BoardIInv

LEMMA BoardStep == IInv /\ BoardIInv /\ [Next]_vars => BoardIInv'
  <1> SUFFICES ASSUME IInv, BoardIInv, [Next]_vars
               PROVE  BoardIInv'
    OBVIOUS
  <1>1. ASSUME NEW x \in Items, NEW key \in Keys, NEW draft \in Drafts,
               CreateItem(x, key, draft)
        PROVE  BoardIInv'
    <2>1. x \notin Live /\ board' = Append(board, x) /\ Live' = Live \cup {x}
      BY <1>1, WrittenRow DEF CreateItem, IInv, TablesOK, Live
    <2> QED
      BY <2>1, BoardAppended
  <1>2. ASSUME NEW x \in Items, NEW key \in Keys, NEW draft \in Drafts,
               UpdateItem(x, key, draft)
        PROVE  BoardIInv'
    <2>1. board' = board /\ Live' = Live
      BY <1>2, WrittenRow DEF UpdateItem, IInv, TablesOK, Live
    <2> QED
      BY <2>1, BoardStays
  <1>3. ASSUME NEW x \in Items, DeleteItem(x)
        PROVE  BoardIInv'
    <2>1. x \in Live /\ board' = OrderWithout(x) /\ Live' = Live \ {x}
      BY <1>3 DEF DeleteItem, IInv, TablesOK, Live
    <2> QED
      BY <2>1, BoardShortened
  <1>4. ASSUME NEW order \in Orders(Live), ReorderItems(order)
        PROVE  BoardIInv'
    <2>1. Live \in SUBSET Items
      BY DEF Live
    <2>2. board' = order /\ Live' = Live
      BY <1>4 DEF ReorderItems, Live
    <2> QED
      BY <2>1, <2>2, OrderOfAll DEF BoardIInv
  <1>5. ASSUME NEW written \in SUBSET Items, NEW order \in Orders(written),
               NEW keys \in [written -> Keys], NEW drafts \in [written -> Drafts],
               ReplaceBoard(order, keys, drafts)
        PROVE  BoardIInv'
    <2>1. Range(order) = written
      BY OrderOfAll
    <2>2. /\ board' = order
          /\ items' = [x \in Items |-> IF x \in written
                                       THEN Written(x, keys[x], drafts[x]) ELSE None]
      BY <1>5, <2>1 DEF ReplaceBoard
    <2>3. ASSUME NEW x \in written
          PROVE  items'[x] # None
      <3>1. x \in Items /\ keys[x] \in Keys /\ drafts[x] \in Drafts
        OBVIOUS
      <3> QED
        BY <2>2, <3>1, WrittenRow
    <2>4. Live' = written
      BY <2>2, <2>3 DEF Live
    <2> QED
      BY <2>2, <2>4, OrderOfAll DEF BoardIInv
  <1>6. ASSUME NEW c \in Cycles, NEW t \in Tribes,
               NEW copy \in [Candidates(c, t) -> Initiatives], Dispatch(c, t, copy)
        PROVE  BoardIInv'
    <2>1. /\ board' = board
          /\ items' = [x \in Items |->
                 IF x \in Candidates(c, t)
                 THEN [items[x] EXCEPT !.sent = TRUE, !.sentTo = @ \cup {c}]
                 ELSE items[x]]
      BY <1>6 DEF Dispatch
    <2>2. ASSUME NEW x \in Candidates(c, t)
          PROVE  x \in Live /\ items'[x] # None
      <3>1. x \in Items /\ x \in Live /\ items[x] \in Item
        BY ItemRow DEF Candidates
      <3>2. items'[x] = [items[x] EXCEPT !.sent = TRUE, !.sentTo = items[x].sentTo \cup {c}]
        BY <2>1, <3>1
      <3>3. items'[x] \in Item
        BY <3>1, <3>2 DEF Item
      <3> QED
        BY <3>1, <3>3, BacklogAssumption
    <2>3. Live' = Live
      BY <2>1, <2>2 DEF Live
    <2> QED
      BY <2>1, <2>3, BoardStays
  <1>7. CASE items' = items /\ board' = board
    BY <1>7, BoardStays DEF Live
  <1>8. CASE UNCHANGED vars
    BY <1>7, <1>8 DEF vars
  <1>9. ASSUME NEW n \in Initiatives, NEW c \in Cycles, NEW key \in Keys, NEW staff \in Staffings,
               CreateInitiative(n, c, key, staff)
        PROVE  BoardIInv'
    BY <1>7, <1>9 DEF CreateInitiative
  <1>10. ASSUME NEW n \in Initiatives, NEW staff, NEW wanted, EditExecutors(n, staff, wanted)
         PROVE  BoardIInv'
    BY <1>7, <1>10 DEF EditExecutors
  <1>11. ASSUME NEW n \in Initiatives, DeleteInitiative(n)
         PROVE  BoardIInv'
    BY <1>7, <1>11 DEF DeleteInitiative
  <1>12. ASSUME NEW n \in Initiatives, NEW staff \in Staffings, EditOwner(n, staff.owner)
         PROVE  BoardIInv'
    BY <1>7, <1>12 DEF EditOwner
  <1> HIDE DEF BoardIInv
  <1> QED
    BY <1>1, <1>2, <1>3, <1>4, <1>5, <1>6, <1>8, <1>9, <1>10, <1>11, <1>12 DEF Next

(* Tables and board have their types: the board lists every item once.       *)
THEOREM BoardListsItemsOnce == Spec => []TypeOK
  <1>1. Init => BoardIInv
    BY DEF Init, BoardIInv, Live, IsInjective, Range
  <1>2. IInv /\ BoardIInv => TypeOK
    BY DEF IInv, BoardIInv, TypeOK, BoardOK
  <1> QED
    BY Invariance, <1>1, <1>2, BoardStep, PTL DEF Spec
-----------------------------------------------------------------------------
(* What the unique constraint of the requests stops.                         *)

(* The candidates are all written when the whole board has had its turn.     *)
LEMMA LastOfBoard ==
    ASSUME IInv, BoardIInv, NEW c \in Cycles, NEW t \in Tribes, Candidates(c, t) # {}
    PROVE  /\ Len(board) \in 1 .. Len(board)
           /\ FirstItems(c, t, Len(board)) = Candidates(c, t)
  <1>1. \A x \in Candidates(c, t) : \E j \in 1 .. Len(board) : board[j] = x
    BY DEF BoardIInv, Range, Candidates
  <1>2. Len(board) \in 1 .. Len(board)
    BY <1>1 DEF BoardIInv
  <1> QED
    BY <1>1, <1>2 DEF FirstItems

(* The rows of one form differ, and those of other initiatives stay.         *)
LEMMA EditedRowsUnique ==
    ASSUME IInv, UniqueRows(requests), NEW n \in Initiatives, NEW staff,
           NEW wanted \in SUBSET Wanted, EditExecutors(n, staff, wanted)
    PROVE  UniqueRows(requests')
  <1> DEFINE Row(target, w) == [from |-> n, key |-> w.key, target |-> target[w.key],
                                team |-> w.team, sprint |-> w.sprint]
  <1>1. PICK target \in Targets(n, wanted) :
            requests' \subseteq (requests \ From(n)) \cup {Row(target, w) : w \in wanted}
    BY DEF EditExecutors
  <1> SUFFICES ASSUME NEW r \in requests', NEW q \in requests', r # q, r.sprint # None
               PROVE  Distinct(r, q)
    BY DEF UniqueRows
  <1>2. \A p \in requests' : \/ p \in requests /\ p.from # n
                             \/ \E w \in wanted : p = Row(target, w)
    BY <1>1 DEF From
  <1>3. CASE r \in requests /\ q \in requests
    BY <1>3 DEF UniqueRows
  <1>4. ASSUME NEW w \in wanted, r = Row(target, w), NEW v \in wanted, q = Row(target, v)
        PROVE  Distinct(r, q)
    BY <1>4 DEF Distinct
  <1>5. CASE r.from # q.from
    BY <1>5 DEF Distinct
  <1> QED
    BY <1>2, <1>3, <1>4, <1>5

LEMMA RowsUniqueStep ==
    IInv /\ BoardIInv /\ UniqueRows(requests) /\ [Next]_vars => UniqueRows(requests)'
  <1> SUFFICES ASSUME IInv, BoardIInv, UniqueRows(requests), [Next]_vars
               PROVE  UniqueRows(requests')
    BY DEF UniqueRows, Distinct
  <1>1. CASE requests' = requests
    BY <1>1
  <1>2. ASSUME NEW c \in Cycles, NEW t \in Tribes,
               NEW copy \in [Candidates(c, t) -> Initiatives], Dispatch(c, t, copy)
        PROVE  UniqueRows(requests')
    <2>1. Candidates(c, t) # {} /\ RowsStayUnique(c, t, copy)
      BY <1>2 DEF Dispatch, Assignment
    <2>2. requests' = RowsAfter(copy, Candidates(c, t))
      BY <1>2 DEF Dispatch
    <2> QED
      BY <2>1, <2>2, LastOfBoard DEF RowsStayUnique
  <1>3. ASSUME NEW n \in Initiatives, NEW staff, NEW wanted \in SUBSET Wanted,
               EditExecutors(n, staff, wanted)
        PROVE  UniqueRows(requests')
    BY <1>3, EditedRowsUnique
  <1>4. ASSUME NEW n \in Initiatives, DeleteInitiative(n)
        PROVE  UniqueRows(requests')
    <2> DEFINE After(r) == IF r.target = n THEN [r EXCEPT !.target = None] ELSE r
    <2>1. \A q \in requests' : \E r \in requests : q = After(r)
      BY <1>4 DEF DeleteInitiative
    <2>2. ASSUME NEW r \in requests
          PROVE  /\ After(r).from = r.from /\ After(r).key = r.key
                 /\ After(r).team = r.team /\ After(r).sprint = r.sprint
      BY DEF IInv, TablesOK, Request
    <2> HIDE DEF After
    <2> QED
      BY <2>1, <2>2 DEF UniqueRows, Distinct
  <1> QED
    <2>1. CASE UNCHANGED vars
      BY <1>1, <2>1 DEF vars
    <2>2. CASE Next
      <3>1. ASSUME NEW x \in Items, NEW key \in Keys, NEW draft \in Drafts,
                   CreateItem(x, key, draft) \/ UpdateItem(x, key, draft)
            PROVE  UniqueRows(requests')
        BY <1>1, <3>1 DEF CreateItem, UpdateItem
      <3>2. ASSUME NEW x \in Items, DeleteItem(x)
            PROVE  UniqueRows(requests')
        BY <1>1, <3>2 DEF DeleteItem
      <3>3. ASSUME NEW order, ReorderItems(order)
            PROVE  UniqueRows(requests')
        BY <1>1, <3>3 DEF ReorderItems
      <3>4. ASSUME NEW order, NEW keys, NEW drafts, ReplaceBoard(order, keys, drafts)
            PROVE  UniqueRows(requests')
        BY <1>1, <3>4 DEF ReplaceBoard
      <3>5. ASSUME NEW n \in Initiatives, NEW c, NEW key, NEW staff,
                   CreateInitiative(n, c, key, staff) \/ EditOwner(n, staff.owner)
            PROVE  UniqueRows(requests')
        BY <1>1, <3>5 DEF CreateInitiative, EditOwner
      <3> QED
        BY <1>2, <1>3, <1>4, <2>2, <3>1, <3>2, <3>3, <3>4, <3>5 DEF Next
    <2> QED
      BY <2>1, <2>2
(* No initiative ever has two requests that the database would refuse: the   *)
(* forms make none, and a dispatch that would is rolled back                 *)
(* (uq_initiative_attraction_target).                                        *)
THEOREM RequestRowsStayUnique == Spec => []UniqueRows(requests)
  <1>1. Init => BoardIInv /\ UniqueRows(requests)
    BY DEF Init, BoardIInv, Live, IsInjective, Range, UniqueRows
  <1> QED
    BY Invariance, <1>1, BoardStep, RowsUniqueStep, PTL DEF Spec

(* An initiative asks one team in one sprint for the copy of x and, by       *)
(* another request, for the key that this copy is to get, which names nobody *)
(* or a copy that is to give it up.                                          *)
Crossed(c, t, copy) ==
    \E x \in Candidates(c, t), r, q \in requests :
        /\ r # q /\ r.sprint # None
        /\ <<r.from, r.team, r.sprint>> = <<q.from, q.team, q.sprint>>
        /\ r.target = copy[x] /\ q.key = items[x].key
        /\ \/ q.target = None
           \/ \E y \in Candidates(c, t) : q.target = copy[y] /\ items[y].key # q.key

(* The requests of two rows, one of them renamed to its candidate's key.     *)
LEMMA CollisionCrosses ==
    ASSUME IInv, RequestsMatch, UniqueRows(requests), NEW c \in Cycles, NEW t \in Tribes,
           NEW copy \in [Candidates(c, t) -> Initiatives], Assignment(c, t, copy),
           NEW x \in Candidates(c, t), NEW r \in requests, NEW q \in requests,
           r # q, r.sprint # None, <<r.from, r.team, r.sprint>> = <<q.from, q.team, q.sprint>>,
           r.target = copy[x], q.key = items[x].key
    PROVE  Crossed(c, t, copy)
  <1>1. r.key # q.key
    BY DEF UniqueRows, Distinct
  <1>2. r.target # None /\ initiatives[r.target] # None /\ initiatives[r.target].key = r.key
    BY BacklogAssumption DEF RequestsMatch
  <1>3. copy[x] \in InCycle(c)
    BY <1>2, CopyChoice DEF LinkedTo, Keyed
  <1>4. CASE q.target = None
    BY <1>4 DEF Crossed
  <1>5. CASE q.target # None
    <2>1. /\ q.target \in Keyed(c, items[x].key) /\ initiatives[q.target].key = q.key
      <3>1. q \in Request
        BY DEF IInv, TablesOK
      <3> QED
        BY <1>2, <1>3, <1>5, <3>1 DEF RequestsMatch, Keyed, InCycle, Request
    <2>2. PICK y \in Candidates(c, t) : q.target = copy[y]
      BY <2>1, KeysAreFreed
    <2>3. x # y
      BY <1>1, <1>2, <2>1, <2>2
    <2>4. items[y].key # items[x].key
      BY <2>3 DEF IInv, KeysUnique, Candidates
    <2> QED
      BY <2>2, <2>4 DEF Crossed
  <1> QED
    BY <1>4, <1>5

LEMMA UncrossedPasses ==
    ASSUME IInv, RequestsMatch, UniqueRows(requests), NEW c \in Cycles, NEW t \in Tribes,
           NEW copy \in [Candidates(c, t) -> Initiatives], Assignment(c, t, copy),
           ~Crossed(c, t, copy)
    PROVE  RowsStayUnique(c, t, copy)
  <1> SUFFICES ASSUME NEW k \in 1 .. Len(board)
               PROVE  UniqueRows(RowsAfter(copy, FirstItems(c, t, k)))
    BY DEF RowsStayUnique
  <1> DEFINE done == FirstItems(c, t, k)
             Source(r) == CHOOSE x \in done : copy[x] = r.target
             After(r) == IF \E x \in done : copy[x] = r.target
                         THEN [r EXCEPT !.key = items[Source(r)].key] ELSE r
  <1>1. done \subseteq Candidates(c, t)
    BY DEF FirstItems
  <1>2. \A p \in RowsAfter(copy, done) : \E r \in requests : p = After(r)
    BY DEF RowsAfter
  <1>3. ASSUME NEW r \in requests, NEW x \in done, copy[x] = r.target
        PROVE  Source(r) = x
    <2>1. Source(r) \in done /\ copy[Source(r)] = r.target
      BY <1>3
    <2> HIDE DEF Source, done
    <2> QED
      BY <1>1, <1>3, <2>1, CopyChoice
  <1> HIDE DEF Source, done
  <1>4. ASSUME NEW r \in requests
        PROVE  /\ After(r).from = r.from /\ After(r).team = r.team
               /\ After(r).sprint = r.sprint /\ After(r).target = r.target
               /\ \/ After(r).key = r.key
                  \/ \E x \in done : copy[x] = r.target /\ After(r).key = items[x].key
    <2>1. r \in Request
      BY DEF IInv, TablesOK
    <2>2. CASE \E x \in done : copy[x] = r.target
      <3>1. PICK x \in done : copy[x] = r.target
        BY <2>2
      <3>2. After(r) = [r EXCEPT !.key = items[x].key]
        BY <1>3, <3>1
      <3> QED
        BY <2>1, <3>1, <3>2 DEF Request
    <2>3. CASE ~\E x \in done : copy[x] = r.target
      BY <2>3
    <2> QED
      BY <2>2, <2>3
  <1> HIDE DEF After
  <1> SUFFICES ASSUME NEW r \in requests, NEW q \in requests, After(r) # After(q),
                      After(r).sprint # None, ~Distinct(After(r), After(q))
               PROVE  FALSE
    BY <1>2 DEF UniqueRows, done
  <1>5. /\ r # q /\ r.sprint # None /\ q.sprint # None
        /\ <<r.from, r.team, r.sprint>> = <<q.from, q.team, q.sprint>>
        /\ After(r).key = After(q).key
    BY <1>4 DEF Distinct
  <1>6. CASE After(r).key = r.key /\ After(q).key = q.key
    BY <1>5, <1>6 DEF UniqueRows, Distinct
  <1>7. CASE After(q).key = q.key /\ \E x \in done : copy[x] = r.target /\ After(r).key = items[x].key
    BY <1>1, <1>5, <1>7, CollisionCrosses
  <1>8. CASE After(r).key = r.key /\ \E x \in done : copy[x] = q.target /\ After(q).key = items[x].key
    BY <1>1, <1>5, <1>8, CollisionCrosses
  <1>9. CASE /\ \E x \in done : copy[x] = r.target /\ After(r).key = items[x].key
             /\ \E x \in done : copy[x] = q.target /\ After(q).key = items[x].key
    <2>1. PICK x \in done, y \in done :
              /\ copy[x] = r.target /\ After(r).key = items[x].key
              /\ copy[y] = q.target /\ After(q).key = items[y].key
      BY <1>9
    <2>2. x = y
      BY <1>1, <1>5, <2>1 DEF IInv, KeysUnique, Candidates
    <2>3. r.target = q.target /\ r.target # None
      BY <1>1, <2>1, <2>2, BacklogAssumption
    <2>4. r.key = q.key
      BY <2>3 DEF RequestsMatch
    <2> QED
      BY <1>5, <2>4 DEF UniqueRows, Distinct
  <1> QED
    BY <1>4, <1>6, <1>7, <1>8, <1>9

(* A dispatch meets the unique constraint in one case only, the one that     *)
(* refutes SwapsGoThrough: requests of one initiative to one team in one     *)
(* sprint for a copy and for the key it gets from another                    *)
(* (dispatch_backlog_items, the renaming of target_initiative's requests).   *)
THEOREM OnlyCrossedSwapsFail ==
    Spec => [](\A c \in Cycles, t \in Tribes : \A copy \in [Candidates(c, t) -> Initiatives] :
                   Assignment(c, t, copy) /\ ~Crossed(c, t, copy) => RowsStayUnique(c, t, copy))
  <1> DEFINE Passes ==
          \A c \in Cycles, t \in Tribes : \A copy \in [Candidates(c, t) -> Initiatives] :
              Assignment(c, t, copy) /\ ~Crossed(c, t, copy) => RowsStayUnique(c, t, copy)
  <1>1. IInv /\ RequestsMatch /\ UniqueRows(requests) => Passes
    BY UncrossedPasses
  <1> HIDE DEF Passes
  <1>2. Spec => []Passes
    BY <1>1, Invariance, RequestsStayMatched, RequestRowsStayUnique, PTL
  <1> QED
    BY <1>2 DEF Passes
=============================================================================
