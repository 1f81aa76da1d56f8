--------------------------- MODULE VersionedStore ---------------------------
(***************************************************************************)
(* What the optimistic locking of the backend promises to the people who   *)
(* edit the planning data (docs/optimistic-locking.md): an edit is made by *)
(* one editor who has the aggregates it changes to itself, it changes all  *)
(* of them at once or none, and where it is checked it is accepted only    *)
(* from an editor that has seen every earlier edit.  There are no rows,    *)
(* transactions or version numbers here; OptimisticLocking shows how the   *)
(* code obtains this behaviour from them.                                  *)
(***************************************************************************)
EXTENDS Naturals

CONSTANTS Aggregates,   \* the backlog board and the PI cycles
          Editors,      \* the open pages and API clients
          Careful       \* editors whose view never mixes two moments

VARIABLES edits,        \* edits[a]: number of edits of a accepted so far
          seen,         \* seen[e][a]: the prefix of those edits e has seen
          taken,        \* taken[e]: the aggregates e has to itself
          checks        \* checks[e]: those that e must know entirely

storeVars == <<edits, seen, taken, checks>>

StoreTypeOK ==
    /\ edits \in [Aggregates -> Nat]
    /\ seen \in [Editors -> [Aggregates -> Nat]]
    /\ taken \in [Editors -> SUBSET Aggregates]
    /\ checks \in [Editors -> SUBSET Aggregates]

StoreInit ==
    /\ edits = [a \in Aggregates |-> 0]
    /\ seen = [e \in Editors |-> [a \in Aggregates |-> 0]]
    /\ taken = [e \in Editors |-> {}]
    /\ checks = [e \in Editors |-> {}]

Free(a) == \A e \in Editors : a \notin taken[e]

(* An editor reads an aggregate and may learn of further edits. *)
Observe(e, a) ==
    /\ \E n \in seen[e][a] .. edits[a] : seen' = [seen EXCEPT ![e][a] = n]
    /\ UNCHANGED <<edits, taken, checks>>

(* An edit starts with one aggregate, which may be one to check ... *)
Take(e, a, check) ==
    /\ taken[e] = {}
    /\ Free(a)
    /\ taken' = [taken EXCEPT ![e] = {a}]
    /\ checks' = [checks EXCEPT ![e] = IF check THEN {a} ELSE {}]
    /\ UNCHANGED <<edits, seen>>

(* ... and may go on to others. *)
TakeMore(e, a) ==
    /\ taken[e] # {}
    /\ Free(a)
    /\ taken' = [taken EXCEPT ![e] = @ \cup {a}]
    /\ UNCHANGED <<edits, seen, checks>>

GiveBack(e) ==
    /\ taken[e] # {}
    /\ taken' = [taken EXCEPT ![e] = {}]
    /\ checks' = [checks EXCEPT ![e] = {}]

(* The edit changes all that was taken; a careful editor has seen all there *)
(* is of what it checks.                                                    *)
Edit(e) ==
    /\ GiveBack(e)
    /\ e \in Careful => \A a \in checks[e] : seen[e][a] = edits[a]
    /\ edits' = [a \in Aggregates |-> IF a \in taken[e] THEN edits[a] + 1 ELSE edits[a]]
    /\ UNCHANGED seen

(* The edit is given up. *)
Drop(e) == GiveBack(e) /\ UNCHANGED <<edits, seen>>

StoreNext ==
    \E e \in Editors :
        \/ \E a \in Aggregates :
               Observe(e, a) \/ TakeMore(e, a) \/ \E check \in BOOLEAN : Take(e, a, check)
        \/ Edit(e) \/ Drop(e)

StoreSpec == StoreInit /\ [][StoreNext]_storeVars
=============================================================================
