------------------------- MODULE JiraLimiter_proofs -------------------------
(***************************************************************************)
(* Proofs about JiraLimiter for any number of requests and any limits.     *)
(***************************************************************************)
EXTENDS JiraLimiter, FiniteSetTheorems, TLAPS

LEMMA WithoutProperties ==
    ASSUME NEW S, NEW s \in Seq(S), NEW i \in 1 .. Len(s)
    PROVE  /\ Without(s, i) \in Seq(S)
           /\ Len(Without(s, i)) = Len(s) - 1
           /\ \A k \in 1 .. Len(s) - 1 :
                  Without(s, i)[k] = IF k < i THEN s[k] ELSE s[k + 1]
  BY DEF Without

LEMMA TypeStep == TypeOK /\ [Next]_vars => TypeOK'
<1> SUFFICES ASSUME TypeOK, [Next]_vars
             PROVE  TypeOK'
  OBVIOUS
<1> USE DEF TypeOK, Locations
<1>1. ASSUME NEW r \in Requests, EnterFree(r)
      PROVE  TypeOK'
  BY <1>1 DEF EnterFree
<1>2. ASSUME NEW r \in Requests, EnterLine(r)
      PROVE  TypeOK'
  BY <1>2 DEF EnterLine
<1>3. ASSUME NEW r \in Requests, Interrupt(r)
      PROVE  TypeOK'
  BY <1>3, WithoutProperties DEF Interrupt
<1>4. ASSUME NEW r \in Requests, TakeSlot(r)
      PROVE  TypeOK'
  BY <1>4 DEF TakeSlot
<1>5. ASSUME NEW r \in Requests, WaitAgain(r)
      PROVE  TypeOK'
  BY <1>5 DEF WaitAgain
<1>6. ASSUME NEW r \in Requests, MoveAndNotify(r, "idle")
      PROVE  pc' \in [Requests -> Locations] /\ line' \in Seq(Requests)
  <2>1. CASE line = <<>>
    BY <1>6, <2>1 DEF MoveAndNotify
  <2>2. CASE line # <<>>
    <3>1. Head(line) \in Requests /\ Tail(line) \in Seq(Requests)
      BY <2>2
    <3> QED
      BY <1>6, <2>2, <3>1 DEF MoveAndNotify
  <2> QED
    BY <2>1, <2>2
<1>7. ASSUME NEW r \in Requests, Leave(r) \/ Release(r)
      PROVE  TypeOK'
  BY <1>6, <1>7 DEF Leave, Release
<1>8. CASE UNCHANGED vars
  BY <1>8 DEF vars
<1> QED
  BY <1>1, <1>2, <1>3, <1>4, <1>5, <1>7, <1>8 DEF Next

(* Type correctness of the limiter. *)
THEOREM TypeCorrect == Spec => []TypeOK
<1>1. Init => TypeOK
  BY DEF Init, TypeOK, Locations
<1> QED
  BY <1>1, TypeStep, PTL DEF Spec

-----------------------------------------------------------------------------
(***************************************************************************)
(* The line holds exactly the requests whose future is pending, each once. *)
(***************************************************************************)
LineExact ==
    /\ \A i \in 1 .. Len(line) : pc[line[i]] = "pending"
    /\ \A i, j \in 1 .. Len(line) : line[i] = line[j] => i = j
    /\ \A r \in Requests : pc[r] = "pending" => \E i \in 1 .. Len(line) : line[i] = r

LEMMA MoveAndNotifyLine ==
    ASSUME TypeOK, LineExact, NEW r \in Requests, NEW l \in Locations,
           pc[r] # "pending", l # "pending", MoveAndNotify(r, l)
    PROVE  LineExact'
<1>1. CASE line = <<>>
  BY <1>1 DEF MoveAndNotify, TypeOK, LineExact
<1>2. CASE line # <<>>
  <2>1. /\ pc' = [pc EXCEPT ![r] = l, ![Head(line)] = "notified"]
        /\ line' = Tail(line)
        /\ Head(line) = line[1] /\ Head(line) \in Requests
        /\ Len(line') = Len(line) - 1 /\ Len(line) \in Nat \ {0}
        /\ \A i \in 1 .. Len(line) - 1 : line'[i] = line[i + 1]
    BY <1>2 DEF MoveAndNotify, TypeOK
  <2>2. \A i \in 1 .. Len(line') : line'[i] # line[1] /\ pc[line'[i]] = "pending"
    BY <2>1 DEF LineExact
  <2>3. \A i \in 1 .. Len(line') : line'[i] \in Requests
    BY <2>1 DEF TypeOK
  <2>4. \A i \in 1 .. Len(line') : pc'[line'[i]] = "pending"
    BY <2>1, <2>2, <2>3 DEF TypeOK
  <2>5. \A i, j \in 1 .. Len(line') : line'[i] = line'[j] => i = j
    BY <2>1 DEF LineExact
  <2>6. ASSUME NEW q \in Requests, pc'[q] = "pending"
        PROVE  \E i \in 1 .. Len(line') : line'[i] = q
    <3>1. pc[q] = "pending" /\ q # line[1]
      BY <2>1, <2>6 DEF TypeOK
    <3>2. PICK k \in 1 .. Len(line) : line[k] = q
      BY <3>1 DEF LineExact
    <3>3. k - 1 \in 1 .. Len(line') /\ line'[k - 1] = q
      BY <2>1, <3>1, <3>2
    <3> QED
      BY <3>3
  <2> QED
    BY <2>4, <2>5, <2>6 DEF LineExact
<1> QED
  BY <1>1, <1>2

LEMMA AppendLine ==
    ASSUME TypeOK, LineExact, NEW r \in Requests, pc[r] # "pending",
           pc' = [pc EXCEPT ![r] = "pending"], line' = Append(line, r)
    PROVE  LineExact'
<1>1. /\ Len(line') = Len(line) + 1 /\ line'[Len(line) + 1] = r /\ Len(line) \in Nat
      /\ \A i \in 1 .. Len(line) : line'[i] = line[i] /\ line[i] \in Requests
  BY DEF TypeOK
<1>2. \A i \in 1 .. Len(line) : line[i] # r
  BY DEF LineExact
<1>3. \A i \in 1 .. Len(line') : pc'[line'[i]] = "pending"
  BY <1>1 DEF TypeOK, LineExact
<1>4. \A i, j \in 1 .. Len(line') : line'[i] = line'[j] => i = j
  BY <1>1, <1>2 DEF LineExact
<1>5. ASSUME NEW q \in Requests, pc'[q] = "pending"
      PROVE  \E i \in 1 .. Len(line') : line'[i] = q
  <2>1. CASE q = r
    BY <1>1, <2>1
  <2>2. CASE q # r
    BY <1>1, <1>5, <2>2 DEF TypeOK, LineExact
  <2> QED
    BY <2>1, <2>2
<1> QED
  BY <1>3, <1>4, <1>5 DEF LineExact

LEMMA LineStep == TypeOK /\ LineExact /\ [Next]_vars => LineExact'
<1> SUFFICES ASSUME TypeOK, LineExact, [Next]_vars
             PROVE  LineExact'
  OBVIOUS
<1>1. ASSUME NEW r \in Requests, NEW l \in Locations, pc[r] # "pending", l # "pending",
             pc' = [pc EXCEPT ![r] = l], line' = line
      PROVE  LineExact'
  BY <1>1 DEF TypeOK, LineExact
<1>2. ASSUME NEW r \in Requests, EnterFree(r) \/ TakeSlot(r)
      PROVE  LineExact'
  BY <1>1, <1>2 DEF EnterFree, TakeSlot, Locations
<1>3. ASSUME NEW r \in Requests, EnterLine(r) \/ WaitAgain(r)
      PROVE  LineExact'
  BY <1>3, AppendLine DEF EnterLine, WaitAgain
<1>4. ASSUME NEW r \in Requests, Leave(r) \/ Release(r)
      PROVE  LineExact'
  BY <1>4, MoveAndNotifyLine DEF Leave, Release, Locations
<1>5. ASSUME NEW r \in Requests, Interrupt(r)
      PROVE  LineExact'
  <2>1. CASE pc[r] = "notified" /\ line' = line
    BY <1>1, <1>5, <2>1 DEF Interrupt, Locations
  <2>2. CASE pc[r] = "pending"
    <3>1. PICK i \in 1 .. Len(line) : line[i] = r /\ line' = Without(line, i)
      BY <1>5, <2>2 DEF Interrupt
    <3>2. /\ Len(line') = Len(line) - 1 /\ Len(line) \in Nat
          /\ \A k \in 1 .. Len(line') : line'[k] = IF k < i THEN line[k] ELSE line[k + 1]
      <4>1. line \in Seq(Requests)
        BY DEF TypeOK
      <4>2. /\ Len(Without(line, i)) = Len(line) - 1
            /\ \A k \in 1 .. Len(line) - 1 :
                   Without(line, i)[k] = IF k < i THEN line[k] ELSE line[k + 1]
        BY <4>1, WithoutProperties
      <4> QED
        BY <3>1, <4>1, <4>2
    <3>3. pc' = [pc EXCEPT ![r] = "interrupted"]
      BY <1>5 DEF Interrupt
    <3>4. \A k \in 1 .. Len(line) : k # i => line[k] # r /\ line[k] \in Requests
      BY <3>1 DEF LineExact, TypeOK
    <3>5. \A k \in 1 .. Len(line') : pc'[line'[k]] = "pending"
      BY <3>2, <3>3, <3>4 DEF LineExact, TypeOK
    <3>6. \A k, j \in 1 .. Len(line') : line'[k] = line'[j] => k = j
      BY <3>2 DEF LineExact
    <3>7. ASSUME NEW q \in Requests, pc'[q] = "pending"
          PROVE  \E k \in 1 .. Len(line') : line'[k] = q
      <4>1. pc[q] = "pending" /\ q # r
        BY <3>3, <3>7 DEF TypeOK
      <4>2. PICK k \in 1 .. Len(line) : line[k] = q
        BY <4>1 DEF LineExact
      <4>3. CASE k < i
        BY <3>2, <4>2, <4>3
      <4>4. CASE k > i
        <5>1. k - 1 \in 1 .. Len(line') /\ line'[k - 1] = q
          BY <3>2, <4>2, <4>4
        <5> QED
          BY <5>1
      <4> QED
        BY <3>1, <4>1, <4>2, <4>3, <4>4
    <3> QED
      BY <3>5, <3>6, <3>7 DEF LineExact
  <2> QED
    BY <1>5, <2>1, <2>2 DEF Interrupt
<1>6. CASE UNCHANGED vars
  BY <1>6 DEF vars, LineExact
<1> QED
  BY <1>2, <1>3, <1>4, <1>5, <1>6 DEF Next

-----------------------------------------------------------------------------
(***************************************************************************)
(* The counters.  Every action moves at most two requests; these lemmas    *)
(* say what that does to the sizes of Calling, Queued and Awake.           *)
(***************************************************************************)
LEMMA AtFinite ==
    ASSUME NEW S \in SUBSET Requests
    PROVE  IsFiniteSet(S) /\ Cardinality(S) \in Nat
  BY JiraLimiterAssumption, FS_Subset, FS_CardinalityType

LEMMA Joins ==
    ASSUME NEW S \in SUBSET Requests, NEW r \in Requests, r \notin S
    PROVE  Cardinality(S \cup {r}) = Cardinality(S) + 1
  BY AtFinite, FS_AddElement

LEMMA Leaves ==
    ASSUME NEW S \in SUBSET Requests, NEW r \in S
    PROVE  Cardinality(S \ {r}) = Cardinality(S) - 1
  BY AtFinite, FS_RemoveElement

CapacityInv ==
    /\ TypeOK
    /\ LineExact
    /\ CountersExact
    /\ WithinLimits
    /\ NoLostWakeup

LEMMA Sizes ==
    /\ Cardinality(Calling) \in Nat
    /\ Cardinality(Queued) \in Nat
    /\ Cardinality(Awake) \in Nat
  BY AtFinite DEF Calling, Queued, Awake

(* A notification that finds a sleeper wakes exactly one more request. *)
LEMMA Notified ==
    ASSUME TypeOK, LineExact, NEW r \in Requests, pc[r] # "pending",
           MoveAndNotify(r, "idle")
    PROVE  /\ Calling' = Calling \ {r}
           /\ Queued' = Queued \ {r}
           /\ line = <<>> => line' = <<>>
           /\ line # <<>> => \E h \in Requests \ Awake :
                                h # r /\ Awake' = (Awake \ {r}) \cup {h}
<1>1. CASE line = <<>>
  BY <1>1 DEF MoveAndNotify, TypeOK, Calling, Queued, Awake
<1>2. CASE line # <<>>
  <2>1. /\ line[1] \in Requests /\ pc[line[1]] = "pending"
        /\ pc' = [pc EXCEPT ![r] = "idle", ![line[1]] = "notified"]
    BY <1>2 DEF MoveAndNotify, TypeOK, LineExact
  <2>2. line[1] \in Requests \ Awake /\ line[1] # r
    BY <2>1 DEF Awake
  <2>3. \A q \in Requests : pc'[q] = IF q = line[1] THEN "notified"
                                    ELSE IF q = r THEN "idle" ELSE pc[q]
    BY <2>1, <2>2 DEF TypeOK
  <2>4. Awake' = (Awake \ {r}) \cup {line[1]}
    BY <2>2, <2>3 DEF Awake
  <2>5. pc[line[1]] = "pending" /\ line[1] # r
    BY <2>1, <2>2
  <2>6. ASSUME NEW q \in Requests
        PROVE  /\ q \in Calling' <=> q \in Calling \ {r}
               /\ q \in Queued' <=> q \in Queued \ {r}
    BY <2>3, <2>5 DEF Calling, Queued
  <2>7. /\ Calling \subseteq Requests /\ Calling' \subseteq Requests
        /\ Queued \subseteq Requests /\ Queued' \subseteq Requests
    BY DEF Calling, Queued
  <2>8. Calling' = Calling \ {r} /\ Queued' = Queued \ {r}
    BY <2>6, <2>7
  <2> QED
    BY <1>2, <2>2, <2>4, <2>8
<1> QED
  BY <1>1, <1>2

LEMMA CapacityStep == CapacityInv /\ [Next]_vars => CapacityInv'
<1> SUFFICES ASSUME CapacityInv, [Next]_vars
             PROVE  CountersExact' /\ WithinLimits' /\ NoLostWakeup'
  BY TypeStep, LineStep DEF CapacityInv
<1> DEFINE Goal == CountersExact' /\ WithinLimits' /\ NoLostWakeup'
<1>0. TypeOK /\ LineExact /\ CountersExact /\ WithinLimits /\ NoLostWakeup
  BY DEF CapacityInv
<1> USE JiraLimiterAssumption, Sizes DEF CountersExact, WithinLimits, NoLostWakeup
<1>1. ASSUME NEW r \in Requests, EnterFree(r)
      PROVE  Goal
  <2>1. r \notin Calling /\ Calling' = Calling \cup {r} /\ Queued' = Queued /\ Awake' = Awake
    BY <1>0, <1>1 DEF EnterFree, TypeOK, Calling, Queued, Awake
  <2>2. Cardinality(Calling') = Cardinality(Calling) + 1
    BY <2>1, Joins DEF Calling
  <2> QED
    BY <1>0, <1>1, <2>1, <2>2 DEF EnterFree
<1>2. ASSUME NEW r \in Requests, EnterLine(r)
      PROVE  Goal
  <2>1. r \notin Queued /\ Queued' = Queued \cup {r} /\ Calling' = Calling /\ Awake' = Awake
    BY <1>0, <1>2 DEF EnterLine, TypeOK, Calling, Queued, Awake
  <2>2. Cardinality(Queued') = Cardinality(Queued) + 1
    BY <2>1, Joins DEF Queued
  <2> QED
    BY <1>0, <1>2, <2>1, <2>2 DEF EnterLine
<1>3. ASSUME NEW r \in Requests, Interrupt(r)
      PROVE  Goal
  <2>1. Calling' = Calling /\ Queued' = Queued /\ Awake' = Awake \cup {r}
    BY <1>0, <1>3 DEF Interrupt, TypeOK, Calling, Queued, Awake
  <2>2. Cardinality(Awake') \in Nat /\ Cardinality(Awake') >= Cardinality(Awake)
    <3>1. IsFiniteSet(Awake) /\ Cardinality(Awake) \in Nat
      BY AtFinite DEF Awake
    <3>2. Cardinality(Awake \cup {r}) = IF r \in Awake THEN Cardinality(Awake)
                                                      ELSE Cardinality(Awake) + 1
      BY <3>1, FS_AddElement
    <3> QED
      BY <2>1, <3>1, <3>2
  <2>3. line' # <<>> => line # <<>>
    <3>1. ASSUME line = <<>>
          PROVE  line' = <<>>
      BY <1>3, <3>1 DEF Interrupt
    <3> QED
      BY <3>1
  <2>4. active' = active /\ waiting' = waiting
    BY <1>3 DEF Interrupt
  <2> QED
    BY <1>0, <2>1, <2>2, <2>3, <2>4
<1>4. ASSUME NEW r \in Requests, TakeSlot(r)
      PROVE  Goal
  <2>1. /\ r \notin Calling /\ r \in Queued /\ r \in Awake
        /\ Calling' = Calling \cup {r} /\ Queued' = Queued \ {r} /\ Awake' = Awake \ {r}
    BY <1>0, <1>4 DEF TakeSlot, TypeOK, Calling, Queued, Awake
  <2>2. /\ Cardinality(Calling') = Cardinality(Calling) + 1
        /\ Cardinality(Queued') = Cardinality(Queued) - 1
        /\ Cardinality(Awake') = Cardinality(Awake) - 1
    <3>1. Calling \in SUBSET Requests /\ Queued \in SUBSET Requests /\ Awake \in SUBSET Requests
      BY DEF Calling, Queued, Awake
    <3> QED
      BY <2>1, <3>1, Joins, Leaves
  <2> QED
    BY <1>0, <1>4, <2>1, <2>2 DEF TakeSlot, TypeOK
<1>5. ASSUME NEW r \in Requests, WaitAgain(r)
      PROVE  Goal
  <2>1. Calling' = Calling /\ Queued' = Queued
    BY <1>0, <1>5 DEF WaitAgain, TypeOK, Calling, Queued
  <2>2. Cardinality(Awake') \in Nat
    BY AtFinite DEF Awake
  <2> QED
    BY <1>0, <1>5, <2>1, <2>2 DEF WaitAgain, TypeOK
<1>6. ASSUME NEW r \in Requests, Leave(r) \/ Release(r)
      PROVE  line # <<>> => Cardinality(Awake') = Cardinality(Awake \ {r}) + 1
  <2>1. pc[r] # "pending" /\ MoveAndNotify(r, "idle")
    BY <1>6 DEF Leave, Release
  <2> SUFFICES ASSUME line # <<>>
               PROVE  Cardinality(Awake') = Cardinality(Awake \ {r}) + 1
    OBVIOUS
  <2>2. PICK h \in Requests \ Awake : h # r /\ Awake' = (Awake \ {r}) \cup {h}
    BY <1>0, <2>1, Notified
  <2>3. Awake \ {r} \in SUBSET Requests /\ h \notin Awake \ {r}
    BY DEF Awake
  <2> QED
    BY <2>2, <2>3, Joins
<1>7. ASSUME NEW r \in Requests, Leave(r)
      PROVE  Goal
  <2>1. pc[r] = "interrupted" /\ MoveAndNotify(r, "idle")
    BY <1>7 DEF Leave
  <2>2. /\ Calling' = Calling \ {r} /\ Queued' = Queued \ {r}
        /\ line' # <<>> => line # <<>>
    BY <1>0, <2>1, Notified
  <2>3. r \in Queued /\ r \in Awake /\ r \notin Calling
    BY <2>1 DEF Queued, Awake, Calling
  <2>4. /\ Calling' = Calling
        /\ Cardinality(Queued') = Cardinality(Queued) - 1
        /\ Cardinality(Awake \ {r}) = Cardinality(Awake) - 1
    <3>1. Queued \in SUBSET Requests /\ Awake \in SUBSET Requests
      BY DEF Queued, Awake
    <3> QED
      BY <2>2, <2>3, <3>1, Leaves
  <2>5. active' = active /\ waiting' = waiting - 1
    BY <1>7 DEF Leave
  <2>6. CountersExact' /\ WithinLimits'
    BY <1>0, <2>4, <2>5
  <2>7. line # <<>> => Cardinality(Awake') = Cardinality(Awake)
    BY <1>6, <1>7, <2>4
  <2> QED
    BY <1>0, <2>2, <2>5, <2>6, <2>7
<1>8. ASSUME NEW r \in Requests, Release(r)
      PROVE  Goal
  <2>1. pc[r] = "calling" /\ MoveAndNotify(r, "idle")
    BY <1>8 DEF Release
  <2>2. /\ Calling' = Calling \ {r} /\ Queued' = Queued \ {r}
        /\ line' # <<>> => line # <<>>
    BY <1>0, <2>1, Notified
  <2>3. r \notin Queued /\ r \notin Awake /\ r \in Calling
    BY <2>1 DEF Queued, Awake, Calling
  <2>4. /\ Cardinality(Calling') = Cardinality(Calling) - 1
        /\ Queued' = Queued /\ Awake \ {r} = Awake
    <3>1. Calling \in SUBSET Requests
      BY DEF Calling
    <3> QED
      BY <2>2, <2>3, <3>1, Leaves
  <2>5. active' = active - 1 /\ waiting' = waiting
    BY <1>8 DEF Release
  <2>6. CountersExact' /\ WithinLimits'
    BY <1>0, <2>4, <2>5
  <2>7. line # <<>> => Cardinality(Awake') = Cardinality(Awake) + 1
    BY <1>6, <1>8, <2>4
  <2> QED
    BY <1>0, <2>2, <2>5, <2>6, <2>7
<1>9. CASE UNCHANGED vars
  BY <1>0, <1>9 DEF vars, Calling, Queued, Awake
<1> QED
  BY <1>1, <1>2, <1>3, <1>4, <1>5, <1>7, <1>8, <1>9 DEF Next

THEOREM Capacity == Spec => []CapacityInv
<1>1. Init => CapacityInv
  <2> SUFFICES ASSUME Init
               PROVE  CapacityInv
    OBVIOUS
  <2>1. Calling = {} /\ Queued = {} /\ Awake = {}
    BY DEF Init, Calling, Queued, Awake
  <2>2. TypeOK /\ LineExact
    BY DEF Init, TypeOK, Locations, LineExact
  <2>3. CountersExact /\ WithinLimits /\ NoLostWakeup
    BY <2>1, FS_EmptySet, JiraLimiterAssumption
       DEF Init, CountersExact, WithinLimits, NoLostWakeup
  <2> QED
    BY <2>2, <2>3 DEF CapacityInv
<1> QED
  BY <1>1, CapacityStep, PTL DEF Spec

(* slot() restores both counters on every way out of the queue and the call. *)
THEOREM CountersNeverDrift == Spec => []CountersExact
<1>1. CapacityInv => CountersExact
  BY DEF CapacityInv
<1> QED
  BY <1>1, Capacity, PTL

(* Never more Jira calls, nor more waiters, than configured. *)
THEOREM LimitsKept == Spec => []WithinLimits
<1>1. CapacityInv => WithinLimits
  BY DEF CapacityInv
<1> QED
  BY <1>1, Capacity, PTL

(* notify(1) and the passing on of notifications lose no wake-up. *)
THEOREM WakeupsKept == Spec => []NoLostWakeup
<1>1. CapacityInv => NoLostWakeup
  BY DEF CapacityInv
<1> QED
  BY <1>1, Capacity, PTL

-----------------------------------------------------------------------------
(***************************************************************************)
(* The refinement: interrupts and second waits are invisible, the other    *)
(* actions are those of the pool.                                          *)
(***************************************************************************)
(* The pool's module counts with its own copy of FiniteSets. *)
LEMMA SameCardinality ==
    ASSUME NEW S
    PROVE  Pool!Cardinality(S) = Cardinality(S)
  BY DEF Pool!Cardinality, Cardinality

LEMMA PoolStep == CapacityInv /\ [Next]_vars => [Pool!PoolNext]_(Pool!poolVars)
<1> SUFFICES ASSUME CapacityInv, [Next]_vars
             PROVE  Pool!PoolNext \/ UNCHANGED <<Calling, Queued>>
  BY DEF Pool!poolVars
<1>0. TypeOK /\ LineExact /\ CountersExact /\ WithinLimits
  BY DEF CapacityInv
<1>1. ASSUME NEW r \in Requests, EnterFree(r) \/ TakeSlot(r)
      PROVE  Pool!Acquire(r)
  <2>1. /\ r \notin Calling
        /\ Calling' = Calling \cup {r} /\ Queued' = Queued \ {r}
    BY <1>0, <1>1 DEF EnterFree, TakeSlot, TypeOK, Calling, Queued
  <2>2. active < MaxConcurrent
    BY <1>1 DEF EnterFree, TakeSlot
  <2> QED
    BY <1>0, <2>1, <2>2, SameCardinality DEF Pool!Acquire, CountersExact
<1>2. ASSUME NEW r \in Requests, EnterLine(r)
      PROVE  Pool!Wait(r)
  <2>1. /\ r \notin Calling \cup Queued
        /\ Calling' = Calling /\ Queued' = Queued \cup {r}
    BY <1>0, <1>2 DEF EnterLine, TypeOK, Calling, Queued
  <2>2. active >= MaxConcurrent /\ waiting < MaxQueue
    BY <1>2 DEF EnterLine
  <2>3. Cardinality(Calling) = MaxConcurrent
    BY <1>0, <2>2, Sizes, JiraLimiterAssumption DEF CountersExact, WithinLimits
  <2> QED
    BY <1>0, <2>1, <2>2, <2>3, SameCardinality DEF Pool!Wait, CountersExact
<1>3. ASSUME NEW r \in Requests, Interrupt(r) \/ WaitAgain(r)
      PROVE  UNCHANGED <<Calling, Queued>>
  BY <1>0, <1>3 DEF Interrupt, WaitAgain, TypeOK, Calling, Queued
<1>4. ASSUME NEW r \in Requests, Leave(r)
      PROVE  Pool!GiveUp(r)
  <2>1. pc[r] = "interrupted" /\ MoveAndNotify(r, "idle")
    BY <1>4 DEF Leave
  <2>2. Calling' = Calling \ {r} /\ Queued' = Queued \ {r}
    BY <1>0, <2>1, Notified
  <2>3. r \in Queued /\ r \notin Calling
    BY <2>1 DEF Queued, Calling
  <2> QED
    BY <2>2, <2>3 DEF Pool!GiveUp
<1>5. ASSUME NEW r \in Requests, Release(r)
      PROVE  Pool!Return(r)
  <2>1. pc[r] = "calling" /\ MoveAndNotify(r, "idle")
    BY <1>5 DEF Release
  <2>2. Calling' = Calling \ {r} /\ Queued' = Queued \ {r}
    BY <1>0, <2>1, Notified
  <2>3. r \notin Queued /\ r \in Calling
    BY <2>1 DEF Queued, Calling
  <2> QED
    BY <2>2, <2>3 DEF Pool!Return
<1>6. CASE UNCHANGED vars
  BY <1>6 DEF vars, Calling, Queued
<1> QED
  BY <1>1, <1>2, <1>3, <1>4, <1>5, <1>6 DEF Next, Pool!PoolNext

(* slot() implements the pool of slots it is meant to provide. *)
THEOREM Refinement == Spec => ImplementsPool
<1>1. Init => Pool!PoolInit
  BY DEF Init, Pool!PoolInit, Calling, Queued
<1> QED
  BY <1>1, PoolStep, Capacity, PTL DEF Spec, ImplementsPool, Pool!PoolSpec
=============================================================================
