---------------------------- MODULE SSEProxyProofs ----------------------------
(***************************************************************************)
(* Proofs about SSEProxy, for every finite set of requests and every      *)
(* limit: the type invariant, the slot limit, the exactness of the        *)
(* limiter's counter, of the gauge and of the error counters, the         *)
(* delivery of a stream's bytes, and the refinement of SlotPool.          *)
(* The first inductive invariant is a conjunction: the limit follows from *)
(* the counter's exactness, and so does that the counter stays in Nat.    *)
(* The second, Progress, is about one request's bytes and its answer.     *)
(***************************************************************************)
EXTENDS SSEProxy, FiniteSetTheorems, TLAPS

\* The requests of the class C that p puts at a control point in P.
Members(C, p, P) == {r \in C : p[r] \in P}

\* Only q has moved from p to np, to the control point to.
Moved(p, np, q, to) == \A r \in Request : np[r] = IF r = q THEN to ELSE p[r]

LEMMA MembersCount ==
    ASSUME NEW p, NEW P, NEW C \in SUBSET Request
    PROVE  /\ IsFiniteSet(Members(C, p, P))
           /\ Cardinality(Members(C, p, P)) \in Nat
<1>1. Members(C, p, P) \in SUBSET Request
  BY DEF Members
<1>2. IsFiniteSet(Members(C, p, P))
  BY <1>1, RequestAssumption, FS_Subset
<1> QED
  BY <1>2, FS_CardinalityType

\* What a move does to their number: one more, one less, or as before.
LEMMA MoveCardinality ==
    ASSUME NEW p, NEW np, NEW q \in Request, NEW to,
           NEW P, NEW C \in SUBSET Request, Moved(p, np, q, to)
    PROVE  /\ q \in C /\ to \in P /\ p[q] \notin P =>
                Cardinality(Members(C, np, P)) = Cardinality(Members(C, p, P)) + 1
           /\ q \in C /\ to \notin P /\ p[q] \in P =>
                Cardinality(Members(C, p, P)) = Cardinality(Members(C, np, P)) + 1
           /\ q \notin C \/ (to \in P <=> p[q] \in P) =>
                Cardinality(Members(C, np, P)) = Cardinality(Members(C, p, P))
<1> DEFINE S == Members(C, p, P)
           T == Members(C, np, P)
<1>1. IsFiniteSet(S) /\ IsFiniteSet(T)
  BY MembersCount
<1>2. ASSUME q \in C, to \in P, p[q] \notin P
      PROVE  Cardinality(T) = Cardinality(S) + 1
  <2>1. T = S \cup {q} /\ q \notin S
    BY <1>2 DEF Members, Moved
  <2> HIDE DEF S, T
  <2> QED
    BY <1>1, <2>1, FS_AddElement
<1>3. ASSUME q \in C, to \notin P, p[q] \in P
      PROVE  Cardinality(S) = Cardinality(T) + 1
  <2>1. S = T \cup {q} /\ q \notin T
    BY <1>3 DEF Members, Moved
  <2> HIDE DEF S, T
  <2> QED
    BY <1>1, <2>1, FS_AddElement
<1>4. ASSUME q \notin C \/ (to \in P <=> p[q] \in P)
      PROVE  Cardinality(T) = Cardinality(S)
  <2>1. T = S
    BY <1>4 DEF Members, Moved
  <2> QED
    BY <2>1
<1> QED
  BY <1>2, <1>3, <1>4

\* The three classes the invariants count, as members of a class.
LEMMA ClassesAreMembers ==
    /\ \A t \in Tenant :
          /\ OfTenant(t) \in SUBSET Request
          /\ \A q \in Request : q \in OfTenant(t) <=> TenantOf[q] = t
          /\ Holding(t) = Members(OfTenant(t), pc, HoldingPc)
          /\ Holding(t)' = Members(OfTenant(t), pc', HoldingPc)
          /\ Undoing(t) = Members(OfTenant(t), pc, {"over"})
          /\ Undoing(t)' = Members(OfTenant(t), pc', {"over"})
    /\ \A k \in Key :
          /\ OnKey(k) \in SUBSET Request
          /\ \A q \in Request : q \in OnKey(k) <=> KeyOf(q) = k
          /\ Metered(k) = Members(OnKey(k), pc, MeteredPc)
          /\ Metered(k)' = Members(OnKey(k), pc', MeteredPc)
BY DEF OfTenant, OnKey, KeyOf, Holding, Undoing, Metered, Members

LEMMA CountsAreNaturals ==
    /\ \A t \in Tenant : /\ Cardinality(Holding(t)) \in Nat
                         /\ Cardinality(Holding(t)') \in Nat
                         /\ Cardinality(Undoing(t)) \in Nat
                         /\ Cardinality(Undoing(t)') \in Nat
    /\ \A k \in Key : /\ Cardinality(Metered(k)) \in Nat
                      /\ Cardinality(Metered(k)') \in Nat
BY ClassesAreMembers, MembersCount

\* The effect of one goroutine's step on what the invariants count.
LEMMA StepCardinalities ==
    ASSUME NEW q \in Request, NEW to, Moved(pc, pc', q, to)
    PROVE  /\ \A t \in Tenant :
                /\ TenantOf[q] = t /\ to \in HoldingPc /\ pc[q] \notin HoldingPc =>
                     Cardinality(Holding(t)') = Cardinality(Holding(t)) + 1
                /\ TenantOf[q] = t /\ to \notin HoldingPc /\ pc[q] \in HoldingPc =>
                     Cardinality(Holding(t)) = Cardinality(Holding(t)') + 1
                /\ TenantOf[q] # t \/ (to \in HoldingPc <=> pc[q] \in HoldingPc) =>
                     Cardinality(Holding(t)') = Cardinality(Holding(t))
           /\ \A t \in Tenant :
                /\ TenantOf[q] = t /\ to = "over" /\ pc[q] # "over" =>
                     Cardinality(Undoing(t)') = Cardinality(Undoing(t)) + 1
                /\ TenantOf[q] = t /\ to # "over" /\ pc[q] = "over" =>
                     Cardinality(Undoing(t)) = Cardinality(Undoing(t)') + 1
                /\ TenantOf[q] # t \/ (to = "over" <=> pc[q] = "over") =>
                     Cardinality(Undoing(t)') = Cardinality(Undoing(t))
           /\ \A k \in Key :
                /\ KeyOf(q) = k /\ to \in MeteredPc /\ pc[q] \notin MeteredPc =>
                     Cardinality(Metered(k)') = Cardinality(Metered(k)) + 1
                /\ KeyOf(q) = k /\ to \notin MeteredPc /\ pc[q] \in MeteredPc =>
                     Cardinality(Metered(k)) = Cardinality(Metered(k)') + 1
                /\ KeyOf(q) # k \/ (to \in MeteredPc <=> pc[q] \in MeteredPc) =>
                     Cardinality(Metered(k)') = Cardinality(Metered(k))
<1>1. Moved(pc, pc', q, to)
  OBVIOUS
<1>2. \A x : x \in {"over"} <=> x = "over"
  OBVIOUS
<1>3. ASSUME NEW t \in Tenant
      PROVE  /\ TenantOf[q] = t /\ to \in HoldingPc /\ pc[q] \notin HoldingPc =>
                  Cardinality(Holding(t)') = Cardinality(Holding(t)) + 1
             /\ TenantOf[q] = t /\ to \notin HoldingPc /\ pc[q] \in HoldingPc =>
                  Cardinality(Holding(t)) = Cardinality(Holding(t)') + 1
             /\ TenantOf[q] # t \/ (to \in HoldingPc <=> pc[q] \in HoldingPc) =>
                  Cardinality(Holding(t)') = Cardinality(Holding(t))
  <2>1. /\ OfTenant(t) \in SUBSET Request
        /\ q \in OfTenant(t) <=> TenantOf[q] = t
        /\ Holding(t) = Members(OfTenant(t), pc, HoldingPc)
        /\ Holding(t)' = Members(OfTenant(t), pc', HoldingPc)
    BY ClassesAreMembers
  <2>2. /\ Cardinality(Members(OfTenant(t), pc, HoldingPc)) \in Nat
        /\ Cardinality(Members(OfTenant(t), pc', HoldingPc)) \in Nat
    BY <2>1, MembersCount
  <2> QED
    BY <1>1, <2>1, <2>2, MoveCardinality
<1>4. ASSUME NEW t \in Tenant
      PROVE  /\ TenantOf[q] = t /\ to = "over" /\ pc[q] # "over" =>
                  Cardinality(Undoing(t)') = Cardinality(Undoing(t)) + 1
             /\ TenantOf[q] = t /\ to # "over" /\ pc[q] = "over" =>
                  Cardinality(Undoing(t)) = Cardinality(Undoing(t)') + 1
             /\ TenantOf[q] # t \/ (to = "over" <=> pc[q] = "over") =>
                  Cardinality(Undoing(t)') = Cardinality(Undoing(t))
  <2>1. /\ OfTenant(t) \in SUBSET Request
        /\ q \in OfTenant(t) <=> TenantOf[q] = t
        /\ Undoing(t) = Members(OfTenant(t), pc, {"over"})
        /\ Undoing(t)' = Members(OfTenant(t), pc', {"over"})
    BY ClassesAreMembers
  <2>2. /\ Cardinality(Members(OfTenant(t), pc, {"over"})) \in Nat
        /\ Cardinality(Members(OfTenant(t), pc', {"over"})) \in Nat
    BY <2>1, MembersCount
  <2> QED
    BY <1>1, <1>2, <2>1, <2>2, MoveCardinality
<1>5. ASSUME NEW k \in Key
      PROVE  /\ KeyOf(q) = k /\ to \in MeteredPc /\ pc[q] \notin MeteredPc =>
                  Cardinality(Metered(k)') = Cardinality(Metered(k)) + 1
             /\ KeyOf(q) = k /\ to \notin MeteredPc /\ pc[q] \in MeteredPc =>
                  Cardinality(Metered(k)) = Cardinality(Metered(k)') + 1
             /\ KeyOf(q) # k \/ (to \in MeteredPc <=> pc[q] \in MeteredPc) =>
                  Cardinality(Metered(k)') = Cardinality(Metered(k))
  <2>1. /\ OnKey(k) \in SUBSET Request
        /\ q \in OnKey(k) <=> KeyOf(q) = k
        /\ Metered(k) = Members(OnKey(k), pc, MeteredPc)
        /\ Metered(k)' = Members(OnKey(k), pc', MeteredPc)
    BY ClassesAreMembers
  <2>2. /\ Cardinality(Members(OnKey(k), pc, MeteredPc)) \in Nat
        /\ Cardinality(Members(OnKey(k), pc', MeteredPc)) \in Nat
    BY <2>1, MembersCount
  <2> QED
    BY <1>1, <2>1, <2>2, MoveCardinality
<1> QED
  BY <1>3, <1>4, <1>5

-----------------------------------------------------------------------------
(* The inductive invariant. *)

IInv == TypeOK /\ SlotLimit /\ CountExact /\ GaugeExact

LEMMA LimitIsNat == Limit \in Nat /\ Limit > 0
BY MaxAssumption DEF Limit

LEMMA KeyIsKey == ASSUME NEW r \in Request PROVE KeyOf(r) \in Key
BY TenantAssumption, RouteAssumption DEF KeyOf, Key

\* Which control points the classes consist of.
LEMMA ClassPoints ==
    ASSUME NEW x
    PROVE  /\ x \in MeteredPc => x \in HoldingPc
           /\ x \in HoldingPc => x # "over"
           /\ x \in HoldingPc /\ x \notin MeteredPc
                <=> x = "acquired" \/ x = "releasing"
           /\ x \in {"new", "over", "refused", "returned", "done"}
                => x \notin HoldingPc
BY DEF HoldingPc, MeteredPc

\* Nobody is anywhere at the start.
LEMMA InitIInv == Init => IInv
<1> SUFFICES ASSUME Init PROVE IInv
  OBVIOUS
<1>1. TypeOK
  BY ChunksAssumption DEF Init, TypeOK, Pc
<1>2. ASSUME NEW t \in Tenant
      PROVE  Cardinality(Holding(t)) = 0 /\ Cardinality(Undoing(t)) = 0
  <2>1. Holding(t) = {} /\ Undoing(t) = {}
    BY DEF Init, Holding, Undoing, OfTenant, HoldingPc
  <2> QED
    BY <2>1, FS_EmptySet
<1>3. ASSUME NEW k \in Key
      PROVE  Cardinality(Metered(k)) = 0
  <2>1. Metered(k) = {}
    BY DEF Init, Metered, OnKey, MeteredPc, HoldingPc
  <2> QED
    BY <2>1, FS_EmptySet
<1> QED
  BY <1>1, <1>2, <1>3, LimitIsNat
  DEF IInv, SlotLimit, CountExact, GaugeExact, Init

\* A step that moves its goroutine within one class touches no count.
LEMMA NeutralMove ==
    ASSUME IInv, NEW q \in Request, NEW to,
           Moved(pc, pc', q, to),
           to \in HoldingPc <=> pc[q] \in HoldingPc,
           to = "over" <=> pc[q] = "over",
           to \in MeteredPc <=> pc[q] \in MeteredPc,
           UNCHANGED <<count, active>>
    PROVE  SlotLimit' /\ CountExact' /\ GaugeExact'
<1>1. \A t \in Tenant : /\ Cardinality(Holding(t)') = Cardinality(Holding(t))
                        /\ Cardinality(Undoing(t)') = Cardinality(Undoing(t))
  BY StepCardinalities
<1>2. \A k \in Key : Cardinality(Metered(k)') = Cardinality(Metered(k))
  BY StepCardinalities
<1> QED
  BY <1>1, <1>2 DEF IInv, SlotLimit, CountExact, GaugeExact

\* A step that moves no goroutine and touches no counter.
LEMMA NoMove ==
    ASSUME IInv, UNCHANGED <<pc, count, active>>
    PROVE  SlotLimit' /\ CountExact' /\ GaugeExact'
BY DEF IInv, SlotLimit, CountExact, GaugeExact, Holding, Undoing, Metered,
       OfTenant, OnKey, KeyOf

LEMMA TryAcquireCounts ==
    ASSUME IInv, NEW r \in Request, TryAcquire(r)
    PROVE  SlotLimit' /\ CountExact' /\ GaugeExact'
<1> DEFINE to == IF count'[TenantOf[r]] > Limit THEN "over" ELSE "acquired"
<1>1. pc[r] = "new" /\ Moved(pc, pc', r, to)
  BY DEF TryAcquire, Goto, Moved, IInv, TypeOK
<1>2. TenantOf[r] \in Tenant
  BY TenantAssumption
<1>3. /\ active' = active
      /\ \A t \in Tenant :
           count'[t] = IF t = TenantOf[r] THEN count[t] + 1 ELSE count[t]
  BY DEF IInv, TypeOK, TryAcquire, meters
<1>4. \A t \in Tenant : /\ Cardinality(Holding(t)) \in Nat
                        /\ Cardinality(Undoing(t)) \in Nat
  BY CountsAreNaturals
<1>5. \A k \in Key : Cardinality(Metered(k)') = Cardinality(Metered(k))
  BY <1>1, ClassPoints, StepCardinalities
<1>6. CASE to = "over"
  <2>1. \A t \in Tenant :
           /\ Cardinality(Holding(t)') = Cardinality(Holding(t))
           /\ Cardinality(Undoing(t)') =
                IF t = TenantOf[r] THEN Cardinality(Undoing(t)) + 1
                                   ELSE Cardinality(Undoing(t))
    <3>1. pc[r] = "new" /\ Moved(pc, pc', r, "over")
      BY <1>1, <1>6
    <3> QED
      BY <1>2, <3>1, ClassPoints, StepCardinalities
  <2> QED
    BY <1>2, <1>3, <1>4, <1>5, <2>1
    DEF IInv, SlotLimit, CountExact, GaugeExact
<1>7. CASE to = "acquired"
  <2>1. count'[TenantOf[r]] <= Limit
    BY <1>2, <1>3, <1>7, LimitIsNat DEF IInv, TypeOK
  <2>2. \A t \in Tenant :
           /\ Cardinality(Undoing(t)') = Cardinality(Undoing(t))
           /\ Cardinality(Holding(t)') =
                IF t = TenantOf[r] THEN Cardinality(Holding(t)) + 1
                                   ELSE Cardinality(Holding(t))
    <3>1. pc[r] = "new" /\ Moved(pc, pc', r, "acquired")
      BY <1>1, <1>7
    <3> QED
      BY <1>2, <3>1, ClassPoints, StepCardinalities
  <2>3. CountExact' /\ GaugeExact'
    BY <1>2, <1>3, <1>4, <1>5, <2>2
    DEF IInv, CountExact, GaugeExact
  <2>4. SlotLimit'
    BY <1>2, <1>3, <1>4, <2>1, <2>2, LimitIsNat
    DEF IInv, SlotLimit, CountExact
  <2> QED
    BY <2>3, <2>4
<1> QED
  BY <1>6, <1>7

\* Somebody who undoes or holds is counted, so the counter is not zero.
LEMMA CountIsPositive ==
    ASSUME IInv, NEW r \in Request, pc[r] \in HoldingPc \cup {"over"}
    PROVE  count[TenantOf[r]] > 0
<1> DEFINE t == TenantOf[r]
<1>1. t \in Tenant /\ r \in OfTenant(t)
  BY TenantAssumption DEF OfTenant
<1>2. /\ IsFiniteSet(Holding(t)) /\ IsFiniteSet(Undoing(t))
      /\ Cardinality(Holding(t)) \in Nat /\ Cardinality(Undoing(t)) \in Nat
  BY <1>1, ClassesAreMembers, MembersCount
<1>3. r \in Holding(t) \/ r \in Undoing(t)
  BY <1>1 DEF Holding, Undoing
<1>4. Cardinality(Holding(t)) # 0 \/ Cardinality(Undoing(t)) # 0
  BY <1>2, <1>3, FS_EmptySet
<1> QED
  BY <1>1, <1>2, <1>4 DEF IInv, CountExact

LEMMA GiveBackCounts ==
    ASSUME IInv, NEW r \in Request, Undo(r) \/ Release(r)
    PROVE  SlotLimit' /\ CountExact' /\ GaugeExact'
<1>1. TenantOf[r] \in Tenant
  BY TenantAssumption
<1>2. \A t \in Tenant :
         count'[t] = IF t = TenantOf[r] THEN count[t] - 1 ELSE count[t]
  BY DEF IInv, TypeOK, Undo, Release
<1>3. \A t \in Tenant : /\ Cardinality(Holding(t)) \in Nat
                        /\ Cardinality(Undoing(t)) \in Nat
                        /\ Cardinality(Holding(t)') \in Nat
                        /\ Cardinality(Undoing(t)') \in Nat
  BY CountsAreNaturals
<1>4. CASE Undo(r)
  <2>1. pc[r] = "over" /\ Moved(pc, pc', r, "refused") /\ active' = active
    BY <1>4 DEF Undo, Goto, meters, Moved, IInv, TypeOK
  <2>2. \A t \in Tenant :
           /\ Cardinality(Holding(t)') = Cardinality(Holding(t))
           /\ Cardinality(Undoing(t)) =
                IF t = TenantOf[r] THEN Cardinality(Undoing(t)') + 1
                                   ELSE Cardinality(Undoing(t)')
    BY <1>1, <2>1, ClassPoints, StepCardinalities
  <2>3. \A k \in Key : Cardinality(Metered(k)') = Cardinality(Metered(k))
    BY <2>1, ClassPoints, StepCardinalities
  <2> QED
    BY <1>1, <1>2, <1>3, <2>1, <2>2, <2>3
    DEF IInv, SlotLimit, CountExact, GaugeExact
<1>5. CASE Release(r)
  <2>1. pc[r] = "releasing" /\ Moved(pc, pc', r, "returned") /\ active' = active
    BY <1>5 DEF Release, Goto, meters, Moved, IInv, TypeOK
  <2>2. \A t \in Tenant :
           /\ Cardinality(Undoing(t)') = Cardinality(Undoing(t))
           /\ Cardinality(Holding(t)) =
                IF t = TenantOf[r] THEN Cardinality(Holding(t)') + 1
                                   ELSE Cardinality(Holding(t)')
    BY <1>1, <2>1, ClassPoints, StepCardinalities
  <2>3. \A k \in Key : Cardinality(Metered(k)') = Cardinality(Metered(k))
    BY <2>1, ClassPoints, StepCardinalities
  <2>4. CountExact' /\ GaugeExact'
    BY <1>1, <1>2, <1>3, <2>1, <2>2, <2>3
    DEF IInv, CountExact, GaugeExact
  <2>5. SlotLimit'
    BY <1>3, <2>2, LimitIsNat DEF IInv, SlotLimit
  <2> QED
    BY <2>4, <2>5
<1> QED
  BY <1>4, <1>5

LEMMA IncCounts ==
    ASSUME IInv, NEW r \in Request, Inc(r)
    PROVE  SlotLimit' /\ CountExact' /\ GaugeExact'
<1>1. pc[r] = "acquired" /\ Moved(pc, pc', r, "dialing") /\ count' = count
  BY DEF Inc, Goto, Moved, IInv, TypeOK
<1>2. \A t \in Tenant : /\ Cardinality(Holding(t)') = Cardinality(Holding(t))
                        /\ Cardinality(Undoing(t)') = Cardinality(Undoing(t))
  BY <1>1, ClassPoints, StepCardinalities DEF HoldingPc
<1>3. "acquired" \notin MeteredPc /\ "dialing" \in MeteredPc
  BY DEF MeteredPc, HoldingPc
<1>4. \A k \in Key : Cardinality(Metered(k)') =
         IF k = KeyOf(r) THEN Cardinality(Metered(k)) + 1
                         ELSE Cardinality(Metered(k))
  BY <1>1, <1>3, StepCardinalities
<1>5. \A k \in Key :
         active'[k] = IF k = KeyOf(r) THEN active[k] + 1 ELSE active[k]
  BY DEF Inc, IInv, TypeOK
<1> QED
  BY <1>1, <1>2, <1>4, <1>5 DEF IInv, SlotLimit, CountExact, GaugeExact

\* The goroutine that decrements is still counted, so nothing is pruned that
\* belongs to another stream.
LEMMA DecCounts ==
    ASSUME IInv, NEW r \in Request, Dec(r)
    PROVE  SlotLimit' /\ CountExact' /\ GaugeExact'
<1>1. pc[r] = "closing" /\ Moved(pc, pc', r, "releasing") /\ count' = count
  BY DEF Dec, Goto, Moved, IInv, TypeOK
<1>2. \A t \in Tenant : /\ Cardinality(Holding(t)') = Cardinality(Holding(t))
                        /\ Cardinality(Undoing(t)') = Cardinality(Undoing(t))
  BY <1>1, ClassPoints, StepCardinalities DEF HoldingPc
<1>3. "closing" \in MeteredPc /\ "releasing" \notin MeteredPc
  BY DEF MeteredPc, HoldingPc
<1>4. \A k \in Key : Cardinality(Metered(k)) =
         IF k = KeyOf(r) THEN Cardinality(Metered(k)') + 1
                         ELSE Cardinality(Metered(k)')
  BY <1>1, <1>3, StepCardinalities
<1>5. \A k \in Key : active'[k] =
         IF k = KeyOf(r) THEN IF active[k] - 1 <= 0 THEN 0 ELSE active[k] - 1
                         ELSE active[k]
  BY DEF Dec, IInv, TypeOK
<1>6. \A k \in Key : /\ Cardinality(Metered(k)) \in Nat
                     /\ Cardinality(Metered(k)') \in Nat
                     /\ active[k] = Cardinality(Metered(k))
  BY CountsAreNaturals DEF IInv, GaugeExact
<1>7. GaugeExact'
  BY <1>4, <1>5, <1>6 DEF GaugeExact
<1> QED
  BY <1>1, <1>2, <1>7 DEF IInv, SlotLimit, CountExact

\* The remaining steps of the handler stay within their class.
NeutralStep(r) ==
    \/ Refuse(r) \/ RoundTripAnswers(r) \/ RoundTripFails(r)
    \/ ClassifyFailure(r) \/ ReadChunk(r) \/ ReadEnds(r)
    \/ WriteFlush(r) \/ WriteBuffered(r) \/ WriteFails(r) \/ Finish(r)

LEMMA NeutralStepCounts ==
    ASSUME IInv, NEW r \in Request, NeutralStep(r)
    PROVE  SlotLimit' /\ CountExact' /\ GaugeExact'
<1>1. /\ Moved(pc, pc', r, pc'[r])
      /\ pc'[r] \in HoldingPc <=> pc[r] \in HoldingPc
      /\ pc'[r] = "over" <=> pc[r] = "over"
      /\ pc'[r] \in MeteredPc <=> pc[r] \in MeteredPc
  <2> USE DEF IInv, TypeOK, Moved, Goto, HoldingPc, MeteredPc
  <2>1. CASE Refuse(r) \/ Finish(r)
    BY <2>1 DEF Refuse, Finish
  <2>2. CASE RoundTripAnswers(r) \/ RoundTripFails(r) \/ ClassifyFailure(r)
    BY <2>2 DEF RoundTripAnswers, RoundTripFails, ClassifyFailure
  <2>3. CASE ReadChunk(r) \/ ReadEnds(r)
    BY <2>3 DEF ReadChunk, ReadEnds
  <2>4. CASE WriteFlush(r) \/ WriteBuffered(r) \/ WriteFails(r)
    BY <2>4 DEF WriteFlush, WriteBuffered, WriteFails, Writing, AfterWrite
  <2> QED
    BY <2>1, <2>2, <2>3, <2>4 DEF NeutralStep
<1>2. UNCHANGED <<count, active>>
  BY DEF NeutralStep, Refuse, RoundTripAnswers, RoundTripFails, ClassifyFailure,
         ReadChunk, ReadEnds, WriteFlush, WriteBuffered, WriteFails, Finish,
         limits, meters
<1> QED
  BY <1>1, <1>2, NeutralMove

-----------------------------------------------------------------------------
(* Every step preserves the types. *)

LEMMA TypeStep ==
    ASSUME IInv, NEW r \in Request,
           TryAcquire(r) \/ Undo(r) \/ Release(r) \/ Inc(r) \/ Dec(r)
             \/ NeutralStep(r)
             \/ Disconnect(r) \/ WriteTimeout(r) \/ Deadline(r)
    PROVE  TypeOK'
<1> USE DEF TypeOK, Goto, Pc, HoldingPc, limits, meters, stream
<1>1. TypeOK /\ TenantOf[r] \in Tenant /\ KeyOf(r) \in Key
  BY TenantAssumption, KeyIsKey DEF IInv
<1>2. CASE TryAcquire(r)
  BY <1>1, <1>2 DEF TryAcquire
<1>3. CASE Undo(r) \/ Release(r)
  <2>1. count[TenantOf[r]] > 0
    BY <1>3, CountIsPositive DEF Undo, Release
  <2>2. count[TenantOf[r]] - 1 \in Nat
    BY <1>1, <2>1
  <2> QED
    BY <1>1, <1>3, <2>2 DEF Undo, Release
<1>4. CASE Inc(r)
  BY <1>1, <1>4 DEF Inc
<1>5. CASE Dec(r)
  <2>1. (IF active[KeyOf(r)] - 1 <= 0 THEN 0 ELSE active[KeyOf(r)] - 1) \in Nat
    BY <1>1
  <2> QED
    BY <1>1, <1>5, <2>1 DEF Dec
<1>6. CASE Refuse(r)
  BY <1>1, <1>6 DEF Refuse, Count, Kind
<1>7. CASE RoundTripAnswers(r) \/ RoundTripFails(r)
  <2>1. CASE RoundTripAnswers(r)
    BY <1>1, <2>1 DEF RoundTripAnswers
  <2>2. CASE RoundTripFails(r)
    BY <1>1, <2>2 DEF RoundTripFails
  <2> QED
    BY <1>7, <2>1, <2>2
<1>8. CASE ClassifyFailure(r)
  <2>1. FailureKind(ctx[r]) \in Kind
        /\ FailureReply(ctx[r]) \in {"none", "500", "502"}
    BY <1>1 DEF FailureKind, FailureReply, Kind
  <2> QED
    BY <1>1, <1>8, <2>1 DEF ClassifyFailure, Count
<1>9. CASE ReadChunk(r) \/ ReadEnds(r)
  BY <1>1, <1>9, ChunksAssumption DEF ReadChunk, ReadEnds
<1>10. CASE WriteFlush(r)
  <2>1. AfterWrite(r) \in Pc /\ got[r] \in 0 .. Chunks
    BY <1>1 DEF AfterWrite
  <2>2. pc' \in [Request -> Pc]
    BY <1>1, <1>10, <2>1 DEF WriteFlush
  <2>3. /\ wrote' \in [Request -> 0 .. Chunks]
        /\ sent' \in [Request -> 0 .. Chunks]
    BY <1>1, <1>10, <2>1 DEF WriteFlush
  <2>4. ctx' \in [Request -> {"live", "canceled", "deadline"}]
    BY <1>1, <1>10 DEF WriteFlush, CancelOnWriteError
  <2>5. UNCHANGED <<cut, count, active, errors, reply, sse, got>>
    BY <1>10 DEF WriteFlush
  <2> QED
    BY <1>1, <2>2, <2>3, <2>4, <2>5
<1>11. CASE WriteBuffered(r)
  BY <1>1, <1>11, ChunksAssumption DEF WriteBuffered, AfterWrite
<1>12. CASE WriteFails(r)
  BY <1>1, <1>12 DEF WriteFails, CancelOnWriteError
<1>13. CASE Finish(r)
  BY <1>1, <1>13 DEF Finish
<1>14. CASE Disconnect(r) \/ WriteTimeout(r) \/ Deadline(r)
  BY <1>1, <1>14 DEF Disconnect, WriteTimeout, Deadline
<1> QED
  BY <1>2, <1>3, <1>4, <1>5, <1>6, <1>7, <1>8, <1>9, <1>10, <1>11, <1>12, <1>13,
     <1>14 DEF NeutralStep

LEMMA NextIInv == IInv /\ [Next]_vars => IInv'
<1> SUFFICES ASSUME IInv, [Next]_vars PROVE IInv'
  OBVIOUS
<1>1. CASE UNCHANGED vars
  <2>1. TypeOK'
    BY <1>1 DEF IInv, TypeOK, vars
  <2> QED
    BY <1>1, <2>1, NoMove DEF IInv, vars
<1>2. ASSUME NEW r \in Request, TryAcquire(r) PROVE IInv'
  BY <1>2, TypeStep, TryAcquireCounts DEF IInv
<1>3. ASSUME NEW r \in Request, Undo(r) \/ Release(r) PROVE IInv'
  BY <1>3, TypeStep, GiveBackCounts DEF IInv
<1>4. ASSUME NEW r \in Request, Inc(r) PROVE IInv'
  BY <1>4, TypeStep, IncCounts DEF IInv
<1>5. ASSUME NEW r \in Request, Dec(r) PROVE IInv'
  BY <1>5, TypeStep, DecCounts DEF IInv
<1>6. ASSUME NEW r \in Request, NeutralStep(r) PROVE IInv'
  BY <1>6, TypeStep, NeutralStepCounts DEF IInv
<1>7. ASSUME NEW r \in Request,
             Disconnect(r) \/ WriteTimeout(r) \/ Deadline(r)
      PROVE  IInv'
  <2>1. UNCHANGED <<pc, count, active>>
    BY <1>7 DEF Disconnect, WriteTimeout, Deadline, limits, meters
  <2> QED
    BY <1>7, <2>1, TypeStep, NoMove DEF IInv
<1> QED
  BY <1>1, <1>2, <1>3, <1>4, <1>5, <1>6, <1>7 DEF Next, Proceed, NeutralStep

LEMMA Invariance == Spec => []IInv
<1> QED
  BY InitIInv, NextIInv, PTL DEF Spec

-----------------------------------------------------------------------------
(* The results. *)

\* Types, and with them: no counter of the limiter or the metrics is ever
\* negative, whatever the limit and however many requests there are.
THEOREM TypeCorrect == Spec => []TypeOK
<1>1. IInv => TypeOK
  BY DEF IInv
<1> QED
  BY <1>1, Invariance, PTL

\* No interleaving of the two atomic steps of TryAcquire lets a tenant hold
\* more slots than its limit.
THEOREM SlotLimitHolds == Spec => []SlotLimit
<1>1. IInv => SlotLimit
  BY DEF IInv
<1> QED
  BY <1>1, Invariance, PTL

\* No path through the handler leaks a slot or gives one back twice.
THEOREM CountExactHolds == Spec => []CountExact
<1>1. IInv => CountExact
  BY DEF IInv
<1> QED
  BY <1>1, Invariance, PTL

\* The gauge is exact for every tenant and route, pruning included.
THEOREM GaugeExactHolds == Spec => []GaugeExact
<1>1. IInv => GaugeExact
  BY DEF IInv
<1> QED
  BY <1>1, Invariance, PTL

-----------------------------------------------------------------------------
(* The bytes of a stream: a second invariant, of each request by itself. *)

\* What has been read, written, sent and answered at a control point.  Where
\* the handler is about to write, nothing is claimed of the bytes.
Progress(r) ==
    /\ pc[r] \in {"new", "acquired", "dialing"} =>
         got[r] = 0 /\ wrote[r] = 0 /\ sent[r] = 0
    /\ pc[r] \in {"reading", "writing", "lastwrite"} => reply[r] = "stream"
    /\ pc[r] = "reading" /\ Reachable(r) =>
         wrote[r] = got[r] /\ (Piped(r) => sent[r] = got[r])
    /\ pc[r] \in {"closing", "releasing", "returned"}
         /\ reply[r] = "stream" /\ Reachable(r) => wrote[r] = got[r]
    /\ pc[r] = "done" /\ reply[r] = "stream" /\ Reachable(r) => sent[r] = got[r]

SInv == \A r \in Request : Progress(r)

LEMMA InitSInv == Init => SInv
BY DEF Init, SInv, Progress

\* A step leaves the other requests alone.
LEMMA OthersProgress ==
    ASSUME TypeOK, SInv, NEW r \in Request, NEW q \in Request, q # r,
           TryAcquire(r) \/ Undo(r) \/ Release(r) \/ Inc(r) \/ Dec(r)
             \/ NeutralStep(r)
             \/ Disconnect(r) \/ WriteTimeout(r) \/ Deadline(r)
    PROVE  Progress(q)'
<1>1. UNCHANGED <<pc[q], ctx[q], cut[q], reply[q], sse[q], got[q], wrote[q],
                  sent[q]>>
  <2> USE DEF TypeOK, Goto, limits, meters, stream
  <2>1. CASE TryAcquire(r) \/ Undo(r) \/ Release(r) \/ Inc(r) \/ Dec(r)
    BY <2>1 DEF TryAcquire, Undo, Release, Inc, Dec
  <2>2. CASE Refuse(r) \/ RoundTripAnswers(r) \/ RoundTripFails(r)
               \/ ClassifyFailure(r)
    BY <2>2 DEF Refuse, RoundTripAnswers, RoundTripFails, ClassifyFailure
  <2>3. CASE ReadChunk(r) \/ ReadEnds(r)
    BY <2>3 DEF ReadChunk, ReadEnds
  <2>4. CASE WriteFlush(r) \/ WriteBuffered(r) \/ WriteFails(r)
    BY <2>4 DEF WriteFlush, WriteBuffered, WriteFails, CancelOnWriteError
  <2>5. CASE Finish(r)
    BY <2>5 DEF Finish
  <2>6. CASE Disconnect(r) \/ WriteTimeout(r) \/ Deadline(r)
    BY <2>6 DEF Disconnect, WriteTimeout, Deadline
  <2> QED
    BY <2>1, <2>2, <2>3, <2>4, <2>5, <2>6 DEF NeutralStep
<1> QED
  BY <1>1 DEF SInv, Progress, Reachable, Piped

\* The request that takes the step: what the write loops must leave behind
\* them is what the next wait and the end rely on.
LEMMA OwnProgress ==
    ASSUME TypeOK, SInv, NEW r \in Request,
           TryAcquire(r) \/ Undo(r) \/ Release(r) \/ Inc(r) \/ Dec(r)
             \/ NeutralStep(r)
             \/ Disconnect(r) \/ WriteTimeout(r) \/ Deadline(r)
    PROVE  Progress(r)'
<1> USE DEF TypeOK, Goto, limits, meters, stream, Progress, Reachable, Piped
<1>1. Progress(r)
  BY DEF SInv
<1>2. CASE TryAcquire(r)
  BY <1>1, <1>2 DEF TryAcquire
<1>3. CASE Undo(r) \/ Release(r) \/ Inc(r) \/ Dec(r)
  BY <1>1, <1>3 DEF Undo, Release, Inc, Dec
<1>4. CASE Refuse(r) \/ RoundTripAnswers(r) \/ RoundTripFails(r)
  BY <1>1, <1>4 DEF Refuse, RoundTripAnswers, RoundTripFails
<1>5. CASE ClassifyFailure(r)
  <2>1. FailureReply(ctx[r]) # "stream"
    BY DEF FailureReply
  <2> QED
    BY <1>1, <1>5, <2>1 DEF ClassifyFailure
<1>6. CASE ReadChunk(r) \/ ReadEnds(r)
  BY <1>1, <1>6 DEF ReadChunk, ReadEnds
<1>7. CASE WriteFlush(r)
  BY <1>1, <1>7 DEF WriteFlush, Writing, AfterWrite, CancelOnWriteError
<1>8. CASE WriteBuffered(r)
  BY <1>1, <1>8 DEF WriteBuffered, Writing, AfterWrite
<1>9. CASE WriteFails(r)
  BY <1>1, <1>9 DEF WriteFails, Writing, CancelOnWriteError
<1>10. CASE Finish(r)
  BY <1>1, <1>10 DEF Finish
<1>11. CASE Disconnect(r) \/ WriteTimeout(r) \/ Deadline(r)
  BY <1>1, <1>11 DEF Disconnect, WriteTimeout, Deadline, Running
<1> QED
  BY <1>2, <1>3, <1>4, <1>5, <1>6, <1>7, <1>8, <1>9, <1>10, <1>11
  DEF NeutralStep

LEMMA NextSInv == TypeOK /\ SInv /\ [Next]_vars => SInv'
<1> SUFFICES ASSUME TypeOK, SInv, [Next]_vars, NEW q \in Request
             PROVE  Progress(q)'
  BY DEF SInv
<1>1. CASE UNCHANGED vars
  BY <1>1 DEF vars, SInv, Progress, Reachable, Piped
<1>2. CASE Next
  <2>1. PICK r \in Request :
           TryAcquire(r) \/ Undo(r) \/ Release(r) \/ Inc(r) \/ Dec(r)
             \/ NeutralStep(r)
             \/ Disconnect(r) \/ WriteTimeout(r) \/ Deadline(r)
    BY <1>2 DEF Next, Proceed, NeutralStep
  <2> QED
    BY <2>1, OthersProgress, OwnProgress
<1> QED
  BY <1>1, <1>2

LEMMA StreamInvariance == Spec => []SInv
<1> QED
  BY InitSInv, NextSInv, TypeCorrect, PTL DEF Spec

\* A client that stays is sent every byte that was read, the bytes that came
\* with the read error included, whichever of the two write loops ran and
\* however the requests interleave.
THEOREM DeliveredInFullHolds == Spec => []DeliveredInFull
<1>1. SInv => DeliveredInFull
  BY DEF SInv, Progress, DeliveredInFull
<1> QED
  BY <1>1, StreamInvariance, PTL

\* On a ResponseWriter that can flush, nothing that was read is still held
\* back while the flush loop waits for more.
THEOREM FlushedWhileWaitingHolds ==
    ASSUME Flushable PROVE Spec => []FlushedWhileWaiting
<1>1. SInv => FlushedWhileWaiting
  BY DEF SInv, Progress, FlushedWhileWaiting, Piped
<1> QED
  BY <1>1, StreamInvariance, PTL

-----------------------------------------------------------------------------
(* The error counters. *)

\* How a request counts among the errors of its key.
Outcome == [r \in Request |->
    IF pc[r] \in {"closing", "releasing", "returned", "done"}
         /\ reply[r] # "stream"
    THEN "failed" ELSE "other"]

LEMMA FailedAreMembers ==
    \A k \in Key :
       /\ Failed(k) = Members(OnKey(k), Outcome, {"failed"})
       /\ Failed(k)' = Members(OnKey(k), Outcome', {"failed"})
       /\ Cardinality(Failed(k)) \in Nat
<1>1. \A k \in Key :
         /\ Failed(k) = Members(OnKey(k), Outcome, {"failed"})
         /\ Failed(k)' = Members(OnKey(k), Outcome', {"failed"})
  BY DEF Failed, Members, Outcome, OnKey, KeyOf
<1> QED
  BY <1>1, MembersCount DEF OnKey

LEMMA SetsOfRequests ==
    ASSUME NEW T \in SUBSET Request
    PROVE  /\ Cardinality(T) \in Nat
           /\ \A S \in SUBSET T : Cardinality(S) \in Nat /\ Cardinality(S) <= Cardinality(T)
           /\ \A r \in Request \ T : Cardinality(T \cup {r}) = Cardinality(T) + 1
<1>1. IsFiniteSet(T)
  BY RequestAssumption, FS_Subset
<1>2. \A S \in SUBSET T : IsFiniteSet(S) /\ Cardinality(S) <= Cardinality(T)
  BY <1>1, FS_Subset
<1>3. \A r \in Request \ T : Cardinality(T \cup {r}) = Cardinality(T) + 1
  BY <1>1, FS_AddElement
<1> QED
  BY <1>1, <1>2, <1>3, FS_CardinalityType

LEMMA ToldAndCaused ==
    ASSUME NEW k \in Key
    PROVE  /\ Failed(k) \in SUBSET Request
           /\ \A kind \in Kind : /\ Told(k, kind) \in SUBSET Request
                                 /\ Told(k, kind)' \in SUBSET Request
           /\ \A c : Caused(k, c) \in SUBSET Request /\ Caused(k, c)' \in SUBSET Request
BY DEF Told, Caused, Failed, OnKey

LEMMA Kinds ==
    /\ Kind = {"limit_exceeded", "timeout", "client_disconnect", "upstream_error"}
    /\ \A x, y \in Kind : ReplyTo[x] = ReplyTo[y] => x = y
    /\ \A x \in Kind : ReplyTo[x] \notin {"lost", "stream"}
BY DEF Kind, ReplyTo

\* A step that counts no error and leaves every failed request failed: what its
\* client is told can only get lost, its context only end.
LEMMA QuietStep ==
    ASSUME TypeOK, ErrorsExact, UNCHANGED errors,
           \A q \in Request :
              /\ Outcome'[q] = Outcome[q]
              /\ Outcome[q] = "failed" =>
                   /\ reply'[q] \in {reply[q], "lost"}
                   /\ ctx[q] # "live" => ctx'[q] = ctx[q]
    PROVE  ErrorsExact'
<1> SUFFICES ASSUME NEW k \in Key
             PROVE  /\ Failed(k)' = Failed(k)
                    /\ \A kind \in Kind : Told(k, kind)' \in SUBSET Told(k, kind)
                    /\ \A c \in {"deadline", "canceled"} :
                          Caused(k, c) \in SUBSET Caused(k, c)'
  <2>1. \A k \in Key : \A x \in Kind : errors[k][x] \in Nat
    BY DEF TypeOK
  <2>2. ASSUME NEW k \in Key, NEW kind \in Kind,
               Told(k, kind)' \in SUBSET Told(k, kind)
        PROVE  Cardinality(Told(k, kind)') <= errors[k][kind]
    <3>1. Cardinality(Told(k, kind)) <= errors[k][kind]
      BY DEF ErrorsExact
    <3>2. /\ Cardinality(Told(k, kind)) \in Nat /\ Cardinality(Told(k, kind)') \in Nat
          /\ Cardinality(Told(k, kind)') <= Cardinality(Told(k, kind))
      BY <2>2, ToldAndCaused, SetsOfRequests
    <3> QED
      BY <2>1, <3>1, <3>2
  <2>3. ASSUME NEW k \in Key, NEW c, NEW n \in Nat, n <= Cardinality(Caused(k, c)),
               Caused(k, c) \in SUBSET Caused(k, c)'
        PROVE  n <= Cardinality(Caused(k, c)')
    <3>1. /\ Cardinality(Caused(k, c)) \in Nat /\ Cardinality(Caused(k, c)') \in Nat
          /\ Cardinality(Caused(k, c)) <= Cardinality(Caused(k, c)')
      BY <2>3, ToldAndCaused, SetsOfRequests
    <3> QED
      BY <2>3, <3>1
  <2> QED
    BY <2>1, <2>2, <2>3, Kinds DEF ErrorsExact
<1>1. Failed(k)' = Failed(k)
  BY FailedAreMembers DEF Members, OnKey
<1>2. \A q \in Failed(k) : q \in Request /\ Outcome[q] = "failed"
  BY DEF Failed, OnKey, Outcome
<1>3. \A kind \in Kind : Told(k, kind)' \in SUBSET Told(k, kind)
  BY <1>1, <1>2, Kinds DEF Told
<1>4. \A c \in {"deadline", "canceled"} : Caused(k, c) \in SUBSET Caused(k, c)'
  BY <1>1, <1>2 DEF Caused
<1> QED
  BY <1>1, <1>3, <1>4

\* A step in which one request fails and one error of its key is counted.
LEMMA FailingStep ==
    ASSUME TypeOK, ErrorsExact, NEW r \in Request, NEW kind \in Kind,
           Count(KeyOf(r), kind), Outcome[r] = "other",
           Moved(Outcome, Outcome', r, "failed"),
           reply' = [reply EXCEPT ![r] = ReplyTo[kind]], ctx' = ctx,
           kind = "timeout" => ctx[r] = "deadline",
           kind = "client_disconnect" => ctx[r] = "canceled"
    PROVE  ErrorsExact'
<1> DEFINE Own(k) == k = KeyOf(r)
<1>1. ASSUME NEW k \in Key
      PROVE  /\ r \notin Failed(k)
             /\ Failed(k)' = IF Own(k) THEN Failed(k) \cup {r} ELSE Failed(k)
  BY FailedAreMembers DEF Members, Moved, OnKey
<1>2. ASSUME NEW k \in Key, NEW x \in Kind
      PROVE  Told(k, x)' = IF Own(k) /\ x = kind THEN Told(k, x) \cup {r} ELSE Told(k, x)
  <2>1. /\ reply'[r] = ReplyTo[kind]
        /\ \A q \in Failed(k) : reply'[q] = reply[q]
    BY <1>1, ToldAndCaused DEF TypeOK
  <2> HIDE DEF Own
  <2> QED
    BY <1>1, <2>1, Kinds DEF Told
<1>3. ASSUME NEW k \in Key, NEW c
      PROVE  Caused(k, c)' = IF Own(k) /\ c = ctx[r] THEN Caused(k, c) \cup {r} ELSE Caused(k, c)
  <2> HIDE DEF Own
  <2> QED
    BY <1>1 DEF Caused
<1>4. \A k \in Key : \A x \in Kind :
         /\ errors'[k][x] = IF Own(k) /\ x = kind THEN errors[k][x] + 1 ELSE errors[k][x]
         /\ errors[k][x] \in Nat
  BY DEF Count, TypeOK
<1> HIDE DEF Own
<1>5. ASSUME NEW k \in Key
      PROVE  /\ Cardinality(Failed(k)) \in Nat
             /\ Cardinality(Failed(k)') =
                  IF Own(k) THEN Cardinality(Failed(k)) + 1 ELSE Cardinality(Failed(k))
  BY <1>1, ToldAndCaused, SetsOfRequests
<1>6. ASSUME NEW k \in Key, NEW x \in Kind
      PROVE  Cardinality(Told(k, x)') <= errors'[k][x]
  <2>1. /\ Cardinality(Told(k, x)) <= errors[k][x]
        /\ Cardinality(Told(k, x)) \in Nat
        /\ r \notin Told(k, x) /\ Told(k, x) \in SUBSET Request
    BY <1>1, ToldAndCaused, SetsOfRequests DEF ErrorsExact, Told
  <2>2. Cardinality(Told(k, x) \cup {r}) = Cardinality(Told(k, x)) + 1
    BY <2>1, SetsOfRequests
  <2>3. Cardinality(Told(k, x)') =
          IF Own(k) /\ x = kind THEN Cardinality(Told(k, x)) + 1 ELSE Cardinality(Told(k, x))
    BY <1>2, <2>2
  <2> QED
    BY <1>4, <2>1, <2>3
<1>7. ASSUME NEW k \in Key, NEW x \in Kind, NEW c, x = kind => ctx[r] = c,
             errors[k][x] <= Cardinality(Caused(k, c))
      PROVE  errors'[k][x] <= Cardinality(Caused(k, c)')
  <2>1. /\ Cardinality(Caused(k, c)) \in Nat
        /\ r \notin Caused(k, c) /\ Caused(k, c) \in SUBSET Request
    BY <1>1, ToldAndCaused, SetsOfRequests DEF Caused
  <2>2. Cardinality(Caused(k, c) \cup {r}) = Cardinality(Caused(k, c)) + 1
    BY <2>1, SetsOfRequests
  <2>3. Cardinality(Caused(k, c)') =
          IF Own(k) /\ c = ctx[r] THEN Cardinality(Caused(k, c)) + 1
                                  ELSE Cardinality(Caused(k, c))
    BY <1>3, <2>2
  <2> QED
    BY <1>4, <1>7, <2>1, <2>3
<1>8. ASSUME NEW k \in Key
      PROVE  /\ errors'[k]["timeout"] <= Cardinality(Caused(k, "deadline")')
             /\ errors'[k]["client_disconnect"] <= Cardinality(Caused(k, "canceled")')
  BY <1>7, Kinds DEF ErrorsExact
<1>9. ASSUME NEW k \in Key
      PROVE  errors'[k]["limit_exceeded"] + errors'[k]["timeout"]
               + errors'[k]["client_disconnect"] + errors'[k]["upstream_error"]
             = Cardinality(Failed(k)')
  BY <1>4, <1>5, Kinds DEF ErrorsExact
<1> QED
  BY <1>6, <1>8, <1>9 DEF ErrorsExact

LEMMA NextErrors ==
    TypeOK /\ SInv /\ ErrorsExact /\ [Next]_vars => ErrorsExact'
<1> SUFFICES ASSUME TypeOK, SInv, ErrorsExact, [Next]_vars PROVE ErrorsExact'
  OBVIOUS
<1>1. CASE UNCHANGED vars
  BY <1>1, QuietStep DEF vars, Outcome
<1>2. ASSUME NEW r \in Request, Refuse(r) PROVE ErrorsExact'
  <2>1. /\ Count(KeyOf(r), "limit_exceeded") /\ "limit_exceeded" \in Kind
        /\ reply' = [reply EXCEPT ![r] = ReplyTo["limit_exceeded"]] /\ ctx' = ctx
    BY <1>2 DEF Refuse, Kind, ReplyTo
  <2>2. Outcome[r] = "other" /\ Moved(Outcome, Outcome', r, "failed")
    BY <1>2 DEF Refuse, Goto, Outcome, Moved, TypeOK
  <2> QED
    BY <2>1, <2>2, FailingStep
<1>3. ASSUME NEW r \in Request, ClassifyFailure(r) PROVE ErrorsExact'
  <2>1. /\ FailureKind(ctx[r]) \in Kind
        /\ FailureReply(ctx[r]) = ReplyTo[FailureKind(ctx[r])]
        /\ FailureReply(ctx[r]) # "stream"
        /\ FailureKind(ctx[r]) = "timeout" => ctx[r] = "deadline"
        /\ FailureKind(ctx[r]) = "client_disconnect" => ctx[r] = "canceled"
    BY DEF FailureKind, FailureReply, ReplyTo, Kind, TypeOK
  <2>2. /\ Count(KeyOf(r), FailureKind(ctx[r])) /\ ctx' = ctx
        /\ reply' = [reply EXCEPT ![r] = FailureReply(ctx[r])]
    BY <1>3 DEF ClassifyFailure
  <2>3. Outcome[r] = "other" /\ Moved(Outcome, Outcome', r, "failed")
    BY <1>3, <2>1 DEF ClassifyFailure, Goto, Outcome, Moved, TypeOK
  <2> QED
    BY <2>1, <2>2, <2>3, FailingStep
<1>4. ASSUME NEW r \in Request,
             \/ TryAcquire(r) \/ Undo(r) \/ Release(r) \/ Inc(r) \/ Dec(r)
             \/ RoundTripAnswers(r) \/ RoundTripFails(r)
             \/ ReadChunk(r) \/ ReadEnds(r)
             \/ WriteFlush(r) \/ WriteBuffered(r) \/ WriteFails(r) \/ Finish(r)
             \/ Disconnect(r) \/ WriteTimeout(r) \/ Deadline(r)
      PROVE  ErrorsExact'
  <2> USE DEF TypeOK, Goto, Outcome
  <2>1. Progress(r)
    BY DEF SInv
  <2>2. /\ UNCHANGED errors
        /\ \A q \in Request :
              /\ Outcome'[q] = Outcome[q]
              /\ Outcome[q] = "failed" =>
                   reply'[q] \in {reply[q], "lost"} /\ (ctx[q] # "live" => ctx'[q] = ctx[q])
    <3>1. CASE TryAcquire(r) \/ Undo(r) \/ Release(r) \/ Inc(r) \/ Dec(r)
      BY <3>1 DEF TryAcquire, Undo, Release, Inc, Dec, meters
    <3>2. CASE RoundTripAnswers(r) \/ RoundTripFails(r)
      BY <3>2 DEF RoundTripAnswers, RoundTripFails, meters
    <3>3. CASE ReadChunk(r) \/ ReadEnds(r)
      BY <2>1, <3>3 DEF ReadChunk, ReadEnds, meters, Progress
    <3>4. CASE WriteFlush(r) \/ WriteBuffered(r) \/ WriteFails(r)
      BY <2>1, <3>4
      DEF WriteFlush, WriteBuffered, WriteFails, Writing, AfterWrite, meters,
          stream, Progress, CancelOnWriteError
    <3>5. CASE Finish(r)
      BY <3>5 DEF Finish, meters
    <3>6. CASE Disconnect(r) \/ WriteTimeout(r) \/ Deadline(r)
      BY <3>6 DEF Disconnect, WriteTimeout, Deadline, meters
    <3> QED
      BY <1>4, <3>1, <3>2, <3>3, <3>4, <3>5, <3>6
  <2> QED
    BY <2>2, QuietStep
<1> QED
  BY <1>1, <1>2, <1>3, <1>4 DEF Next, Proceed

LEMMA InitErrors == Init => ErrorsExact
<1> SUFFICES ASSUME Init, NEW k \in Key
             PROVE  /\ \A x \in Kind : errors[k][x] = 0
                    /\ \A S \in SUBSET Failed(k) : Cardinality(S) = 0
  <2>1. \A k \in Key : /\ Failed(k) \in SUBSET Failed(k)
                       /\ \A kind \in Kind : Told(k, kind) \in SUBSET Failed(k)
                       /\ \A c : Caused(k, c) \in SUBSET Failed(k)
    BY DEF Told, Caused
  <2> QED
    BY <2>1, Kinds DEF ErrorsExact
<1>1. Failed(k) = {}
  BY DEF Init, Failed, OnKey
<1> QED
  BY <1>1, FS_EmptySet DEF Init

\* Every request that ends without a stream is counted by exactly one error of
\* its tenant and route, under the kind that its client is told and that its
\* context bears out, however late the context is looked at (sse.go:72-100).
THEOREM ErrorsExactHolds == Spec => []ErrorsExact
<1> QED
  BY InitErrors, NextErrors, TypeCorrect, StreamInvariance, PTL DEF Spec

-----------------------------------------------------------------------------
(* The refinement of SlotPool. *)

LEMMA Places ==
    ASSUME NEW x
    PROVE  /\ PlaceOf("new") = "outside" /\ PlaceOf("over") = "refusing"
           /\ x \in HoldingPc => PlaceOf(x) = "inside"
           /\ x \in {"refused", "returned", "done"} => PlaceOf(x) = "gone"
           /\ PlaceOf(x) = "inside" => x \in HoldingPc
           /\ PlaceOf(x) = "refusing" => x = "over"
BY DEF PlaceOf, HoldingPc

\* SlotPool's own instance of Cardinality is the same operator.
LEMMA PoolCardinality == \A S : Pool!Cardinality(S) = Cardinality(S)
BY DEF Pool!Cardinality, Cardinality

LEMMA PoolSets ==
    ASSUME NEW t \in Tenant
    PROVE  /\ Pool!Cardinality(Pool!At(t, "inside")) = Cardinality(Holding(t))
           /\ Pool!Cardinality(Pool!At(t, "refusing")) = Cardinality(Undoing(t))
<1>1. \A r \in Request : /\ PoolPlace[r] = "inside" <=> pc[r] \in HoldingPc
                         /\ PoolPlace[r] = "refusing" <=> pc[r] = "over"
  BY Places DEF PoolPlace
<1>2. /\ Pool!At(t, "inside") = Holding(t)
      /\ Pool!At(t, "refusing") = Undoing(t)
  BY <1>1 DEF Pool!At, Holding, Undoing, OfTenant
<1> QED
  BY <1>2, PoolCardinality

\* A goroutine's step is the move of one request in the pool.
LEMMA PoolMove ==
    ASSUME NEW r \in Request, NEW to, Moved(pc, pc', r, to)
    PROVE  PoolPlace' = [PoolPlace EXCEPT ![r] = PlaceOf(to)]
BY DEF Moved, PoolPlace

LEMMA PoolStep == IInv /\ [Next]_vars => [Pool!Next]_PoolPlace
<1> SUFFICES ASSUME IInv, [Next]_vars
             PROVE  Pool!Next \/ UNCHANGED PoolPlace
  OBVIOUS
<1>1. TypeOK
  BY DEF IInv
<1>2. CASE UNCHANGED vars
  BY <1>2 DEF vars, PoolPlace
<1>3. ASSUME NEW r \in Request, TryAcquire(r) PROVE Pool!Next
  <2>1. TenantOf[r] \in Tenant
    BY TenantAssumption
  <2>2. /\ Cardinality(Holding(TenantOf[r])) \in Nat
        /\ Cardinality(Undoing(TenantOf[r])) \in Nat
    BY <2>1, CountsAreNaturals
  <2>3. /\ pc[r] = "new" /\ PoolPlace[r] = "outside"
        /\ count'[TenantOf[r]] = Cardinality(Holding(TenantOf[r]))
                                  + Cardinality(Undoing(TenantOf[r])) + 1
    BY <1>1, <1>3, <2>1, Places
    DEF TryAcquire, Goto, PoolPlace, IInv, CountExact, TypeOK
  <2>4. CASE count'[TenantOf[r]] > Limit
    <3> Moved(pc, pc', r, "over")
      BY <1>1, <1>3, <2>4 DEF TryAcquire, Goto, TypeOK, Moved
    <3>1. PoolPlace' = [PoolPlace EXCEPT ![r] = "refusing"]
      BY PoolMove, Places
    <3>2. Cardinality(Holding(TenantOf[r]))
            + Cardinality(Undoing(TenantOf[r])) >= Limit
      BY <2>2, <2>3, <2>4, LimitIsNat
    <3>3. Pool!TurnAway(r)
      BY <2>1, <2>3, <3>1, <3>2, PoolSets DEF Pool!TurnAway, Pool!Move
    <3> QED
      BY <3>3 DEF Pool!Next
  <2>5. CASE ~(count'[TenantOf[r]] > Limit)
    <3> Moved(pc, pc', r, "acquired")
      BY <1>1, <1>3, <2>5 DEF TryAcquire, Goto, TypeOK, Moved
    <3>1. PoolPlace' = [PoolPlace EXCEPT ![r] = "inside"]
      BY PoolMove, ClassPoints, Places
    <3>2. Cardinality(Holding(TenantOf[r])) < Limit
      BY <2>2, <2>3, <2>5, LimitIsNat
    <3>3. Pool!Admit(r)
      BY <2>1, <2>3, <3>1, <3>2, PoolSets DEF Pool!Admit, Pool!Move
    <3> QED
      BY <3>3 DEF Pool!Next
  <2> QED
    BY <2>4, <2>5
<1>4. ASSUME NEW r \in Request, Undo(r) PROVE Pool!Next
  <2>1. pc[r] = "over" /\ Moved(pc, pc', r, "refused")
    BY <1>1, <1>4 DEF Undo, Goto, TypeOK, Moved
  <2>2. PoolPlace[r] = "refusing"
    BY <2>1, Places DEF PoolPlace
  <2>3. PoolPlace' = [PoolPlace EXCEPT ![r] = "gone"]
    BY <2>1, PoolMove, Places
  <2> QED
    BY <2>2, <2>3 DEF Pool!Next, Pool!Forget, Pool!Move
<1>5. ASSUME NEW r \in Request, Release(r) PROVE Pool!Next
  <2>1. pc[r] \in HoldingPc /\ Moved(pc, pc', r, "returned")
    BY <1>1, <1>5 DEF Release, Goto, TypeOK, Moved, HoldingPc
  <2>2. PoolPlace[r] = "inside"
    BY <2>1, Places DEF PoolPlace
  <2>3. PoolPlace' = [PoolPlace EXCEPT ![r] = "gone"]
    BY <2>1, PoolMove, Places
  <2> QED
    BY <2>2, <2>3 DEF Pool!Next, Pool!Leave, Pool!Move
<1>6. ASSUME NEW r \in Request, Inc(r) \/ Dec(r) \/ NeutralStep(r)
      PROVE  UNCHANGED PoolPlace
  <2>1. /\ \A q \in Request : q # r => pc'[q] = pc[q]
        /\ pc'[r] \in HoldingPc <=> pc[r] \in HoldingPc
        /\ pc[r] \notin HoldingPc =>
             {pc[r], pc'[r]} \subseteq {"refused", "returned", "done"}
    <3> USE <1>1 DEF TypeOK, Goto, HoldingPc
    <3>1. CASE Inc(r) \/ Dec(r) \/ Refuse(r) \/ Finish(r)
      BY <3>1 DEF Inc, Dec, Refuse, Finish
    <3>2. CASE RoundTripAnswers(r) \/ RoundTripFails(r) \/ ClassifyFailure(r)
      BY <3>2 DEF RoundTripAnswers, RoundTripFails, ClassifyFailure
    <3>3. CASE ReadChunk(r) \/ ReadEnds(r)
      BY <3>3 DEF ReadChunk, ReadEnds
    <3>4. CASE WriteFlush(r) \/ WriteBuffered(r) \/ WriteFails(r)
      BY <3>4 DEF WriteFlush, WriteBuffered, WriteFails, Writing, AfterWrite
    <3> QED
      BY <1>6, <3>1, <3>2, <3>3, <3>4 DEF NeutralStep
  <2>2. \A q \in Request : PlaceOf(pc'[q]) = PlaceOf(pc[q])
    BY <2>1, Places
  <2> QED
    BY <2>2 DEF PoolPlace
<1>7. ASSUME NEW r \in Request,
             Disconnect(r) \/ WriteTimeout(r) \/ Deadline(r)
      PROVE  UNCHANGED PoolPlace
  BY <1>7 DEF Disconnect, WriteTimeout, Deadline, PoolPlace
<1> QED
  BY <1>2, <1>3, <1>4, <1>5, <1>6, <1>7 DEF Next, Proceed, NeutralStep

\* The limiter as it is written, with its overshoot and its undo, implements
\* the abstract pool of slots.
THEOREM LimiterImplementsPool == Spec => ImplementsPool
<1>1. Init => Pool!Init
  BY Places DEF Init, Pool!Init, PoolPlace
<1> QED
  BY <1>1, PoolStep, Invariance, PTL DEF Spec, ImplementsPool, Pool!Spec
=============================================================================
