------------------------------ MODULE BuyerProofs ------------------------------
(***************************************************************************)
(* Theorems about Scheduler: its types, and that restarts never leave it   *)
(* without a loop; and about BonusBuyer, whose task it runs: its types,    *)
(* and that the blocks autoBuy has planned are paid from what is above the *)
(* minimum.                                                                *)
(***************************************************************************)
EXTENDS BonusBuyer, FiniteSetTheorems, TLAPS

-----------------------------------------------------------------------------
\* Scheduler.

LEMMA TypeInit == Init => TypeOK
BY SchedulerAssumption DEF Init, NewScheduler, TypeOK, SchedTypeOK

LEMMA GoesType ==
    ASSUME TypeOK, NEW l \in Loops, NEW to \in {"select", "task", "ended"}, Goes(l, to)
    PROVE  /\ loop' \in [Loops -> {"none", "select", "task", "ended"}]
           /\ loop'[l] = to
           /\ \A k \in Loops \ {l} : loop'[k] = loop[k]
BY DEF TypeOK, SchedTypeOK, Goes

\* starting and stops stay below calls, which the bound caps.
CallsInv == starting + stops <= calls

LEMMA CallsInit == Init => CallsInv
BY DEF Init, NewScheduler, CallsInv

LEMMA TypeStep ==
    ASSUME TypeOK, CallsInv, [Next]_vars PROVE TypeOK' /\ CallsInv'
<1> USE SchedulerAssumption DEF SchedTypeOK
<1>1. CASE UNCHANGED vars
  BY <1>1 DEF TypeOK, CallsInv, vars, schedVars, callVars
<1>2. CASE Manual
  BY <1>2 DEF Manual, Trigger, TypeOK, CallsInv, callVars
<1>3. CASE Stop
  BY <1>3 DEF Stop, Cancel, TypeOK, CallsInv
<1>4. CASE Restart
  BY <1>4 DEF Restart, Cancel, TypeOK, CallsInv
<1>5. ASSUME NEW l \in Loops, Start(l) PROVE TypeOK' /\ CallsInv'
  <2>1. loop' \in [Loops -> {"none", "select", "task", "ended"}]
    BY <1>5, GoesType DEF Start
  <2> QED
    BY <1>5, <2>1 DEF Start, TypeOK, CallsInv
<1>6. ASSUME NEW l \in Loops, Loop(l), UNCHANGED callVars PROVE TypeOK' /\ CallsInv'
  <2>1. CASE Tick(l) \/ OnTick(l)
    BY <1>6, <2>1 DEF Tick, OnTick, Trigger, TypeOK, CallsInv, callVars
  <2>2. CASE OnManual(l) \/ OnCancel(l) \/ TaskDone(l)
    <3>1. loop' \in [Loops -> {"none", "select", "task", "ended"}]
      BY <2>2, GoesType DEF OnManual, OnCancel, TaskDone
    <3> QED
      BY <1>6, <2>2, <3>1 DEF OnManual, OnCancel, TaskDone, TypeOK, CallsInv, callVars
  <2> QED
    BY <1>6, <2>1, <2>2 DEF Loop
<1> QED
  BY <1>1, <1>2, <1>3, <1>4, <1>5, <1>6 DEF Next

\* Channels hold one item at most, and a loop is in one of its four places.
THEOREM SchedulerTypeCorrect == Spec => []TypeOK
BY TypeInit, CallsInit, TypeStep, PTL DEF Spec

-----------------------------------------------------------------------------
\* Loops that live and loops to be started, less the cancel under way.
LoopsLeft == Cardinality(Live) + starting + stops - cancel

LoopInv == LoopsLeft >= 1

LEMMA LiveFinite == IsFiniteSet(Live) /\ Cardinality(Live) \in Nat
BY SchedulerAssumption, FS_Subset, FS_CardinalityType, Live \in SUBSET Loops DEF Live

LEMMA LoopInit == Init => LoopInv
<1> SUFFICES ASSUME Init PROVE LoopInv
  OBVIOUS
<1>1. PICK l \in Loops : loop = [k \in Loops |-> IF k = l THEN "select" ELSE "none"]
  BY DEF Init, NewScheduler
<1>2. l \in Live
  BY <1>1 DEF Live
<1>3. Cardinality(Live) # 0
  BY <1>2, LiveFinite, FS_EmptySet
<1> QED
  BY <1>3, LiveFinite DEF Init, NewScheduler, LoopInv, LoopsLeft

LEMMA LoopStep ==
    ASSUME TypeOK, LoopInv, [Next]_vars PROVE LoopInv'
<1>1. /\ Cardinality(Live) \in Nat /\ starting \in Nat /\ stops \in Nat /\ cancel \in 0..1
      /\ LoopsLeft >= 1
  BY LiveFinite, SchedulerAssumption DEF TypeOK, SchedTypeOK, LoopInv
<1>2. ASSUME UNCHANGED loop PROVE Cardinality(Live') = Cardinality(Live)
  <2>1. Live' = Live
    BY <1>2 DEF Live
  <2> QED
    BY <2>1
<1>3. CASE UNCHANGED vars
  BY <1>1, <1>2, <1>3 DEF vars, schedVars, callVars, LoopInv, LoopsLeft
<1>4. CASE Manual
  BY <1>1, <1>2, <1>4 DEF Manual, callVars, LoopInv, LoopsLeft
<1>5. CASE Stop
  BY <1>1, <1>2, <1>5 DEF Stop, Cancel, LoopInv, LoopsLeft
<1>6. CASE Restart
  BY <1>1, <1>2, <1>6 DEF Restart, Cancel, LoopInv, LoopsLeft
<1>7. ASSUME NEW l \in Loops, Start(l) PROVE LoopInv'
  <2>1. Live' = Live \cup {l} /\ l \notin Live
    BY <1>7, GoesType DEF Start, Live
  <2>2. Cardinality(Live') = Cardinality(Live) + 1
    BY <2>1, LiveFinite, FS_AddElement
  <2> QED
    BY <1>1, <1>7, <2>2 DEF Start, LoopInv, LoopsLeft
<1>8. ASSUME NEW l \in Loops, OnCancel(l), UNCHANGED callVars PROVE LoopInv'
  <2>1. Live' = Live \ {l} /\ l \in Live
    BY <1>8, GoesType DEF OnCancel, Live
  <2>2. Cardinality(Live') = Cardinality(Live) - 1
    BY <2>1, LiveFinite, FS_RemoveElement
  <2> QED
    BY <1>1, <1>8, <2>2 DEF OnCancel, callVars, LoopInv, LoopsLeft
<1>9. ASSUME NEW l \in Loops, OnManual(l) \/ TaskDone(l), UNCHANGED callVars PROVE LoopInv'
  <2>1. Live' = Live
    BY <1>9, GoesType DEF OnManual, TaskDone, Live
  <2>2. Cardinality(Live') = Cardinality(Live)
    BY <2>1
  <2> QED
    BY <1>1, <1>9, <2>2 DEF OnManual, TaskDone, callVars, LoopInv, LoopsLeft
<1>10. ASSUME NEW l \in Loops, Tick(l) \/ OnTick(l), UNCHANGED callVars PROVE LoopInv'
  BY <1>1, <1>2, <1>10 DEF Tick, OnTick, callVars, LoopInv, LoopsLeft
<1> QED
  BY <1>3, <1>4, <1>5, <1>6, <1>7, <1>8, <1>9, <1>10 DEF Next, Loop

\* However many Restarts overlap, a loop lives or is about to start, as long as
\* nobody calls Stop alone.
THEOREM RestartKeepsALoop == Spec => []ALoopStays
<1>1. TypeOK /\ LoopInv => ALoopStays
  <2> SUFFICES ASSUME TypeOK, LoopInv, stops = 0, Live = {} PROVE starting > 0
    BY DEF ALoopStays
  <2>1. Cardinality(Live) = 0
    BY FS_EmptySet
  <2> QED
    BY <2>1, SchedulerAssumption DEF TypeOK, SchedTypeOK, LoopInv, LoopsLeft
<1> QED
  BY <1>1, LoopInit, LoopStep, SchedulerTypeCorrect, PTL DEF Spec

-----------------------------------------------------------------------------
\* BonusBuyer.

LEMMA CostType == Cost \in Nat \ {0}
BY BuyerAssumption DEF Cost

LEMMA AtType ==
    ASSUME NEW pc \in {"idle", "vip", "profile", "max"}
    PROVE  At(pc) \in Buyer /\ At(pc).pc = pc
BY DEF At, Buyer

\* What autoBuy plans is paid by what is above the minimum.
LEMMA PlannedPaid ==
    ASSUME NEW available \in Nat, NEW keep \in KeepValues
    PROVE  LET s == Planned(available, keep) IN
           /\ s \in Buyer
           /\ s.pc = "buy" => s.left # 0 /\ available >= s.keep + s.left * Cost
<1> USE BuyerAssumption
<1> DEFINE gb == (available - keep) \div PointsPerGB
           s == Planned(available, keep)
<1>1. CASE available <= keep
  BY <1>1, AtType DEF Planned, At
<1>2. CASE available > keep
  <2>1. keep \in Int /\ available - keep \in Nat
    BY <1>2
  <2>2. gb \in Nat /\ gb * PointsPerGB <= available - keep
    BY <2>1
  <2>3. CASE gb = 0 \/ gb < Block
    BY <1>2, <2>1, <2>3, AtType DEF Planned, Buyer, At
  <2>4. CASE gb # 0 /\ gb >= Block
    <3> DEFINE blocks == gb \div Block
    <3>1. blocks \in Nat /\ blocks # 0 /\ blocks * Block <= gb
      BY <2>2, <2>4
    <3>2. s = [pc |-> "buy", left |-> blocks, keep |-> keep]
      BY <1>2, <2>4 DEF Planned
    <3>3. blocks * Block * PointsPerGB <= gb * PointsPerGB
      BY <2>2, <3>1
    <3>4. blocks * Cost = blocks * Block * PointsPerGB
      BY <3>1 DEF Cost
    <3>5. blocks * Cost \in Nat
      BY <3>1, CostType
    <3> HIDE DEF blocks, gb
    <3>6. available >= keep + blocks * Cost
      BY <2>1, <2>2, <3>1, <3>3, <3>4, <3>5
    <3> QED
      BY <2>1, <3>1, <3>2, <3>6 DEF Buyer
  <2> QED
    BY <2>2, <2>3, <2>4
<1> QED
  BY <1>1, <1>2

-----------------------------------------------------------------------------
\* SurplusOnly with the fact that blocks are left while autoBuy buys.
PaidInv ==
    buyer.pc = "buy" =>
        buyer.left # 0 /\ points + others >= buyer.keep + buyer.left * Cost

LEMMA BuyInitial == BuyInit => BuyTypeOK /\ PaidInv
BY SchedulerAssumption, BuyerAssumption, AtType
DEF BuyInit, NewScheduler, BuyTypeOK, SchedTypeOK, PaidInv, At

\* A step of autoBuy, which ends the task or leaves its loop there.
LEMMA DoesType ==
    ASSUME BuyTypeOK, NEW l \in Loops, loop[l] = "task", NEW s \in Buyer, Does(l, s),
           points' \in 0..MaxPoints, others' \in Nat
    PROVE  BuyTypeOK' /\ buyer' = s
<1>1. CASE s.pc = "idle"
  <2>1. /\ loop' \in [Loops -> {"none", "select", "task", "ended"}]
        /\ UNCHANGED <<manual, cancel, tick>>
    BY <1>1 DEF Does, TaskDone, Goes, BuyTypeOK, SchedTypeOK
  <2> QED
    BY <1>1, <2>1 DEF Does, BuyTypeOK, SchedTypeOK
<1>2. CASE s.pc # "idle"
  BY <1>2 DEF Does, schedVars, BuyTypeOK, SchedTypeOK
<1> QED
  BY <1>1, <1>2 DEF Does

\* A plan is made with at most the points that are there.
LEMMA PlansOk ==
    ASSUME BuyTypeOK, NEW l \in Loops, loop[l] = "task", NEW available \in Nat,
           points' \in 0..MaxPoints, available <= points', Plans(l, available)
    PROVE  BuyTypeOK' /\ PaidInv'
<1>1. PICK keep \in KeepValues : Does(l, Planned(available, keep))
  BY DEF Plans
<1> DEFINE s == Planned(available, keep)
<1>2. s \in Buyer /\ (s.pc = "buy" => s.left # 0 /\ available >= s.keep + s.left * Cost)
  BY PlannedPaid
<1>3. others' = 0
  BY DEF Plans
<1>4. BuyTypeOK' /\ buyer' = s
  BY <1>1, <1>2, <1>3, DoesType
<1>5. s.left \in Nat /\ s.keep \in Int /\ s.left * Cost \in Nat
  BY <1>2, CostType DEF Buyer
<1> HIDE DEF s
<1> QED
  BY <1>2, <1>3, <1>4, <1>5 DEF PaidInv

LEMMA ContinuesOk ==
    ASSUME BuyTypeOK, NEW l \in Loops, loop[l] = "task", NEW available \in Nat,
           points' \in 0..MaxPoints, available <= points', Continues(l, available)
    PROVE  BuyTypeOK' /\ PaidInv'
<1>1. CASE Plans(l, available)
  BY <1>1, PlansOk
<1>2. ASSUME NEW pc \in {"idle", "profile"}, others' = others, Does(l, At(pc))
      PROVE  BuyTypeOK' /\ PaidInv'
  BY <1>2, AtType, DoesType DEF PaidInv, BuyTypeOK
<1> QED
  BY <1>1, <1>2 DEF Continues

\* What is bought and what is left to buy come out of the same points.
LEMMA BlockOk ==
    ASSUME BuyTypeOK, PaidInv, NEW l \in Loops, BuysBlock(l)
    PROVE  BuyTypeOK' /\ PaidInv'
<1>1. /\ buyer \in Buyer /\ buyer.pc = "buy" /\ loop[l] = "task" /\ buyer.left # 0
      /\ points + others >= buyer.keep + buyer.left * Cost
      /\ points \in 0..MaxPoints /\ others \in Nat
  BY DEF BuysBlock, In, BuyTypeOK, PaidInv
<1>2. /\ points' \in 0..MaxPoints /\ others' = others /\ points' >= points - Cost
      /\ Does(l, Spent)
  BY <1>1, CostType, BuyerAssumption DEF BuysBlock
<1>3. CASE buyer.left = 1
  <2>1. Spent = At("idle")
    BY <1>3 DEF Spent
  <2> QED
    BY <1>1, <1>2, <2>1, AtType, DoesType DEF PaidInv
<1>4. CASE buyer.left # 1
  <2> DEFINE left == buyer.left - 1
  <2>1. Spent = [buyer EXCEPT !.left = left]
    BY <1>4 DEF Spent
  <2>2. left \in Nat /\ left # 0 /\ buyer.left \in Nat /\ buyer.keep \in Int
    BY <1>1, <1>4 DEF Buyer
  <2>3. Spent \in Buyer /\ Spent.left = left /\ Spent.keep = buyer.keep
    BY <1>1, <2>1, <2>2 DEF Buyer
  <2>4. BuyTypeOK' /\ buyer' = Spent
    BY <1>1, <1>2, <2>3, DoesType
  <2>5. left * Cost = buyer.left * Cost - Cost /\ left * Cost \in Nat
    BY <2>2, CostType
  <2> HIDE DEF left
  <2>6. points' + others' >= buyer.keep + left * Cost
    BY <1>1, <1>2, <2>2, <2>5, CostType
  <2> QED
    BY <2>2, <2>3, <2>4, <2>6 DEF PaidInv
<1> QED
  BY <1>3, <1>4

LEMMA BuyStep ==
    ASSUME BuyTypeOK, PaidInv, [BuyNext]_buyVars PROVE BuyTypeOK' /\ PaidInv'
<1> USE BuyerAssumption
<1>0. points \in 0..MaxPoints /\ points \in Nat /\ others \in Nat /\ buyer \in Buyer
  BY DEF BuyTypeOK
<1>1. CASE UNCHANGED buyVars
  BY <1>1 DEF BuyTypeOK, SchedTypeOK, PaidInv, buyVars, vars, schedVars
<1>2. CASE BuysByHand
  <2>1. points' + others' = points + others /\ points' \in 0..MaxPoints /\ others' \in Nat
    BY <1>0, <1>2 DEF BuysByHand
  <2> QED
    BY <1>2, <2>1 DEF BuysByHand, vars, schedVars, BuyTypeOK, SchedTypeOK, PaidInv
<1>3. CASE Earns
  <2>1. points' >= points /\ points' \in 0..MaxPoints /\ others' = others
    BY <1>0, <1>3 DEF Earns
  <2>2. BuyTypeOK'
    BY <1>3, <2>1 DEF Earns, vars, schedVars, BuyTypeOK, SchedTypeOK
  <2>3. buyer' = buyer /\ buyer.keep \in Int /\ buyer.left * Cost \in Nat
    BY <1>0, <1>3, CostType DEF Earns, Buyer
  <2> QED
    BY <1>0, <2>1, <2>2, <2>3 DEF PaidInv
<1>4. ASSUME NEW l \in Loops, StartTask(l) PROVE BuyTypeOK' /\ PaidInv'
  <2>1. /\ loop' \in [Loops -> {"none", "select", "task", "ended"}] /\ loop'[l] = "task"
        /\ manual' = 0 /\ UNCHANGED <<cancel, tick>>
    BY <1>4 DEF StartTask, OnManual, Goes, BuyTypeOK, SchedTypeOK
  <2> QED
    BY <1>4, <2>1, AtType DEF StartTask, BuyTypeOK, SchedTypeOK, PaidInv
<1>5. ASSUME NEW l \in Loops, NoVip(l) PROVE BuyTypeOK' /\ PaidInv'
  BY <1>0, <1>5, ContinuesOk DEF NoVip, In
<1>6. ASSUME NEW l \in Loops, BuysVip(l) PROVE BuyTypeOK' /\ PaidInv'
  <2>1. PICK s \in 1..points :
          /\ points' = points - s
          /\ Continues(l, points - s) \/ Continues(l, 0)
    BY <1>6 DEF BuysVip
  <2>2. loop[l] = "task" /\ points' \in 0..MaxPoints /\ points - s \in Nat
    BY <1>0, <1>6, <2>1 DEF BuysVip, In
  <2> QED
    BY <2>1, <2>2, ContinuesOk
<1>7. ASSUME NEW l \in Loops, Profile(l) PROVE BuyTypeOK' /\ PaidInv'
  BY <1>0, <1>7, PlansOk DEF Profile, In
<1>8. ASSUME NEW l \in Loops, BuysMax(l) PROVE BuyTypeOK' /\ PaidInv'
  <2>1. points % PointsPerGB \in 0..points
    BY <1>0
  <2>2. points' \in 0..MaxPoints /\ others' = others /\ loop[l] = "task" /\ Does(l, At("idle"))
    BY <1>0, <1>8, <2>1 DEF BuysMax, In
  <2> QED
    BY <1>0, <2>2, AtType, DoesType DEF PaidInv
<1>9. ASSUME NEW l \in Loops, BuysBlock(l) PROVE BuyTypeOK' /\ PaidInv'
  BY <1>9, BlockOk
<1>10. ASSUME NEW l \in Loops, Tick(l) \/ OnTick(l),
              UNCHANGED <<callVars, points, buyer, others, hand>>
       PROVE  BuyTypeOK' /\ PaidInv'
  BY <1>10 DEF Tick, OnTick, Trigger, BuyTypeOK, SchedTypeOK, PaidInv
<1> QED
  BY <1>1, <1>2, <1>3, <1>4, <1>5, <1>6, <1>7, <1>8, <1>9, <1>10 DEF BuyNext, AutoBuy

\* Points, plans and channels keep their types, and autoBuy has a request to make
\* only while a loop is in the task.
THEOREM BuyerTypeCorrect == BuySpec => []BuyTypeOK
BY BuyInitial, BuyStep, PTL DEF BuySpec

\* Whatever is refused, lost, earned or spent by hand, the blocks autoBuy has yet
\* to buy are paid by what was above the minimum when it planned them.
THEOREM BlocksFromSurplus == BuySpec => []SurplusOnly
<1>1. PaidInv => SurplusOnly
  BY DEF PaidInv, SurplusOnly
<1> QED
  BY <1>1, BuyInitial, BuyStep, PTL DEF BuySpec
=============================================================================
