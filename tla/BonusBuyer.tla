------------------------------ MODULE BonusBuyer ------------------------------
(***************************************************************************)
(* The bonus points of core/internal/mam/service.go: autoBuy, the task of  *)
(* a Scheduler, spends what is above MinPointsToKeep, one request to MAM   *)
(* after the other, while users buy by hand and points are earned.         *)
(*                                                                         *)
(* NewService starts the scheduler and triggers it once; it never stops or *)
(* restarts it.  The configuration is read anew at each use.               *)
(***************************************************************************)
EXTENDS Scheduler

CONSTANTS
    PointsPerGB,
    Block,         \* the interval of divideIntoMamGBAmounts, in GB
    KeepValues,    \* what MinPointsToKeep may be set to
    Faults,        \* "refused", "lost": bought but not answered, "profile"
    MaxPoints,     \* bound: points of the account
    MaxHand        \* bound: purchases by hand

ASSUME BuyerAssumption ==
    /\ PointsPerGB \in Nat \ {0}
    /\ Block \in Nat \ {0}
    /\ KeepValues \subseteq Int
    /\ MaxPoints \in Nat
    /\ MaxHand \in Nat

VARIABLES
    points,        \* the account at MAM
    buyer,         \* autoBuy: its next request, blocks left, the minimum it read
    others,        \* points spent by hand since autoBuy learnt what it has
    hand           \* how much of the bound is used

buyVars == <<vars, points, buyer, others, hand>>

Buyer == [pc : {"idle", "vip", "profile", "max", "buy"}, left : Nat, keep : Int]

BuyTypeOK ==
    /\ SchedTypeOK
    /\ points \in 0..MaxPoints
    /\ buyer \in Buyer
    /\ others \in Nat
    /\ hand \in 0..MaxHand
    /\ buyer.pc # "idle" => \E l \in Loops : loop[l] = "task"

At(pc) == [pc |-> pc, left |-> 0, keep |-> 0]

\* NewService: NewScheduler, then Manual.
BuyInit ==
    /\ NewScheduler /\ manual = 1
    /\ points \in 0..MaxPoints
    /\ buyer = At("idle")
    /\ others = 0
    /\ hand = 0

-----------------------------------------------------------------------------
\* autoBuy.

Cost == Block * PointsPerGB

\* Wrong on purpose: the minimum is compared but not subtracted.
PlannedAll(available, keep) ==
    LET blocks == available \div Cost IN
    IF available > keep /\ blocks > 0
    THEN [pc |-> "buy", left |-> blocks, keep |-> keep]
    ELSE At("idle")

\* autoBuy with the points it knows of, and BuyBonus: 0 GB stand for as many as
\* possible, less than a block for nothing.
Planned(available, keep) ==
    LET gb == (available - keep) \div PointsPerGB IN
    IF available <= keep THEN At("idle")
    ELSE IF gb = 0 THEN [pc |-> "max", left |-> 0, keep |-> keep]
    ELSE IF gb < Block THEN At("idle")
    ELSE [pc |-> "buy", left |-> gb \div Block, keep |-> keep]

\* Wrong on purpose: autoBuy in a goroutine of its own.
DoesApart(l, s) ==
    /\ buyer' = s
    /\ IF loop[l] = "task" THEN TaskDone(l) ELSE UNCHANGED schedVars
    /\ UNCHANGED <<callVars, hand>>

\* autoBuy goes on with its next request, or its loop is back at the select.
Does(l, s) ==
    /\ buyer' = s
    /\ IF s.pc = "idle" THEN TaskDone(l) ELSE UNCHANGED schedVars
    /\ UNCHANGED <<callVars, hand>>

StartTask(l) ==
    /\ OnManual(l)
    /\ buyer' = At("vip")
    /\ UNCHANGED <<callVars, points, others, hand>>

In(l, pc) == loop[l] = "task" /\ buyer.pc = pc

Plans(l, available) ==
    /\ others' = 0
    /\ \E keep \in KeepValues : Does(l, Planned(available, keep))

\* After VIP: no points known, by an error or by the answer, asks the profile.
Continues(l, available) ==
    \/ others' = others /\ Does(l, At("idle"))
    \/ IF available = 0 THEN others' = others /\ Does(l, At("profile"))
                        ELSE Plans(l, available)

\* AutoBuyVip is off, or MAM refuses.
NoVip(l) ==
    /\ In(l, "vip")
    /\ Continues(l, 0)
    /\ UNCHANGED points

\* BuyVIP(0): as many weeks as the points buy; the answer has what is left.
BuysVip(l) ==
    /\ In(l, "vip")
    /\ \E s \in 1..points :
          /\ points' = points - s
          /\ Continues(l, points - s) \/ ("lost" \in Faults /\ Continues(l, 0))

Profile(l) ==
    /\ In(l, "profile")
    /\ Plans(l, points) \/ ("profile" \in Faults /\ Plans(l, 0))
    /\ UNCHANGED points

\* The task is done, whether MAM sold as much as it could or refused.
BuysMax(l) ==
    /\ In(l, "max")
    /\ \/ points' = points % PointsPerGB
       \/ "refused" \in Faults /\ points' = points
    /\ Does(l, At("idle"))
    /\ UNCHANGED others

\* One block less, sold or not: an error does not end BuyBonus.
Spent ==
    IF buyer.left = 1 THEN At("idle") ELSE [buyer EXCEPT !.left = @ - 1]

\* MAM sells a block that the points pay for, answered or not.
BuysBlock(l) ==
    /\ In(l, "buy")
    /\ \/ points >= Cost /\ points' = points - Cost
       \/ (points < Cost \/ "refused" \in Faults) /\ points' = points
    /\ Does(l, Spent)
    /\ UNCHANGED others

-----------------------------------------------------------------------------
\* The account.

\* BuyVip, BuyBonus and UseFreeleech by RPC, each request of theirs.
BuysByHand ==
    /\ hand < MaxHand
    /\ hand' = hand + 1
    /\ \E s \in 1..points : points' = points - s /\ others' = others + s
    /\ UNCHANGED <<vars, buyer>>

Earns ==
    /\ points' \in points..MaxPoints
    /\ UNCHANGED <<vars, buyer, others, hand>>

AutoBuy(l) ==
    \/ NoVip(l) \/ BuysVip(l) \/ Profile(l) \/ BuysMax(l) \/ BuysBlock(l)

BuyNext ==
    \/ BuysByHand \/ Earns
    \/ \E l \in Loops :
          \/ StartTask(l) \/ AutoBuy(l)
          \/ (Tick(l) \/ OnTick(l)) /\ UNCHANGED <<callVars, points, buyer, others, hand>>

BuySpec == BuyInit /\ [][BuyNext]_buyVars

-----------------------------------------------------------------------------
\* Properties.

\* The blocks autoBuy has yet to buy come out of the points above the minimum,
\* apart from what is spent by hand in the meantime.
SurplusOnly ==
    buyer.pc = "buy" => points + others >= buyer.keep + buyer.left * Cost
=============================================================================
