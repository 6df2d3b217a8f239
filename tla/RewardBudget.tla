---------------------------- MODULE RewardBudget ----------------------------
(***************************************************************************)
(* The cap on all rewards together (reward_cap.rs).  A distribution checks    *)
(* the cap and then records the amount in one invocation.  Amounts are        *)
(* recorded whether or not a cap is active; penalties and zero amounts are    *)
(* not.  The admin sets and clears the cap at any time, also below what has    *)
(* been distributed.  The bonus for a window without downtime                 *)
(* (zero_downtime_bonus.rs) is evaluated against what the cap leaves, and       *)
(* distributed like any reward.                                            *)
(***************************************************************************)
EXTENDS Integers

CONSTANTS
    CapInputs,        \* the amounts handed to set_reward_cap
    AmountInputs,     \* the amounts distributed
    MultiplierInputs, \* the multipliers of a bonus
    MaxDistributed    \* bound on the recorded total

ASSUME BudgetAssumption ==
    /\ CapInputs \subseteq Int /\ AmountInputs \subseteq Int
    /\ MultiplierInputs \subseteq Nat /\ MaxDistributed \in Nat

VARIABLES
    cap,       \* REWARD_CAP_KEY, or NoCap
    paidOut,   \* history: the positive amounts distributed
    atDecree   \* history: the recorded total when the cap was last set

budgetVars == <<cap, paidOut, atDecree>>

Uncapped == -1   \* max_total_rewards is None
NoCap == [max_total_rewards |-> Uncapped, distributed |-> 0, active |-> FALSE, stored |-> FALSE]
RewardCap ==
    [max_total_rewards : Int, distributed : Nat, active : BOOLEAN, stored : BOOLEAN]

Positive(amount) == IF amount > 0 THEN amount ELSE 0

-----------------------------------------------------------------------------
init_reward_cap == [NoCap EXCEPT !.stored = TRUE]

SetRewardCap(max) ==
    /\ max > 0
    /\ cap' = [cap EXCEPT !.max_total_rewards = max, !.active = TRUE, !.stored = TRUE]
    /\ atDecree' = cap.distributed
    /\ UNCHANGED paidOut

ClearRewardCap ==
    /\ cap' = [cap EXCEPT !.max_total_rewards = Uncapped, !.active = FALSE, !.stored = TRUE]
    /\ UNCHANGED <<paidOut, atDecree>>

\* The value check_reward_cap enforces, or Uncapped.
configured_reward_cap == IF cap.active THEN cap.max_total_rewards ELSE Uncapped

CheckRewardCap(amount) ==
    configured_reward_cap # Uncapped => cap.distributed + amount <= cap.max_total_rewards

get_remaining_reward_budget ==
    IF configured_reward_cap = Uncapped THEN Uncapped
      ELSE cap.max_total_rewards - cap.distributed

RecordReward(amount) ==
    IF amount > 0
      THEN cap' = [cap EXCEPT !.distributed = @ + amount, !.stored = TRUE]
      ELSE UNCHANGED cap

Distribute(amount) ==
    /\ cap.distributed + amount <= MaxDistributed
    /\ CheckRewardCap(amount)
    /\ RecordReward(amount)
    /\ paidOut' = paidOut + Positive(amount)
    /\ UNCHANGED atDecree

-----------------------------------------------------------------------------
(* The bonus for a window without downtime.                                *)

MAX_MULTIPLIER_BPS == 20000
FULL_BPS == 10000   \* BPS_DENOMINATOR
Denied == -1

is_eligible(downtime, window) == downtime = 0 /\ window > 0

scaled_credit(base, multiplier) ==
    LET applied == IF multiplier > MAX_MULTIPLIER_BPS THEN MAX_MULTIPLIER_BPS ELSE multiplier
    IN  Positive((base * applied) \div FULL_BPS)

cap_to_budget(credit, remaining) == Positive(IF credit > remaining THEN remaining ELSE credit)

evaluate_bonus(downtime, window, base, remaining, multiplier) ==
    IF /\ multiplier \in 1..MAX_MULTIPLIER_BPS
       /\ remaining > 0
       /\ is_eligible(downtime, window)
      THEN cap_to_budget(scaled_credit(base, multiplier), remaining)
      ELSE Denied

Bonus(downtime, window, base, multiplier) ==
    evaluate_bonus(downtime, window, base, get_remaining_reward_budget, multiplier)

\* While a cap is active, a bonus is evaluated against what remains and
\* distributed in the same invocation.
AwardBonus(downtime, window, base, multiplier) ==
    /\ cap.active
    /\ Bonus(downtime, window, base, multiplier) # Denied
    /\ Distribute(Bonus(downtime, window, base, multiplier))

-----------------------------------------------------------------------------
(* The system.                                                             *)

BudgetInit ==
    /\ cap \in {NoCap, init_reward_cap}
    /\ paidOut = 0
    /\ atDecree = 0

BudgetNext ==
    \/ ClearRewardCap
    \/ \E max \in CapInputs : SetRewardCap(max)
    \/ \E amount \in AmountInputs : Distribute(amount)
    \/ \E downtime, window \in {0, 1}, base \in AmountInputs, multiplier \in MultiplierInputs :
         AwardBonus(downtime, window, base, multiplier)

BudgetSpec == BudgetInit /\ [][BudgetNext]_budgetVars

-----------------------------------------------------------------------------
(* Properties.                                                             *)

\* A bonus evaluated against what the cap leaves is never refused by the cap,
\* whatever was distributed and decreed before, is not negative, and is at most
\* twice its base: the two files, which know nothing of each other, agree on
\* what remains (zero_downtime_bonus.rs, reward_cap.rs).
BonusFitsBudget ==
    \A downtime, window \in {0, 1}, base \in AmountInputs, multiplier \in MultiplierInputs :
        LET credit == Bonus(downtime, window, base, multiplier)
        IN  cap.active /\ credit # Denied =>
                /\ CheckRewardCap(credit)
                /\ credit \in 0..(2 * Positive(base))

\* The budget is kept over any sequence of distributions and decrees: the
\* recorded total is what was paid out, also in times without a cap, and it
\* is over an active cap only when the admin set the cap below what had
\* already been paid, and then nothing more is paid (reward_cap.rs).
BudgetIsKept ==
    /\ BonusFitsBudget
    /\ cap \in RewardCap
    /\ cap.distributed = paidOut
    /\ cap.active => cap.distributed <= cap.max_total_rewards \/ cap.distributed <= atDecree
    /\ cap.active /\ get_remaining_reward_budget <= 0 =>
         \A amount \in AmountInputs : amount > 0 => ~CheckRewardCap(amount)
=============================================================================
