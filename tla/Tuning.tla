------------------------------- MODULE Tuning -------------------------------
(***************************************************************************)
(* The recommendations of adaptive_tuning.rs: they compare the share of       *)
(* settlements that met their threshold, over all of them, with a target the  *)
(* admin sets, and recommend to loosen or tighten the thresholds by one step. *)
(* Nothing in the repository applies them, and the evaluation window that is  *)
(* stored with them is not read.                                            *)
(***************************************************************************)
EXTENDS Integers

CONSTANTS
    TargetInputs, StepInputs, LimitInputsBps,   \* what the admin may set, in basis points
    Word,                                      \* how many numbers a u32 holds, 2^32
    MaxJudged                                  \* bound on the number of settlements

ASSUME TuningAssumption ==
    /\ Word \in Nat /\ 20000 < Word
    /\ TargetInputs \cup StepInputs \cup LimitInputsBps \subseteq 0..(Word - 1)
    /\ MaxJudged \in Nat

VARIABLES
    tuning,   \* TUNING_KEY, with its default where nothing is stored
    judged    \* the part of STATS that is read

tuningVars == <<tuning, judged>>

TuningConfig ==
    [target_compliance_bps : Nat, adjustment_step_bps : Nat, max_adjustment_bps : Nat,
     enabled : BOOLEAN]

init_tuning ==
    [target_compliance_bps |-> 9500, adjustment_step_bps |-> 100,
     max_adjustment_bps |-> 500, enabled |-> FALSE]

SetTuning(target, step, limit) ==
    /\ target <= 10000
    /\ tuning' = [target_compliance_bps |-> target, adjustment_step_bps |-> step,
                  max_adjustment_bps |-> limit, enabled |-> TRUE]
    /\ UNCHANGED judged

DisableTuning ==
    /\ tuning' = [tuning EXCEPT !.enabled = FALSE]
    /\ UNCHANGED judged

\* A settlement is counted in STATS (increment_stats).
Judge(violated) ==
    /\ judged.calculations < MaxJudged
    /\ judged' = [calculations |-> judged.calculations + 1,
                  violations |-> judged.violations + (IF violated THEN 1 ELSE 0)]
    /\ UNCHANGED tuning

-----------------------------------------------------------------------------
\* Before the first settlement the rate is zero, not full.
Compliance ==
    IF judged.calculations = 0 THEN 0
      ELSE ((judged.calculations - judged.violations) * 10000) \div judged.calculations

Gap == tuning.target_compliance_bps - Compliance

ShouldAdjust ==
    tuning.enabled /\ (Gap > tuning.adjustment_step_bps \/ -Gap > tuning.adjustment_step_bps)

\* `as i32': the upper half of the numbers becomes negative.
AsSigned(number) == IF 2 * number >= Word THEN number - Word ELSE number

\* max, then min: a limit that has become negative is the result itself.
Limited(adjustment) ==
    LET limit == AsSigned(tuning.max_adjustment_bps)
        raised == IF adjustment < -limit THEN -limit ELSE adjustment
    IN  IF raised > limit THEN limit ELSE raised

Direction == IF Gap > 0 THEN 1 ELSE -1
get_tuning_recommendation ==
    [should_adjust        |-> ShouldAdjust,
     threshold_adjustment |-> IF ShouldAdjust
                                THEN Limited(Direction * AsSigned(tuning.adjustment_step_bps))
                                ELSE 0,
     penalty_adjustment   |-> IF ShouldAdjust
                                THEN Limited(-Direction * AsSigned(tuning.adjustment_step_bps))
                                ELSE 0]

TuningInit ==
    /\ tuning = init_tuning
    /\ judged = [calculations |-> 0, violations |-> 0]

TuningNext ==
    \/ DisableTuning
    \/ \E violated \in BOOLEAN : Judge(violated)
    \/ \E target \in TargetInputs, step \in StepInputs, limit \in LimitInputsBps :
         SetTuning(target, step, limit)

TuningSpec == TuningInit /\ [][TuningNext]_tuningVars

-----------------------------------------------------------------------------
(* Properties.                                                             *)

Recommended == get_tuning_recommendation.threshold_adjustment

\* A recommendation never overshoots, under every limit that a signed word
\* holds: whoever moves the rate by as much as is recommended is still on the
\* same side of the target.  Nothing is recommended on the target or by a
\* disabled tuner, whatever the limit.
TuningNeverOvershoots ==
    /\ Recommended # 0 /\ 2 * tuning.max_adjustment_bps < Word
         => /\ Recommended * Gap > 0
            /\ Recommended * Recommended < Gap * Gap
    /\ ~tuning.enabled \/ Gap = 0 => ~get_tuning_recommendation.should_adjust

\* Under every limit, one settlement does not turn a recommendation round unless it moves the rate
\* by more than two steps: between the two directions lies a band without
\* recommendations.
TuningHasHysteresis ==
    UNCHANGED tuning /\ Recommended * Recommended' < 0 =>
        LET moved == Compliance' - Compliance
        IN  moved > 2 * tuning.adjustment_step_bps \/ -moved > 2 * tuning.adjustment_step_bps
=============================================================================
