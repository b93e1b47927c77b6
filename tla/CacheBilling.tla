---------------------------- MODULE CacheBilling ----------------------------
(* How the tokens of a prompt are divided into input, cache creation and     *)
(* cache read for the client's bill (src/src/anthropic/cache_metering.rs):   *)
(* a cascade of roundings, ratios a key's administrator sets, and a cap on   *)
(* the weighted sum.  Ratios and weights are in twentieths here (f64 in the  *)
(* code): a weight of 1 is 20, of 1.25 is 25, of 0.1 is 2.                   *)
EXTENDS Integers

WeightInput      == 20       \* WEIGHT_INPUT
WeightCreation   == 25       \* WEIGHT_CREATION
WeightCreation1h == 40       \* WEIGHT_CREATION_1H
WeightRead       == 2        \* WEIGHT_READ
DefaultCap       == 25       \* DEFAULT_MULTIPLIER_CAP
One              == 20       \* the ratio 1.0

\* i32::clamp and f64::clamp
Clamp(x, low, high) == IF x < low THEN low ELSE IF x > high THEN high ELSE x

\* f64::round of n / d, and f64::ceil of it, for a positive d.
Round(n, d) == (2 * n + d) \div (2 * d)
Ceil(n, d)  == (n + d - 1) \div d

\* The default of CacheUsage, with what was found in the cache.
Usage(read, covered, total, is1h) ==
    [cache_read |-> read, cache_covered_est |-> covered,
     prompt_total_est |-> total, creation_is_1h |-> is1h,
     read_ratio |-> One, multiplier_cap |-> DefaultCap,
     billing_mode |-> FALSE, creation_ratio |-> 1]

\* apply_key_billing with all four parameters set.
ApplyKeyBilling(u, readRatio, cap, mode, creationRatio) ==
    [u EXCEPT !.read_ratio = Clamp(readRatio, 0, One),
              !.multiplier_cap = Clamp(cap, WeightRead, DefaultCap),
              !.billing_mode = mode,
              !.creation_ratio = Clamp(creationRatio, 0, One)]

Split(input, creation, read) == [input |-> input, creation |-> creation, read |-> read]

CreationWeight(u) == IF u.creation_is_1h THEN WeightCreation1h ELSE WeightCreation

Weighted(u, s) ==
    WeightInput * s.input + CreationWeight(u) * s.creation + WeightRead * s.read

\* apply_multiplier_cap: input becomes read until the cap holds; creation is
\* never touched.
ApplyCap(u, total, s) ==
    LET excess == Weighted(u, s) - u.multiplier_cap * total
        moved  == Clamp(Ceil(excess, WeightInput - WeightRead), 0, s.input)
    IN  IF u.multiplier_cap <= 0 \/ total <= 0 \/ excess <= 0 THEN s
        ELSE Split(s.input - moved, s.creation, s.read + moved)

\* The part of the total that the cached prefix covers.
Covered(u, total) ==
    IF u.cache_covered_est >= u.prompt_total_est THEN total
    ELSE Clamp(Round(total * u.cache_covered_est, u.prompt_total_est), 0, total)

\* Mutant: what the ratio takes from the reads is charged to nobody.
SplitByHits_Loses(u, total) ==
    LET covered  == Covered(u, total)
        readBase == Clamp(Round(covered * u.cache_read, u.cache_covered_est), 0, covered)
        read     == Clamp(Round(readBase * u.read_ratio, One), 0, readBase)
    IN  Split(total - covered, covered - readBase, read)

\* split_against_total before the cap
SplitByHits(u, total) ==
    LET covered  == Covered(u, total)
        readBase == Clamp(Round(covered * u.cache_read, u.cache_covered_est), 0, covered)
        read     == Clamp(Round(readBase * u.read_ratio, One), 0, readBase)
    IN  Split(total - covered + (readBase - read), covered - readBase, read)

\* split_anthropic_standard
SplitStandard(u, total) ==
    LET covered  == Covered(u, total)
        creation == Clamp(Round(covered * u.creation_ratio, One), 0, covered)
        read     == Clamp(Round((covered - creation) * u.read_ratio, One),
                          0, covered - creation)
    IN  Split(total - creation - read, creation, read)

\* split_final
SplitFinal(u, totalReal) ==
    LET total == IF totalReal < 0 THEN 0 ELSE totalReal
    IN  IF u.cache_covered_est <= 0 \/ u.prompt_total_est <= 0
        THEN Split(total, 0, 0)
        ELSE IF u.billing_mode THEN SplitStandard(u, total)
        ELSE ApplyCap(u, total, SplitByHits(u, total))

-----------------------------------------------------------------------------
\* What a split must be, however the ratios round: nobody pays for a token
\* twice or for one that was not sent, no bucket is negative, and with the cap
\* the weighted sum of a prompt with a cached part is within it unless there
\* is no input left to move.
FairSplit(u, total, s) ==
    /\ s.input + s.creation + s.read = total
    /\ s.input >= 0 /\ s.creation >= 0 /\ s.read >= 0
    /\ ~u.billing_mode /\ u.cache_covered_est > 0 /\ u.prompt_total_est > 0 =>
         s.input = 0 \/ Weighted(u, s) <= u.multiplier_cap * total
=============================================================================
