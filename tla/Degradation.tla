---------------------------- MODULE Degradation ----------------------------
(***************************************************************************)
(* ewma_degradation for the attempts of one payment method, in the order   *)
(* of their creation: 1 for a successful attempt, 0 for a failed one.      *)
(*                                                                         *)
(* The exponentially weighted success rate is kept in units of 1/Unit,     *)
(* rounded down; the comparison of z with -3.5 is freed of its division    *)
(* and its root.  The units are fine enough for the verdicts to be those   *)
(* of the code on all sequences of up to 13 attempts, and small enough for *)
(* the products to stay below 2^31.                                        *)
(***************************************************************************)
EXTENDS Integers, Sequences, FiniteSets, SequencesExt

MinAttempts == 8        \* fewer attempts of a method are not judged
Unit        == 256

(* ewma = .25 * success + .75 * ewma, from the first success. *)
Ewma(s) ==
    LET e[k \in 1 .. Len(s)] ==
            IF k = 1 THEN Unit * s[1] ELSE (Unit * s[k] + 3 * e[k - 1]) \div 4
    IN  e[Len(s)]

(* The attempts the baseline is computed from. *)
AllValues(s) == s           \* mutant: the attempt that is judged is among them
Baseline(s) == Front(s)

(* How many attempts of a history succeeded. *)
Successes(s) == Cardinality({i \in DOMAIN s : s[i] = 1})

(* z <= -3.5, where z = (ewma - mean) / max(deviation, .01), the mean being *)
(* S / m and the variance S * (m - S) / (m * (m - 1)).                      *)
Degraded(s) ==
    LET m    == Len(Baseline(s))
        S    == Successes(Baseline(s))
        drop == Unit * S - m * Ewma(s)      \* m times the fall below the mean
    IN  /\ Len(s) >= MinAttempts
        /\ IF S * (m - S) = 0 THEN 1000 * drop >= 35 * Unit * m
           ELSE /\ drop >= 0
                /\ 4 * (m - 1) * drop * drop >= 49 * S * (m - S) * m * Unit * Unit
=============================================================================
