------------------------------- MODULE Wilson -------------------------------
(***************************************************************************)
(* The Wilson score lower bound (autonomy/wilson.py), in integers.         *)
(*                                                                         *)
(* The code computes, for s successes in n trials and z = 1.96,            *)
(*   lower = (p + z^2/2n - z*sqrt((p(1-p) + z^2/4n)/n)) / (1 + z^2/n)      *)
(* with p = s/n, and only ever compares it with a threshold t.  lower is   *)
(* the smaller root in x of (p - x)^2 = z^2 x (1 - x) / n, a parabola that *)
(* is positive at x = t exactly when t lies outside the two roots, and the *)
(* larger root is at least p; so lower > t exactly when t < p and          *)
(* (p - t)^2 > z^2 t (1 - t) / n.  With t = T/100 and z^2 = 2401/625 both  *)
(* sides multiplied by 625 * 100^2 * n^2 are the integers below.           *)
(*                                                                         *)
(* TLC's integers have 32 bits: n * (100 - T) must stay below 1854, which  *)
(* holds for the shipped gates (50 at 85, 100 at 92).                      *)
(***************************************************************************)
EXTENDS Integers

Square(x) == x * x

(***************************************************************************)
(* wilson_lower_bound(successes, n) > percent/100.  With no trials the     *)
(* code returns 0.0, which exceeds no threshold.                           *)
(***************************************************************************)
LowerBoundExceeds(successes, n, percent) ==
  /\ n > 0
  /\ 100 * successes > n * percent
  /\ 625 * Square(100 * successes - n * percent)
       > 2401 * n * percent * (100 - percent)

(***************************************************************************)
(* wilson_lower_bound(successes, n) >= percent/100, for n > 0.             *)
(***************************************************************************)
LowerBoundMeets(successes, n, percent) ==
  /\ n > 0
  /\ 100 * successes >= n * percent
  /\ 625 * Square(100 * successes - n * percent)
       >= 2401 * n * percent * (100 - percent)
=============================================================================
