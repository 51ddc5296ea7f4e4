---------------------------- MODULE MCDiagnosis -----------------------------
(***************************************************************************)
(* One run with two testable suspects and a third that is not, judged in   *)
(* either order; two looks, the second one shorter than a batch.  The      *)
(* first look asks for more than the second, as the O'Brien-Fleming        *)
(* boundary does, and the last suspect may be cleared early.               *)
(***************************************************************************)
EXTENDS Diagnosis

MCTestable == {2, 5}

Bisect == [mode |-> "shared", variant |-> "snapshot"]
RerunLive == [mode |-> "shared", variant |-> "rerun_live-unsafe"]
NoControl == [mode |-> "none", variant |-> "snapshot"]
PerStep == [mode |-> "per_step", variant |-> "snapshot"]

MCEvaluations ==
  {[ranking |-> <<7, 5, 2>>, plan |-> <<Bisect, NoControl>>],
   [ranking |-> <<2, 5, 7>>, plan |-> <<PerStep>>],
   [ranking |-> <<7, 2>>, plan |-> <<Bisect, RerunLive>>],
   [ranking |-> <<7, 8>>, plan |-> <<Bisect, NoControl>>]}

\* The effect, scaled by both arms' draws; without a control, the pass rate.
Gain(t, c) == IF c.n = 0 THEN t.s ELSE t.s * c.n - c.s * t.n
Scale(t, c) == IF c.n = 0 THEN t.n ELSE t.n * c.n

MCBlames(look, t, c) ==
  IF look = 1 THEN Gain(t, c) = Scale(t, c) ELSE 2 * Gain(t, c) > Scale(t, c)
MCClears(look, t, c) == Gain(t, c) < 0
=============================================================================
