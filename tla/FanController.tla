--------------------------- MODULE FanController ---------------------------
(***************************************************************************)
(* The fan curve and its hysteresis: crates/argon-proto/src/fan/curve.rs.  *)
(* A duty is its percentage, Off = 0; a temperature is in tenths of a      *)
(* degree, or in any other whole unit.  Controller::current is `cur`, None *)
(* before the first reading and after a reset.                             *)
(***************************************************************************)
EXTENDS Integers, Sequences

CONSTANTS
    None,           \* no reading, or no duty applied yet
    Curve,          \* fan.curve, ascending: a sequence of [at, duty]
    Hysteresis,     \* fan.hysteresis_c
    MinDuty,        \* fan.min_duty
    MinSpinning,    \* MIN_SPINNING_DUTY
    Full            \* 100%

Off == 0

Duty == Off .. Full

\* What FanCurve::new accepts, once it has sorted the points.
IsCurve(points) ==
    /\ points \in Seq([at : Int, duty : Duty]) /\ points # <<>>
    /\ \A i, j \in 1 .. Len(points) : i < j =>
        /\ points[i].at < points[j].at
        /\ points[i].duty <= points[j].duty

\* hysteresis_c and min_duty are not checked by Config::validate; min_duty is
\* an unsigned byte.
ASSUME CurveAssumption ==
    /\ Full \in Nat \ {0} /\ MinSpinning \in 1 .. Full /\ MinDuty \in Nat
    /\ Hysteresis \in Int
    /\ IsCurve(Curve)

ASSUME NoDutyAssumption == None \notin Int

\* The points a temperature is at or above.
Reached(t) == {i \in 1 .. Len(Curve) : Curve[i].at <= t}

\* The duty of the last point reached.
DutyFor(t) ==
    IF Reached(t) = {} THEN Off
    ELSE Curve[CHOOSE i \in Reached(t) : \A j \in Reached(t) : j <= i].duty

AtMost(x, bound) == IF x > bound THEN bound ELSE x
AtLeast(x, bound) == IF x < bound THEN bound ELSE x

\* apply_floor: a running duty is raised to MinDuty, and Off is refused unless
\* stopping the fan is allowed.
Floored(duty, allowStop) ==
    IF duty # Off THEN AtMost(AtLeast(duty, MinDuty), Full)
    ELSE IF allowStop THEN Off
    ELSE AtMost(AtLeast(MinDuty, MinSpinning), Full)

\* MUTANT: going up waits for the margin too.
UpdateSlow(cur, t, allowStop) ==
    Floored(IF cur = None \/ DutyFor(t - Hysteresis) >= cur \/ DutyFor(t + Hysteresis) < cur
              THEN DutyFor(t) ELSE cur,
            allowStop)

\* update: up at once, down only past the margin.
Update(cur, t, allowStop) ==
    Floored(IF cur = None \/ DutyFor(t) >= cur \/ DutyFor(t + Hysteresis) < cur
              THEN DutyFor(t) ELSE cur,
            allowStop)
=============================================================================
