------------------------------ MODULE MCFscLoop ------------------------------
(***************************************************************************)
(* Small instances of FscLoop.  The limits, rates and thresholds are those *)
(* of the shipped fsc_z9964f_*.json with a narrower PWM range; the gains   *)
(* are rounded so that the fractional PWM values form a small grid.        *)
(***************************************************************************)
EXTENDS FscLoop

MCAirflowPath == [F2B |-> "f2b", B2F |-> "b2f", UNKNOWN |-> "b2f"]

Sensor(n, type, pid, poly) ==
    [SensorNum |-> n, ProfileType |-> type, Pid |-> pid, Poly |-> poly]
NoPid == ZeroProfile.Pid
NoPoly == ZeroProfile.Poly
Pid(n, pid) == Sensor(n, FSC_CTL_PID, pid, NoPoly)
Polynomial(n, poly) == Sensor(n, FSC_CTL_POLYNOMIAL, NoPid, poly)
\* "linear" and "ambient_base": types of the shipped files the parser ignores.
Linear(n) == Sensor(n, FSC_CTL_INVALID, NoPid, NoPoly)

CpuPid == [SetPoint |-> 48, Kp |-> 1000, Ki |-> 250, Kd |-> 500]

\* A table of coefficients or of points whose first entries are those of a list.
Table(size, list, rest) == [i \in 1 .. size |-> IF i \in DOMAIN list THEN list[i] ELSE rest]
Coefficients(list) == Table(MAX_POLYNOMIAL_COEFFS, list, 0)
Points(list) == Table(MAX_PIECEWISE_POINTS, list, [temp |-> 0, pwm |-> 0])

InletCurve ==
    [CurveType |-> FSC_AMBIENT_CAL_POLYNOMIAL,
     CoeffCount |-> 3, Coefficients |-> Coefficients(<<20000, 500, 5>>),
     PointCount |-> 0, PiecewisePoints |-> Points(<<>>),
     FallingHyst |-> 2, MaxRisingRate |-> 10, MaxFallingRate |-> 5]

InletSteps ==
    [InletCurve EXCEPT !.CurveType = FSC_AMBIENT_CAL_PIECEWISE,
        !.CoeffCount = 0, !.Coefficients = Coefficients(<<>>),
        !.PointCount = 2,
        !.PiecewisePoints = Points(<<[temp |-> 40, pwm |-> 38], [temp |-> 50, pwm |-> 70]>>)]

\* A curve from 40 percent at 50 degrees down to -32738 at 44: nearly all that
\* INT16S holds; and one that counts a point more than its table has.
SteepCurve ==
    [InletCurve EXCEPT !.CoeffCount = 2,
        !.Coefficients = Coefficients(<<-273110000, 5463000>>), !.FallingHyst = 0]
LongCurve ==
    [InletSteps EXCEPT !.PointCount = MAX_PIECEWISE_POINTS + 1,
        !.PiecewisePoints[1].temp = 45]

Complete(value) ==
    [Value |-> value,
     Writes |-> ItemFields([Value |-> value, Writes |-> 0])]
File(min, max, values) ==
    [DebugOk |-> TRUE, System |-> [FanInitialPWM |-> min, FanMaxPWM |-> max],
     SystemWrites |-> 2, HasProfiles |-> TRUE,
     Items |-> [i \in DOMAIN values |-> Complete(values[i])]]

\* Two directions with different algorithms for the same slots.
MixedFiles ==
    [f2b |-> File(30, 40, <<Polynomial(3, InletCurve), Pid(1, CpuPid)>>),
     b2f |-> File(36, 44, <<Pid(2, CpuPid), Linear(4)>>)]

MCConfigPath == {"f2b", "b2f"}

\* A file that stops converting inside the second profile: in the middle of its
\* points, whose number and first temperature it has written.  The other file is
\* whole, with two polynomials in the place of the curve.
StopAt(file, i, n) == [file EXCEPT !.Items[i].Writes = n]
PartialFiles ==
    [f2b |-> StopAt(File(30, 40, <<Pid(1, CpuPid), Polynomial(3, InletSteps)>>), 2, 5),
     b2f |-> File(36, 44, <<Polynomial(3, InletCurve), Polynomial(4, InletCurve)>>)]

\* A file with more profiles than the tables of this instance hold, and one with
\* curves at the limits of their numbers.
OversizedFiles ==
    [f2b |-> File(30, 40, <<Polynomial(3, SteepCurve), Polynomial(4, LongCurve)>>),
     b2f |-> File(36, 44, <<Pid(1, CpuPid), Pid(2, CpuPid), Pid(3, CpuPid)>>)]
=============================================================================
