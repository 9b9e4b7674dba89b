------------------------------- MODULE FscCore -------------------------------
(***************************************************************************)
(* The per-sensor control algorithms of fsc_core.c as operators on the     *)
(* control record ("slot", FSCTempSensor) of one temperature sensor.       *)
(*                                                                         *)
(* The C code computes in float.  Here every PWM that may be fractional,   *)
(* every gain and every coefficient is an integer in thousandths (SCALE);  *)
(* temperatures are whole degrees, as the sensor readings are.  A slot     *)
(* holds only what survives a control cycle: MinPWM, MaxPWM, Algorithm and *)
(* the parameters are copied from the configuration at the start of every  *)
(* pass, before anything reads them (fsc_loop.c:103-133).                  *)
(***************************************************************************)
EXTENDS Integers

SCALE == 1000

\* Values of FSCTempSensor.Algorithm and of ProfileType.
FSC_CTL_INVALID == 0
FSC_CTL_PID == 1
FSC_CTL_POLYNOMIAL == 2

\* Values of CurveType.
FSC_AMBIENT_CAL_POLYNOMIAL == 0
FSC_AMBIENT_CAL_PIECEWISE == 1

\* The sizes of the tables of coefficients and of curve points.
MAX_POLYNOMIAL_COEFFS == 4
MAX_PIECEWISE_POINTS == 10

\* Filter dirty data: a reading this far from the last one is distrusted.
TEMP_READING_RANGE == 10

INT8U == 0 .. 255
\* A PWM within INT8U limits, in thousandths.
MaxScaledPWM == 255 * SCALE
ScaledPWM == 0 .. MaxScaledPWM

\* The table of a piecewise curve: nothing checks that its points are sorted or
\* different, nor that the number of them is one that the table holds.
CurvePoint == [temp : INT8U, pwm : INT8U]
CurveTable == [1 .. MAX_PIECEWISE_POINTS -> CurvePoint]

\* The fields of FSC_JSON_PROFILE_PID and FSC_JSON_PROFILE_POLYNOMIAL that the
\* algorithms read.
PidParam == [SetPoint : Int, Kp : Int, Ki : Int, Kd : Int]
PolyParam == [CurveType : INT8U,
              CoeffCount : INT8U, Coefficients : [1 .. MAX_POLYNOMIAL_COEFFS -> Int],
              PointCount : INT8U, PiecewisePoints : CurveTable,
              FallingHyst : INT8U, MaxRisingRate : INT8U, MaxFallingRate : INT8U]

Slot == [CurrentTemp : Int, LastTemp : Int, LastLastTemp : Int,
         LastPWM : ScaledPWM, Present : BOOLEAN, CurrentPWM : INT8U]

\* Static storage: all slots are zero when the task starts.
ZeroSlot == [CurrentTemp |-> 0, LastTemp |-> 0, LastLastTemp |-> 0,
             LastPWM |-> 0, Present |-> FALSE, CurrentPWM |-> 0]

-----------------------------------------------------------------------------
(* Arithmetic: C division and float-to-integer casts truncate to zero, and *)
(* round() of a non-negative value rounds half up.                         *)

AtMost(x, hi) == IF x > hi THEN hi ELSE x
AtLeast(x, lo) == IF x < lo THEN lo ELSE x
\* The two clamps in the order of the code: the floor has the last word.
Clamp(x, lo, hi) == AtLeast(AtMost(x, hi), lo)

Truncate(x) == IF x >= 0 THEN x \div SCALE ELSE -((-x) \div SCALE)
Round(x) == (x + SCALE \div 2) \div SCALE
Abs(x) == IF x >= 0 THEN x ELSE -x

\* An INT16S keeps the low 16 bits of an integer.  A float that is cast to it is
\* out of its range undefined in C; the conversion of the ARM build saturates at
\* 32 bits first.
INT16S(x) == ((x + 32768) % 65536) - 32768
INT32_MAX == 2147483647
FloatToINT16S(x) == INT16S(Clamp(Truncate(x), -INT32_MAX - 1, INT32_MAX))

-----------------------------------------------------------------------------
(* FSCGetPWMValue_PID: the incremental PID law on an enabled sensor.       *)

PidOutput(s, par) ==
    LET p_temp == s.CurrentTemp - s.LastTemp
        i_temp == s.CurrentTemp - par.SetPoint
        d_temp == s.CurrentTemp - 2 * s.LastTemp + s.LastLastTemp
    IN  s.LastPWM + par.Kp * p_temp + par.Ki * i_temp + par.Kd * d_temp

\* Mutations: the law without its floor, without its ceiling, and without the
\* memory of its last output.
PidWithoutFloor(s, par, min, max) ==
    LET pwm == AtMost(PidOutput(s, par), max * SCALE)
    IN  [s EXCEPT !.LastPWM = pwm, !.LastLastTemp = s.LastTemp,
                  !.LastTemp = s.CurrentTemp, !.CurrentPWM = Round(pwm)]
PidWithoutCeiling(s, par, min, max) ==
    LET pwm == AtLeast(PidOutput(s, par), min * SCALE)
    IN  [s EXCEPT !.LastPWM = pwm, !.LastLastTemp = s.LastTemp,
                  !.LastTemp = s.CurrentTemp, !.CurrentPWM = Round(pwm)]
PidWithoutMemory(s, par, min, max) ==
    LET pwm == Clamp(PidOutput(s, par), min * SCALE, max * SCALE)
    IN  [s EXCEPT !.LastLastTemp = s.LastTemp,
                  !.LastTemp = s.CurrentTemp, !.CurrentPWM = Round(pwm)]

FSCGetPWMValue_PID(s, par, min, max) ==
    LET pwm == Clamp(PidOutput(s, par), min * SCALE, max * SCALE)
    IN  [s EXCEPT !.LastPWM = pwm,
                  !.LastLastTemp = s.LastTemp,
                  !.LastTemp = s.CurrentTemp,
                  !.CurrentPWM = Round(pwm)]

-----------------------------------------------------------------------------
(* FSCGetPWMValue_Polynomial.  g_AmbientCalibration stays zero in the      *)
(* running program, so the ambient temperature is the inlet reading and    *)
(* the hysteresis threshold is LastTemp itself.                            *)

\* The sum over the coefficients that are counted, in thousandths, and the
\* 16 bits of it that are the target.
PolynomialValue(par, t) ==
    LET a(k) == IF k <= par.CoeffCount THEN par.Coefficients[k] ELSE 0
    IN  a(1) + a(2) * t + a(3) * (t * t) + a(4) * (t * t * t)
PolynomialTarget(par, t) == FloatToINT16S(PolynomialValue(par, t))

\* The segments between the first n points that contain t; the code takes the
\* first.
Segments(pts, n, t) ==
    {i \in 1 .. n - 1 : pts[i].temp <= t /\ t <= pts[i + 1].temp}
FirstSegment(pts, n, t) ==
    CHOOSE i \in Segments(pts, n, t) : \A j \in Segments(pts, n, t) : i <= j

\* C integer division of a possibly negative rise by a positive run.
Interpolate(lo, hi, t) ==
    LET rise == (hi.pwm - lo.pwm) * (t - lo.temp)
        run == hi.temp - lo.temp
    IN  lo.pwm + (IF rise >= 0 THEN rise \div run ELSE -((-rise) \div run))

\* With more points than the table holds, all that is decided in the table is
\* whether t is at or under the first point.  The rest of the search reads the
\* bytes behind the table: their result is a byte, the parameter "beyond".
PiecewiseTarget(pts, n, t, lastPWM, beyond) ==
    IF n < 2 THEN Truncate(lastPWM)
    ELSE IF t <= pts[1].temp THEN pts[1].pwm
    ELSE IF n > MAX_PIECEWISE_POINTS THEN beyond
    ELSE IF t >= pts[n].temp THEN pts[n].pwm
    ELSE IF Segments(pts, n, t) = {} THEN 0
    ELSE LET i == FirstSegment(pts, n, t) IN Interpolate(pts[i], pts[i + 1], t)

\* What a search in the curve of par may find behind the table.
BeyondTable(par) == IF par.PointCount > MAX_PIECEWISE_POINTS THEN INT8U ELSE {0}

CurveTarget(s, par, beyond) ==
    IF par.CurveType = FSC_AMBIENT_CAL_POLYNOMIAL
    THEN PolynomialTarget(par, s.CurrentTemp)
    ELSE PiecewiseTarget(par.PiecewisePoints, par.PointCount, s.CurrentTemp,
                         s.LastPWM, beyond)

\* On a falling reading the curve is also read FallingHyst degrees higher and
\* the larger target wins.  Only the polynomial curve has this branch.
HysteresisTarget(s, par, beyond) ==
    LET target == CurveTarget(s, par, beyond)
    IN  IF s.CurrentTemp < s.LastTemp /\ par.CurveType = FSC_AMBIENT_CAL_POLYNOMIAL
        THEN AtLeast(target, PolynomialTarget(par, s.CurrentTemp + par.FallingHyst))
        ELSE target

\* The per-cycle rate limits.  Difference, its negation and the result are
\* truncated to whole percents (INT16S), and the sign of the narrowed difference
\* chooses the limit: below a target of -32512 it may be the wrong one, or none.
Narrowed(target, last) == INT16S(Truncate(target * SCALE - last))

\* Mutations: no limit at all, and no limit on the way down.
Unlimited(target, last, par) == target
LimitedRisingOnly(target, last, par) ==
    IF Narrowed(target, last) > par.MaxRisingRate /\ target * SCALE > last
    THEN Truncate(last + par.MaxRisingRate * SCALE) ELSE target

RateLimited(target, last, par) ==
    LET diff == Narrowed(target, last)
        max_change == IF diff > 0 THEN par.MaxRisingRate
                      ELSE IF diff < 0 THEN par.MaxFallingRate ELSE 0
        change == IF diff < 0 THEN INT16S(-diff) ELSE diff
    IN  IF change <= max_change THEN target
        ELSE IF target * SCALE > last THEN Truncate(last + max_change * SCALE)
        ELSE Truncate(last - max_change * SCALE)

IsDirtyReading(s) == Abs(s.CurrentTemp - s.LastTemp) > TEMP_READING_RANGE

\* Mutation: a result that is not clamped from below.
PolynomialWithoutFloor(s, par, min, max, beyond) ==
    LET pwm == AtMost(RateLimited(HysteresisTarget(s, par, beyond), s.LastPWM, par), max)
    IN  [s EXCEPT !.LastTemp = s.CurrentTemp, !.LastPWM = pwm * SCALE,
                  !.CurrentPWM = pwm]

FSCGetPWMValue_Polynomial(s, par, min, max, beyond) ==
    IF IsDirtyReading(s)
    THEN [s EXCEPT !.LastTemp = s.CurrentTemp,
                   !.CurrentPWM = Truncate(s.LastPWM)]
    ELSE LET pwm == Clamp(RateLimited(HysteresisTarget(s, par, beyond), s.LastPWM, par),
                          min, max)
         IN  [s EXCEPT !.LastTemp = s.CurrentTemp,
                       !.LastPWM = pwm * SCALE,
                       !.CurrentPWM = pwm]
=============================================================================
