----------------------------- MODULE Calibration -----------------------------
(***************************************************************************)
(* The ambient calibration: ParseAmbientCalibrationFromJson of             *)
(* fsc_parser.c reads it key by key into g_AmbientCalibration, with one    *)
(* local dTmp for all the keys, and FSCGetAmbientTemperature of fsc_core.c *)
(* makes of it what is subtracted from the inlet's reading.  The fan       *)
(* control task runs with the zeros of static storage: nothing in the      *)
(* repository calls the parser.  A key is read per step, and what the file *)
(* says of it is chosen then.  Floats are exact numbers here.              *)
(***************************************************************************)
EXTENDS Integers, Sequences

CONSTANTS
    MAX_COEFFS, MAX_POINTS,   \* MAX_POLYNOMIAL_COEFFS, MAX_PIECEWISE_POINTS
    CalValue,                 \* the numbers that a file may hold
    CalCount                  \* its counts, also beyond the tables

ASSUME CalibrationAssumption ==
    /\ MAX_COEFFS \in Nat \ {0, 1} /\ MAX_POINTS \in Nat \ {0}
    /\ CalValue \subseteq Nat /\ CalCount \subseteq Nat

VARIABLES
    calPc,             \* the key that is read next, "idle" or "done"
    calItem,           \* the item of the array that it belongs to, from 1
    dTmp,              \* the local that keys are read into
    calibration,       \* g_AmbientCalibration
    calRet,            \* the answer of the call
    keysRead           \* history: what the keys of the call were, in order

calVars == <<calPc, calItem, dTmp, calibration, calRet, keysRead>>

POLYNOMIAL == 0
PIECEWISE == 1

-----------------------------------------------------------------------------
(* ConvertcJSONToValue.  A key that is missing answers 0 like one that has *)
(* a number, and leaves dTmp; a value of another type answers -1.  Strings *)
(* for numbers, which are written over dTmp as text, are left out.         *)

MISSING == <<>>
Entry(S) == {<<v>> : v \in S} \cup {MISSING}

ConvertcJSONToValue(entry) == IF entry = MISSING THEN dTmp ELSE entry[1]

-----------------------------------------------------------------------------
ZeroCalibration ==
    [CalType |-> 0, CoeffCount |-> 0, PointCount |-> 0,
     Coefficients |-> [i \in 1 .. MAX_COEFFS |-> 0],
     Points |-> [i \in 1 .. MAX_POINTS |-> [pwm |-> 0, delta_temp |-> 0]]]

CalInit ==
    /\ calPc = "idle" /\ calItem = 1
    /\ dTmp = 0 /\ keysRead = <<>>
    /\ calibration = ZeroCalibration /\ calRet = -1

\* dTmp is not initialised.
ParseAmbientCalibrationFromJson ==
    /\ calPc = "idle"
    /\ dTmp' \in CalValue
    /\ calPc' = "cal_type" /\ calItem' = 1 /\ calRet' = -1 /\ keysRead' = <<>>
    /\ UNCHANGED calibration

\* No file, no JSON or no "ambient_calibration" in it.
ParseDefaults ==
    /\ calPc = "idle"
    /\ calibration' = [calibration EXCEPT
            !.CalType = POLYNOMIAL, !.CoeffCount = 2,
            !.Coefficients = [@ EXCEPT ![1] = 0, ![2] = 1]]
    /\ calRet' = 0
    /\ calPc' = "done" /\ keysRead' = <<>>
    /\ UNCHANGED <<calItem, dTmp>>

\* A key of another type, an array or an item that is missing: what was stored
\* before stays.
FailToParse ==
    /\ calPc \notin {"idle", "done"}
    /\ calPc' = "done"
    /\ UNCHANGED <<calItem, dTmp, calibration, calRet, keysRead>>

\* The end of the arrays: of the items, of the count, or of the table.
Finished == calPc' = "done" /\ calRet' = 0
ReadOn(key) == calPc' = key /\ UNCHANGED calRet

ReadKey(S) ==
    \E entry \in Entry(S) :
        /\ dTmp' = ConvertcJSONToValue(entry)
        /\ keysRead' = Append(keysRead, entry)

ReadType ==
    /\ calPc = "cal_type"
    /\ ReadKey({POLYNOMIAL, PIECEWISE, 2})
    /\ calibration' = [calibration EXCEPT !.CalType = dTmp']
    /\ IF dTmp' \in {POLYNOMIAL, PIECEWISE} THEN ReadOn("count") ELSE Finished
    /\ UNCHANGED calItem

\* A count is stored before the array is looked for, and an array that is
\* missing fails the parse (FailToParse) also where no item would be read.
ReadCount ==
    /\ calPc = "count"
    /\ ReadKey(CalCount)
    /\ ReadOn("array")
    /\ calibration' = IF calibration.CalType = POLYNOMIAL
                      THEN [calibration EXCEPT !.CoeffCount = dTmp']
                      ELSE [calibration EXCEPT !.PointCount = dTmp']
    /\ UNCHANGED calItem

FindArray ==
    /\ calPc = "array"
    /\ IF calibration.CalType = POLYNOMIAL
       THEN IF calibration.CoeffCount = 0 THEN Finished ELSE ReadOn("coefficient")
       ELSE IF calibration.PointCount = 0 THEN Finished ELSE ReadOn("pwm")
    /\ UNCHANGED <<calItem, dTmp, calibration, keysRead>>

\* A coefficient is an item itself and does not go through dTmp.
ReadCoefficient ==
    /\ calPc = "coefficient"
    /\ \E v \in CalValue :
         calibration' = [calibration EXCEPT !.Coefficients[calItem] = v]
    /\ calItem' = calItem + 1
    /\ IF calItem < calibration.CoeffCount /\ calItem < MAX_COEFFS
       THEN ReadOn("coefficient") ELSE Finished
    /\ UNCHANGED <<dTmp, keysRead>>

ReadPwm ==
    /\ calPc = "pwm"
    /\ ReadKey(CalValue)
    /\ calibration' = [calibration EXCEPT !.Points[calItem].pwm = dTmp']
    /\ ReadOn("delta_temp")
    /\ UNCHANGED calItem

ReadDeltaTemp ==
    /\ calPc = "delta_temp"
    /\ ReadKey(CalValue)
    /\ calibration' = [calibration EXCEPT !.Points[calItem].delta_temp = dTmp']
    /\ calItem' = calItem + 1
    /\ IF calItem < calibration.PointCount /\ calItem < MAX_POINTS
       THEN ReadOn("pwm") ELSE Finished

CalNext ==
    \/ ParseAmbientCalibrationFromJson \/ ParseDefaults \/ FailToParse
    \/ ReadType \/ ReadCount \/ FindArray
    \/ ReadCoefficient \/ ReadPwm \/ ReadDeltaTemp
CalSpec == CalInit /\ [][CalNext]_calVars

-----------------------------------------------------------------------------
(* FSCGetAmbientTemperature, and the curve of FSCGetPWMValue_Polynomial:   *)
(* points are looked at two by two, and the first two that enclose x       *)
(* count.  The result is a fraction.                                       *)

Fraction(n, d) == [Num |-> n, Den |-> d]

\* Mutation: a point belongs to neither of its segments.
EnclosesStrictly(xs, i, x) == xs[i] < x /\ x < xs[i + 1]

Encloses(xs, i, x) == xs[i] <= x /\ x <= xs[i + 1]

FirstSegment(xs, x) ==
    {i \in 1 .. Len(xs) - 1 :
        /\ Encloses(xs, i, x)
        /\ \A j \in 1 .. i - 1 : ~Encloses(xs, j, x)}

Interpolated(xs, ys, x) ==
    LET n == Len(xs)
    IN  IF n < 2 THEN {Fraction(0, 1)}
        ELSE IF x <= xs[1] THEN {Fraction(ys[1], 1)}
        ELSE IF x >= xs[n] THEN {Fraction(ys[n], 1)}
        ELSE {Fraction(ys[i] * (xs[i + 1] - xs[i]) + (ys[i + 1] - ys[i]) * (x - xs[i]),
                       xs[i + 1] - xs[i]) : i \in FirstSegment(xs, x)}

Column(points, n, f) == [i \in 1 .. n |-> points[i][f]]

Polynomial(cal, x) ==
    LET term[i \in 0 .. MAX_COEFFS] ==
            IF i = 0 THEN 0 ELSE term[i - 1] + cal.Coefficients[i] * x ^ (i - 1)
        n == IF cal.CoeffCount < MAX_COEFFS THEN cal.CoeffCount ELSE MAX_COEFFS
    IN  {Fraction(term[n], 1)}

\* What is subtracted from the inlet: one fraction, none if the loop over the
\* segments finds nothing.  More points than the table has are not modelled.
DeltaTemp(cal, x) ==
    CASE cal.CalType = POLYNOMIAL -> Polynomial(cal, x)
      [] cal.CalType = PIECEWISE /\ cal.PointCount <= MAX_POINTS ->
            Interpolated(Column(cal.Points, cal.PointCount, "pwm"),
                         Column(cal.Points, cal.PointCount, "delta_temp"), x)
      [] OTHER -> {Fraction(0, 1)}

-----------------------------------------------------------------------------
(* Properties                                                              *)

\* The counts may be beyond the tables, the items are not.
CalTypeOK ==
    /\ calPc \in {"idle", "cal_type", "count", "array", "coefficient", "pwm", "delta_temp", "done"}
    /\ calItem \in 1 .. (MAX_COEFFS + MAX_POINTS + 1)
    /\ dTmp \in CalValue \cup CalCount \cup 0 .. 2
    /\ DOMAIN calibration.Coefficients = 1 .. MAX_COEFFS
    /\ DOMAIN calibration.Points = 1 .. MAX_POINTS
    /\ calRet \in {0, -1}

\* The last key up to number k that was there.
PresentUpTo(k) == {i \in 1 .. k : keysRead[i] # MISSING}
IsLastPresent(k, v) ==
    PresentUpTo(k) # {} =>
        \E i \in PresentUpTo(k) :
            v = keysRead[i][1] /\ \A j \in PresentUpTo(k) : j <= i

\* What the comment over ConvertcJSONToValue promises, whose every caller ends the
\* parse on it: -1 for a key that is not found.  So a parse that answered 0 has
\* found all the keys that it read.
MissingKeyFails == calRet = 0 => MISSING \notin {keysRead[i] : i \in DOMAIN keysRead}

\* What it does: a key that the file leaves out does not fail the parse.  Its value
\* is that of the last key before it that was there, which may be another field's - the
\* type of the curve as a count, a PWM as a temperature.
MissingKeysRepeatTheLast ==
    /\ Len(keysRead) >= 1 => IsLastPresent(1, calibration.CalType)
    /\ Len(keysRead) >= 2 /\ calibration.CalType = PIECEWISE =>
          IsLastPresent(2, calibration.PointCount)
    /\ \A i \in 1 .. MAX_POINTS :
          /\ Len(keysRead) >= 2 * i + 1 =>
                 IsLastPresent(2 * i + 1, calibration.Points[i].pwm)
          /\ Len(keysRead) >= 2 * i + 2 =>
                 IsLastPresent(2 * i + 2, calibration.Points[i].delta_temp)

\* Whatever points a file has, in whatever order and however many at one place,
\* and also when the parse stopped among them: there is exactly one result, the two
\* points that it is taken from differ in PWM (the code divides by the difference
\* without a check), and it lies between the least and the greatest of the points.
InterpolationIsBetweenPoints ==
    calibration.CalType = PIECEWISE /\ calibration.PointCount \in 2 .. MAX_POINTS =>
        \A x \in CalValue : \E f \in DeltaTemp(calibration, x) :
            LET ys == Column(calibration.Points, calibration.PointCount, "delta_temp")
            IN  /\ DeltaTemp(calibration, x) = {f}
                /\ f.Den > 0
                /\ \E i \in DOMAIN ys : ys[i] * f.Den <= f.Num
                /\ \E i \in DOMAIN ys : f.Num <= ys[i] * f.Den
=============================================================================
