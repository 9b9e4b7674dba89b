---------------------------- MODULE FscCoreProofs ----------------------------
(***************************************************************************)
(* Facts about the control algorithms of FscCore, for every slot, every    *)
(* parameter and every limit.                                              *)
(***************************************************************************)
EXTENDS FscCore, TLAPS, WellFoundedInduction

\* A product of integers, for goals where no other arithmetic is wanted.
LEMMA ProductInt ==
    ASSUME NEW a \in Int, NEW b \in Int
    PROVE  a * b \in Int
OBVIOUS

\* The two clamps keep a value between the floor and the higher of the limits,
\* and at the floor or above even when the limits are crossed.
LEMMA ClampBounds ==
    ASSUME NEW x \in Int, NEW lo \in Int, NEW hi \in Int
    PROVE  /\ Clamp(x, lo, hi) \in Int
           /\ Clamp(x, lo, hi) >= lo
           /\ Clamp(x, lo, hi) <= hi \/ Clamp(x, lo, hi) = lo
BY DEF Clamp, AtLeast, AtMost

\* Whole percents survive the rounding of round() and the cast.
LEMMA RoundBounds ==
    ASSUME NEW x \in Nat, NEW lo \in Nat, NEW hi \in Nat
    PROVE  /\ Round(x) \in Nat
           /\ x >= lo * SCALE => Round(x) >= lo
           /\ x <= hi * SCALE => Round(x) <= hi
BY DEF Round, SCALE

\* Whole percents survive the cast of a float to an integer.
LEMMA TruncateBounds ==
    ASSUME NEW x \in Nat, NEW lo \in Nat, NEW hi \in Nat
    PROVE  /\ Truncate(x) \in Nat
           /\ x >= lo * SCALE => Truncate(x) >= lo
           /\ x <= hi * SCALE => Truncate(x) <= hi
           /\ Truncate(x) < lo => x < lo * SCALE
BY DEF Truncate, SCALE

\* A cast gives a whole number for a negative value too.
LEMMA TruncateInt ==
    ASSUME NEW x \in Int
    PROVE  Truncate(x) \in Int
BY DEF Truncate, SCALE

\* What the PID law stores, as one operator: a slot with a new LastPWM,
\* LastLastTemp, LastTemp and CurrentPWM.
Updated(s, p, a, b, q) ==
    [s EXCEPT !.LastPWM = p, !.LastLastTemp = a, !.LastTemp = b, !.CurrentPWM = q]

\* A slot that the PID law has stored in is a slot, with the values stored.
LEMMA UpdatedSlot ==
    ASSUME NEW s \in Slot,
           NEW p \in ScaledPWM, NEW a \in Int, NEW b \in Int, NEW q \in INT8U
    PROVE  /\ Updated(s, p, a, b, q) \in Slot
           /\ Updated(s, p, a, b, q).Present = s.Present
           /\ Updated(s, p, a, b, q).LastPWM = p
           /\ Updated(s, p, a, b, q).CurrentPWM = q
<1> DEFINE s1 == [s EXCEPT !.LastPWM = p]
           s2 == [s1 EXCEPT !.LastLastTemp = a]
           s3 == [s2 EXCEPT !.LastTemp = b]
           s4 == [s3 EXCEPT !.CurrentPWM = q]
<1>1. s1 \in Slot /\ s1.Present = s.Present /\ s1.LastPWM = p
  BY DEF Slot
<1> HIDE DEF s1
<1>2. s2 \in Slot /\ s2.Present = s.Present /\ s2.LastPWM = p
  BY <1>1 DEF Slot
<1> HIDE DEF s2
<1>3. s3 \in Slot /\ s3.Present = s.Present /\ s3.LastPWM = p
  BY <1>2 DEF Slot
<1> HIDE DEF s3
<1>4. /\ s4 \in Slot /\ s4.Present = s.Present
      /\ s4.LastPWM = p /\ s4.CurrentPWM = q
  BY <1>3 DEF Slot
<1> QED BY <1>4, Zenon DEF s1, s2, s3, Updated

\* Membership in the scaled range, without its interval.
LEMMA ScaledPWMRange ==
    /\ MaxScaledPWM \in Nat
    /\ \A x : x \in ScaledPWM <=> x \in Nat /\ x <= MaxScaledPWM
<1>1. MaxScaledPWM \in Nat
  BY DEF MaxScaledPWM, SCALE
<1>2. \A x : x \in 0 .. MaxScaledPWM <=> x \in Nat /\ x <= MaxScaledPWM
  BY <1>1
<1> QED BY <1>1, <1>2 DEF ScaledPWM

\* The two clamps between scaled limits.
LEMMA ScaledLimits ==
    ASSUME NEW min \in INT8U
    PROVE  /\ min \in Nat /\ min <= 255
           /\ min * SCALE \in Nat /\ min * SCALE <= MaxScaledPWM
BY DEF INT8U, SCALE, MaxScaledPWM

\* Facts about the slot that the PID law returns: it keeps the reading and the
\* presence, shifts the history, and its demand lies between the limits.
LEMMA PidStep ==
    ASSUME NEW s \in Slot, NEW par \in PidParam, NEW min \in INT8U, NEW max \in INT8U
    PROVE  LET r == FSCGetPWMValue_PID(s, par, min, max)
           IN  /\ r \in Slot
               /\ r.Present = s.Present
               /\ r.CurrentPWM >= min
               /\ r.LastPWM <= max * SCALE \/ r.LastPWM = min * SCALE
               /\ r.CurrentPWM <= max \/ r.CurrentPWM = min
<1> DEFINE out == PidOutput(s, par)
           lo == min * SCALE
           hi == max * SCALE
           pwm == Clamp(out, lo, hi)
<1>1. out \in Int
  <2> DEFINE p == s.CurrentTemp - s.LastTemp
             i == s.CurrentTemp - par.SetPoint
             d == s.CurrentTemp - 2 * s.LastTemp + s.LastLastTemp
  <2>1. p \in Int /\ i \in Int /\ d \in Int
    BY DEF Slot, PidParam
  <2>2. par.Kp \in Int /\ par.Ki \in Int /\ par.Kd \in Int
    BY DEF PidParam
  <2>3. s.LastPWM \in Int
    <3>1. s.LastPWM \in ScaledPWM
      BY DEF Slot
    <3> QED BY <3>1, ScaledPWMRange
  <2>4. out = s.LastPWM + par.Kp * p + par.Ki * i + par.Kd * d
    BY DEF PidOutput
  <2> HIDE DEF p, i, d
  <2>5. par.Kp * p \in Int /\ par.Ki * i \in Int /\ par.Kd * d \in Int
    BY <2>1, <2>2, ProductInt
  <2> HIDE DEF out
  <2> QED BY <2>3, <2>4, <2>5
<1>2. /\ lo \in Nat /\ lo <= MaxScaledPWM
      /\ hi \in Nat /\ hi <= MaxScaledPWM
      /\ min \in Nat /\ max \in Nat /\ min <= 255 /\ max <= 255
  BY ScaledLimits
<1> HIDE DEF out, lo, hi
<1>3. /\ pwm \in Int
      /\ pwm >= lo
      /\ pwm <= hi \/ pwm = lo
  <2>1. lo \in Int /\ hi \in Int
    BY <1>2
  <2> QED BY ONLY <1>1, <2>1, ClampBounds
<1> HIDE DEF pwm
<1>4. pwm \in Nat /\ pwm <= MaxScaledPWM
  BY <1>2, <1>3, ScaledPWMRange
<1>5. /\ Round(pwm) \in Nat
      /\ Round(pwm) >= min
      /\ Round(pwm) <= max \/ Round(pwm) <= min
  BY <1>2, <1>3, <1>4, RoundBounds DEF lo, hi
<1>6. Round(pwm) \in INT8U
  BY <1>2, <1>5 DEF INT8U
<1> DEFINE r == FSCGetPWMValue_PID(s, par, min, max)
<1>7. r = Updated(s, pwm, s.LastTemp, s.CurrentTemp, Round(pwm))
  BY Zenon DEF FSCGetPWMValue_PID, pwm, lo, hi, out, Updated
<1> HIDE DEF r
<1>8. /\ pwm \in ScaledPWM
      /\ s.LastTemp \in Int /\ s.CurrentTemp \in Int
  BY <1>4, ScaledPWMRange DEF Slot
<1>9. /\ r \in Slot /\ r.Present = s.Present
      /\ r.LastPWM = pwm /\ r.CurrentPWM = Round(pwm)
  BY <1>6, <1>7, <1>8, UpdatedSlot
<1>10. /\ r.CurrentPWM >= min
       /\ r.LastPWM <= max * SCALE \/ r.LastPWM = min * SCALE
       /\ r.CurrentPWM <= max \/ r.CurrentPWM = min
  BY <1>2, <1>3, <1>5, <1>9 DEF lo, hi
<1> QED
  BY <1>9, <1>10 DEF r

-----------------------------------------------------------------------------
(* The polynomial and piecewise curves.                                    *)

\* A non-empty set of naturals has a smallest element.
LEMMA SmallestNat ==
    ASSUME NEW T, T \subseteq Nat, T # {}
    PROVE  \E m \in T : \A n \in T : m <= n
<1> DEFINE R == {ss \in Nat \X Nat : ss[1] < ss[2]}
<1>1. IsWellFoundedOn(OpToRel(<, Nat), Nat)
  BY NatLessThanWellFounded, Zenon
<1>2. IsWellFoundedOn(R, Nat)
  BY <1>1, Zenon DEF OpToRel
<1>3. \A n, m \in Nat : n < m => <<n, m>> \in R
  OBVIOUS
<1> HIDE DEF R
<1>4. PICK m \in T : \A n \in T : ~ (<<n, m>> \in R)
  BY <1>2, WFMin, Zenon
<1>5. ASSUME NEW n \in T
      PROVE  m <= n
  <2>1. n \in Nat /\ m \in Nat
    OBVIOUS
  <2>2. ~ (n < m)
    BY <1>3, <1>4, <2>1, Zenon
  <2> QED BY <2>1, <2>2
<1> QED BY <1>5

\* A quotient by a positive number: at least as large for a larger dividend, and
\* at most b when the dividend is at most b times the divisor.
LEMMA QuotientGrows ==
    ASSUME NEW r \in Nat, r > 0, NEW a \in Nat, NEW b \in Nat, a <= b
    PROVE  a \div r \in Nat /\ a \div r <= b \div r
<1>1. \A x \in Nat : /\ x \div r \in Nat
                     /\ (x \div r) * r <= x /\ x < (x \div r) * r + r
  OBVIOUS
<1> DEFINE p == a \div r
           q == b \div r
<1>2. p \in Nat /\ p * r <= a /\ q \in Nat /\ b < q * r + r
  BY <1>1
<1> HIDE DEF p, q
<1>3. p <= q
  <2> SUFFICES ASSUME q + 1 <= p PROVE FALSE
    BY <1>2
  <2>1. PICK e \in Nat : p = (q + 1) + e
    <3>1. p - (q + 1) \in Nat /\ p = (q + 1) + (p - (q + 1))
      BY <1>2
    <3> QED BY <3>1
  <2>2. p * r = q * r + r + e * r /\ e * r \in Nat /\ q * r \in Nat
    BY <1>2, <2>1
  <2>3. p * r \in Nat
    BY <1>2
  <2> QED BY <1>2, <2>2, <2>3
<1> QED BY <1>2, <1>3 DEF p, q

\* What an INT16S holds, it keeps; and it always holds a number of 16 bits.
LEMMA INT16SKeeps ==
    ASSUME NEW x \in Int
    PROVE  /\ INT16S(x) \in Int /\ INT16S(x) >= -32768 /\ INT16S(x) <= 32767
           /\ x >= -32768 /\ x <= 32767 => INT16S(x) = x
           /\ x < -32768 /\ x >= -65536 => INT16S(x) = x + 65536
<1>1. \A n \in Int : /\ n % 65536 \in Int /\ 0 <= n % 65536 /\ n % 65536 <= 65535
                     /\ 0 <= n /\ n <= 65535 => n % 65536 = n
                     /\ -65536 <= n /\ n < 0 => n % 65536 = n + 65536
  OBVIOUS
<1> DEFINE y == x + 32768
           z == y % 65536
<1>2. y \in Int
  OBVIOUS
<1>3. INT16S(x) = z - 32768
  BY DEF INT16S
<1> HIDE DEF y
<1>4. /\ z \in Int /\ 0 <= z /\ z <= 65535
      /\ 0 <= y /\ y <= 65535 => z = y
      /\ -65536 <= y /\ y < 0 => z = y + 65536
  BY <1>1, <1>2
<1> HIDE DEF z
<1> QED BY <1>3, <1>4 DEF y

\* The cast of a float gives 16 bits too, and drops no more than the fraction of
\* a value that they hold.
LEMMA FloatToINT16SKeeps ==
    ASSUME NEW x \in Int
    PROVE  /\ FloatToINT16S(x) \in Int
           /\ FloatToINT16S(x) >= -32768 /\ FloatToINT16S(x) <= 32767
           /\ x >= 0 /\ x < 32768 * SCALE => FloatToINT16S(x) = Truncate(x)
<1> DEFINE y == Truncate(x)
           z == Clamp(y, -INT32_MAX - 1, INT32_MAX)
<1>1. y \in Int
  BY TruncateInt
<1>2. z \in Int /\ (y >= 0 /\ y <= 32767 => z = y)
  <2> HIDE DEF y
  <2> QED BY <1>1 DEF Clamp, AtLeast, AtMost, INT32_MAX
<1>3. FloatToINT16S(x) = INT16S(z)
  BY Zenon DEF FloatToINT16S
<1>4. x >= 0 /\ x < 32768 * SCALE => y >= 0 /\ y <= 32767
  BY DEF Truncate, SCALE
<1> HIDE DEF y, z
<1>5. /\ INT16S(z) \in Int /\ INT16S(z) >= -32768 /\ INT16S(z) <= 32767
      /\ z >= 0 /\ z <= 32767 => INT16S(z) = z
  BY <1>2, INT16SKeeps
<1> QED BY <1>1, <1>2, <1>3, <1>4, <1>5 DEF y

\* The numbers that are bytes.
LEMMA ByteRange == \A x : x \in INT8U <=> x \in Nat /\ x <= 255
BY DEF INT8U

\* The points of a table are points of bytes.
LEMMA PointInTable ==
    ASSUME NEW pts \in CurveTable, NEW i \in 1 .. MAX_PIECEWISE_POINTS
    PROVE  /\ pts[i] \in CurvePoint
           /\ pts[i].temp \in Nat /\ pts[i].temp <= 255
           /\ pts[i].pwm \in Nat /\ pts[i].pwm <= 255
<1>1. pts[i] \in CurvePoint
  BY DEF CurveTable
<1>2. pts[i].temp \in INT8U /\ pts[i].pwm \in INT8U
  BY <1>1 DEF CurvePoint
<1> QED BY <1>1, <1>2, ByteRange

\* Above the first point and below the last one the loop over the segments finds
\* one, sorted or not, and the first one it finds begins below the temperature:
\* its two temperatures differ, and the division by their difference is defined.
LEMMA FirstSegmentRises ==
    ASSUME NEW pts \in CurveTable, NEW n \in 2 .. MAX_PIECEWISE_POINTS, NEW t \in Int,
           ~ (t <= pts[1].temp), ~ (t >= pts[n].temp)
    PROVE  /\ Segments(pts, n, t) # {}
           /\ FirstSegment(pts, n, t) \in Segments(pts, n, t)
           /\ pts[FirstSegment(pts, n, t)].temp < t
<1> DEFINE T == {j \in 1 .. n : t <= pts[j].temp}
           S == Segments(pts, n, t)
           first == FirstSegment(pts, n, t)
<1>1. /\ n \in Nat
      /\ \A i \in 1 .. n : i \in 1 .. MAX_PIECEWISE_POINTS
  BY DEF MAX_PIECEWISE_POINTS
<1>2. \A i \in 1 .. n : pts[i].temp \in Nat
  BY <1>1, PointInTable
<1>3. T \subseteq Nat /\ T # {}
  <2>1. n \in 1 .. n /\ pts[n].temp \in Int
    BY <1>1, <1>2
  <2>2. n \in T
    BY <2>1
  <2> QED BY <1>1, <2>2
<1>4. PICK j \in T : \A m \in T : j <= m
  BY <1>3, SmallestNat
<1>5. j \in 1 .. n /\ t <= pts[j].temp /\ j # 1
  BY <1>4
<1>6. j - 1 \in 1 .. n - 1 /\ j - 1 \in 1 .. n /\ (j - 1) + 1 = j
  BY <1>1, <1>5
<1>7. \A i \in 1 .. n : i <= j - 1 => pts[i].temp < t
  <2> SUFFICES ASSUME NEW i \in 1 .. n, i <= j - 1
               PROVE  pts[i].temp < t
    OBVIOUS
  <2>1. ~ (i \in T)
    BY <1>4, <1>5
  <2>2. pts[i].temp \in Int
    BY <1>2
  <2> QED BY <2>1, <2>2
<1>8. j - 1 \in S
  BY <1>2, <1>5, <1>6, <1>7 DEF Segments
<1>9. S \subseteq Nat /\ \A i \in S : i \in 1 .. n
  BY <1>1 DEF Segments
<1>10. \E i \in S : \A m \in S : i <= m
  BY <1>8, <1>9, SmallestNat
<1>11. first \in S /\ \A m \in S : first <= m
  BY <1>10, Zenon DEF FirstSegment
<1>12. first \in 1 .. n /\ first <= j - 1
  BY <1>8, <1>9, <1>11
<1>13. pts[first].temp < t
  BY <1>7, <1>12
<1> QED BY <1>8, <1>11, <1>13, Zenon

\* A segment's points are in the table, and the temperature between them.
LEMMA SegmentInTable ==
    ASSUME NEW pts \in CurveTable, NEW n \in 1 .. MAX_PIECEWISE_POINTS, NEW t \in Int,
           NEW i \in Segments(pts, n, t)
    PROVE  /\ i \in 1 .. n - 1 /\ i \in 1 .. n /\ i + 1 \in 1 .. n
           /\ pts[i] \in CurvePoint /\ pts[i + 1] \in CurvePoint
           /\ pts[i].temp <= t /\ t <= pts[i + 1].temp
<1>1. i \in 1 .. n - 1 /\ pts[i].temp <= t /\ t <= pts[i + 1].temp
  BY DEF Segments
<1>2. /\ i \in 1 .. n /\ i + 1 \in 1 .. n
      /\ i \in 1 .. MAX_PIECEWISE_POINTS /\ i + 1 \in 1 .. MAX_PIECEWISE_POINTS
  BY <1>1 DEF MAX_PIECEWISE_POINTS
<1>3. pts[i] \in CurvePoint /\ pts[i + 1] \in CurvePoint
  BY <1>2, PointInTable
<1> QED BY <1>1, <1>2, <1>3

\* The quotient of a part of a product: of d parts of run, x of them.
LEMMA PartOfProduct ==
    ASSUME NEW d \in Nat, NEW x \in Nat, NEW run \in Nat, run > 0, x <= run
    PROVE  /\ d * x \in Nat
           /\ (d * x) \div run \in Nat
           /\ (d * x) \div run <= d
<1>1. PICK e \in Nat : run = x + e
  <2>1. run - x \in Nat /\ run = x + (run - x)
    OBVIOUS
  <2> QED BY <2>1
<1>2. d * run = d * x + d * e /\ d * x \in Nat /\ d * e \in Nat /\ d * run \in Nat
  BY <1>1
<1>3. (d * run) \div run = d
  <2>1. \A p \in Nat, q \in Nat \ {0} : (p * q) \div q = p
    OBVIOUS
  <2> QED BY <2>1
<1> DEFINE a == d * x
           b == d * run
<1>4. a \in Nat /\ b \in Nat /\ a <= b
  BY <1>2
<1> HIDE DEF a, b
<1>5. a \div run \in Nat /\ a \div run <= b \div run
  BY <1>4, QuotientGrows
<1> QED BY <1>3, <1>4, <1>5 DEF a, b

\* The interpolation between two points of different temperatures is a demand
\* between theirs, whether the demand rises from one to the other or falls.
LEMMA InterpolateByte ==
    ASSUME NEW lo \in CurvePoint, NEW hi \in CurvePoint, NEW t \in Int,
           lo.temp < t, t <= hi.temp
    PROVE  Interpolate(lo, hi, t) \in INT8U
<1> DEFINE d == hi.pwm - lo.pwm
           x == t - lo.temp
           run == hi.temp - lo.temp
           rise == d * x
           q == IF rise >= 0 THEN rise \div run ELSE -((-rise) \div run)
<1>1. /\ lo.pwm \in Nat /\ hi.pwm \in Nat /\ lo.temp \in Nat /\ hi.temp \in Nat
      /\ lo.pwm <= 255 /\ hi.pwm <= 255
  <2>1. /\ lo.pwm \in INT8U /\ hi.pwm \in INT8U
        /\ lo.temp \in INT8U /\ hi.temp \in INT8U
    BY DEF CurvePoint
  <2> QED BY <2>1, ByteRange
<1>2. /\ d \in Int /\ x \in Nat /\ x > 0 /\ run \in Nat /\ run > 0 /\ x <= run
      /\ hi.pwm = lo.pwm + d
  BY <1>1
<1>3. Interpolate(lo, hi, t) = lo.pwm + q
  BY Zenon DEF Interpolate
<1> HIDE DEF d, x, run
<1>4. CASE d >= 0
  <2>1. d \in Nat
    BY <1>2, <1>4
  <2>2. rise \in Nat /\ rise \div run \in Nat /\ rise \div run <= d
    BY <1>2, <2>1, PartOfProduct
  <2> DEFINE p == rise \div run
  <2>3. rise >= 0
    BY <2>2
  <2>4. q = p
    BY <2>3, Zenon
  <2>5. p \in Nat /\ p <= d
    BY <2>2
  <2> HIDE DEF p, q
  <2> QED BY <1>1, <1>2, <1>3, <2>4, <2>5, ByteRange
<1>5. CASE ~ (d >= 0)
  <2> DEFINE e == -d
  <2>1. e \in Nat /\ e > 0 /\ d = -e
    BY <1>2, <1>5
  <2> HIDE DEF e
  <2>2. e * x \in Nat /\ (e * x) \div run \in Nat /\ (e * x) \div run <= e
    BY <1>2, <2>1, PartOfProduct
  <2>3. rise = -(e * x) /\ e * x > 0
    BY <1>2, <2>1
  <2>4. ~ (rise >= 0) /\ -rise = e * x
    BY <2>2, <2>3
  <2> DEFINE p == (e * x) \div run
  <2>5. q = -p
    BY <2>4, Zenon
  <2>6. p \in Nat /\ p <= e
    BY <2>2
  <2> HIDE DEF p, q, rise
  <2> QED BY <1>1, <1>2, <1>3, <2>1, <2>5, <2>6, ByteRange
<1> QED BY <1>4, <1>5

\* A last PWM that a slot can hold is whole percents of a byte after the cast.
LEMMA LastPWMByte ==
    ASSUME NEW last \in ScaledPWM
    PROVE  last \in Nat /\ last <= 255 * SCALE /\ Truncate(last) \in INT8U
<1>1. last \in Nat /\ last <= 255 * SCALE
  BY ScaledPWMRange DEF MaxScaledPWM
<1>2. Truncate(last) \in Nat /\ Truncate(last) <= 255
  BY <1>1, TruncateBounds
<1> QED BY <1>1, <1>2, ByteRange

\* A piecewise curve has a byte as its target at every temperature, with any
\* number of points in any order.
LEMMA PiecewiseTargetByte ==
    ASSUME NEW pts \in CurveTable, NEW n \in Nat, NEW t \in Int,
           NEW last \in ScaledPWM, NEW beyond \in INT8U
    PROVE  PiecewiseTarget(pts, n, t, last, beyond) \in INT8U
<1> DEFINE target == PiecewiseTarget(pts, n, t, last, beyond)
<1>1. CASE n < 2
  BY <1>1, LastPWMByte, Zenon DEF PiecewiseTarget
<1>2. CASE ~ (n < 2) /\ t <= pts[1].temp
  <2>1. 1 \in 1 .. MAX_PIECEWISE_POINTS
    BY DEF MAX_PIECEWISE_POINTS
  <2>2. pts[1].pwm \in INT8U
    BY <2>1, PointInTable, ByteRange
  <2> QED BY <1>2, <2>2, Zenon DEF PiecewiseTarget
<1>3. CASE ~ (n < 2) /\ ~ (t <= pts[1].temp) /\ n > MAX_PIECEWISE_POINTS
  BY <1>3, Zenon DEF PiecewiseTarget
<1>4. CASE ~ (n < 2) /\ ~ (t <= pts[1].temp) /\ ~ (n > MAX_PIECEWISE_POINTS)
  <2>1. n \in 2 .. MAX_PIECEWISE_POINTS /\ n \in 1 .. MAX_PIECEWISE_POINTS
    BY <1>4 DEF MAX_PIECEWISE_POINTS
  <2>2. CASE t >= pts[n].temp
    <3>1. pts[n].pwm \in INT8U
      BY <2>1, PointInTable, ByteRange
    <3> QED BY <1>4, <2>2, <3>1, Zenon DEF PiecewiseTarget
  <2>3. CASE ~ (t >= pts[n].temp)
    <3> DEFINE i == FirstSegment(pts, n, t)
    <3>1. Segments(pts, n, t) # {} /\ i \in Segments(pts, n, t) /\ pts[i].temp < t
      BY <1>4, <2>1, <2>3, FirstSegmentRises
    <3>2. target = Interpolate(pts[i], pts[i + 1], t)
      BY <1>4, <2>3, <3>1, Zenon DEF PiecewiseTarget
    <3> HIDE DEF i, target
    <3>3. /\ pts[i] \in CurvePoint /\ pts[i + 1] \in CurvePoint
          /\ t <= pts[i + 1].temp
      BY <2>1, <3>1, SegmentInTable
    <3>4. target \in INT8U
      BY <3>1, <3>2, <3>3, InterpolateByte
    <3> QED BY <3>4 DEF target
  <2> QED BY <2>2, <2>3
<1> QED BY <1>1, <1>2, <1>3, <1>4

\* The fields of a curve.
LEMMA CurveParts ==
    ASSUME NEW par \in PolyParam
    PROVE  /\ par.PiecewisePoints \in CurveTable
           /\ par.PointCount \in Nat /\ par.CoeffCount \in Nat /\ par.FallingHyst \in Nat
           /\ par.MaxRisingRate \in Nat /\ par.MaxRisingRate <= 255
           /\ par.MaxFallingRate \in Nat /\ par.MaxFallingRate <= 255
           /\ \A k \in 1 .. 4 : par.Coefficients[k] \in Int
<1>1. /\ par.PiecewisePoints \in CurveTable
      /\ par.PointCount \in INT8U /\ par.CoeffCount \in INT8U /\ par.FallingHyst \in INT8U
      /\ par.MaxRisingRate \in INT8U /\ par.MaxFallingRate \in INT8U
      /\ par.Coefficients \in [1 .. MAX_POLYNOMIAL_COEFFS -> Int]
  BY DEF PolyParam
<1>2. \A k \in 1 .. 4 : par.Coefficients[k] \in Int
  BY <1>1 DEF MAX_POLYNOMIAL_COEFFS
<1> QED BY <1>1, <1>2, ByteRange

\* The value of a polynomial is a whole number of thousandths.
LEMMA PolynomialValueInt ==
    ASSUME NEW par \in PolyParam, NEW t \in Int
    PROVE  PolynomialValue(par, t) \in Int
<1> DEFINE a(k) == IF k <= par.CoeffCount THEN par.Coefficients[k] ELSE 0
           t2 == t * t
           t3 == t * t * t
<1>1. a(1) \in Int /\ a(2) \in Int /\ a(3) \in Int /\ a(4) \in Int
  BY CurveParts
<1>2. t2 \in Int /\ t3 \in Int
  BY ProductInt
<1>3. PolynomialValue(par, t) = a(1) + a(2) * t + a(3) * t2 + a(4) * t3
  BY Zenon DEF PolynomialValue
<1> HIDE DEF a, t2, t3
<1>4. a(2) * t \in Int /\ a(3) * t2 \in Int /\ a(4) * t3 \in Int
  BY <1>1, <1>2, ProductInt
<1> QED BY <1>1, <1>3, <1>4

\* A target is a number that an INT16S holds.
Narrow(x) == x \in Int /\ x >= -32768 /\ x <= 32767

\* The target of a polynomial at any temperature.
LEMMA PolynomialTargetNarrow ==
    ASSUME NEW par \in PolyParam, NEW t \in Int
    PROVE  Narrow(PolynomialTarget(par, t))
<1>1. PolynomialValue(par, t) \in Int
  BY PolynomialValueInt
<1> DEFINE x == PolynomialValue(par, t)
<1>2. PolynomialTarget(par, t) = FloatToINT16S(x)
  BY Zenon DEF PolynomialTarget
<1> HIDE DEF x
<1> QED BY <1>1, <1>2, FloatToINT16SKeeps DEF x, Narrow

\* The parts of a slot that the algorithms calculate with.
LEMMA SlotParts ==
    ASSUME NEW s \in Slot
    PROVE  /\ s.CurrentTemp \in Int /\ s.LastTemp \in Int /\ s.LastLastTemp \in Int
           /\ s.LastPWM \in ScaledPWM
           /\ s.LastPWM \in Nat /\ s.LastPWM <= 255 * SCALE
<1>1. /\ s.CurrentTemp \in Int /\ s.LastTemp \in Int /\ s.LastLastTemp \in Int
      /\ s.LastPWM \in ScaledPWM
  BY DEF Slot
<1> QED BY <1>1, LastPWMByte

\* The target of a polynomial sensor, with and without hysteresis: 16 bits, and
\* a byte on a piecewise curve.
LEMMA HysteresisNarrow ==
    ASSUME NEW s \in Slot, NEW par \in PolyParam, NEW beyond \in INT8U
    PROVE  /\ Narrow(HysteresisTarget(s, par, beyond))
           /\ par.CurveType # FSC_AMBIENT_CAL_POLYNOMIAL =>
                 HysteresisTarget(s, par, beyond) \in INT8U
<1> DEFINE t == s.CurrentTemp
           curve == CurveTarget(s, par, beyond)
           warmer == PolynomialTarget(par, t + par.FallingHyst)
           points == PiecewiseTarget(par.PiecewisePoints, par.PointCount, t,
                                     s.LastPWM, beyond)
<1>1. t \in Int /\ t + par.FallingHyst \in Int
  BY SlotParts, CurveParts
<1>2. points \in INT8U
  BY <1>1, SlotParts, CurveParts, PiecewiseTargetByte
<1>3. Narrow(PolynomialTarget(par, t)) /\ Narrow(warmer)
  BY <1>1, PolynomialTargetNarrow
<1>4. \A x \in INT8U : Narrow(x)
  BY DEF INT8U, Narrow
<1> HIDE DEF points
<1>5. curve = IF par.CurveType = FSC_AMBIENT_CAL_POLYNOMIAL THEN PolynomialTarget(par, t)
              ELSE points
  BY Zenon DEF CurveTarget, points
<1>6. Narrow(curve)
  BY <1>2, <1>3, <1>4, <1>5, Zenon
<1>7. \A x, y : Narrow(x) /\ Narrow(y) => Narrow(AtLeast(x, y))
  BY Zenon DEF AtLeast
<1>8. HysteresisTarget(s, par, beyond) =
        IF t < s.LastTemp /\ par.CurveType = FSC_AMBIENT_CAL_POLYNOMIAL
        THEN AtLeast(curve, warmer) ELSE curve
  BY Zenon DEF HysteresisTarget
<1> HIDE DEF curve, warmer, t
<1> QED BY <1>2, <1>3, <1>5, <1>6, <1>7, <1>8, Zenon

\* The rate-limited form of a whole target is a whole number.
LEMMA RateLimitInt ==
    ASSUME NEW target \in Int, NEW last \in Nat, NEW par \in PolyParam
    PROVE  RateLimited(target, last, par) \in Int
<1> DEFINE diff == Narrowed(target, last)
           change == IF diff < 0 THEN INT16S(-diff) ELSE diff
           rate == IF diff > 0 THEN par.MaxRisingRate
                   ELSE IF diff < 0 THEN par.MaxFallingRate ELSE 0
<1>1. RateLimited(target, last, par) =
        IF change <= rate THEN target
        ELSE IF target * SCALE > last THEN Truncate(last + rate * SCALE)
        ELSE Truncate(last - rate * SCALE)
  BY Zenon DEF RateLimited
<1>2. rate \in Nat
  <2>1. par.MaxRisingRate \in Nat /\ par.MaxFallingRate \in Nat /\ 0 \in Nat
    BY CurveParts
  <2> QED BY <2>1, Zenon
<1> HIDE DEF diff, change, rate
<1>3. last + rate * SCALE \in Int /\ last - rate * SCALE \in Int
  BY <1>2 DEF SCALE
<1>4. Truncate(last + rate * SCALE) \in Int /\ Truncate(last - rate * SCALE) \in Int
  BY <1>3, TruncateInt
<1> QED BY <1>1, <1>4, Zenon

\* And so is what the polynomial algorithm clamps.
LEMMA TargetInt ==
    ASSUME NEW s \in Slot, NEW par \in PolyParam, NEW beyond \in INT8U
    PROVE  RateLimited(HysteresisTarget(s, par, beyond), s.LastPWM, par) \in Int
<1>1. HysteresisTarget(s, par, beyond) \in Int
  BY HysteresisNarrow DEF Narrow
<1> QED BY <1>1, SlotParts, RateLimitInt

\* Facts about the slot that the polynomial algorithm returns: either the
\* reading is dirty and LastPWM is repeated, or the demand lies between the
\* limits and LastPWM is the demand.
LEMMA PolynomialStep ==
    ASSUME NEW s \in Slot, NEW par \in PolyParam, NEW min \in INT8U, NEW max \in INT8U,
           NEW beyond \in INT8U
    PROVE  LET r == FSCGetPWMValue_Polynomial(s, par, min, max, beyond)
           IN  /\ r \in Slot
               /\ r.Present = s.Present
               /\ \/ /\ IsDirtyReading(s)
                     /\ r.CurrentTemp = s.CurrentTemp
                     /\ r.LastPWM = s.LastPWM
                     /\ r.CurrentPWM = Truncate(s.LastPWM)
                  \/ /\ r.LastPWM = r.CurrentPWM * SCALE
                     /\ r.CurrentPWM >= min
                     /\ r.CurrentPWM <= max \/ r.CurrentPWM = min
<1> DEFINE r == FSCGetPWMValue_Polynomial(s, par, min, max, beyond)
<1>1. /\ s.CurrentTemp \in Int
      /\ s.LastPWM \in ScaledPWM /\ s.LastPWM \in Nat
  <2>1. s.CurrentTemp \in Int /\ s.LastPWM \in ScaledPWM
    BY DEF Slot
  <2> QED BY <2>1, ScaledPWMRange
<1>2. CASE IsDirtyReading(s)
  <2> DEFINE q == Truncate(s.LastPWM)
             s1 == [s EXCEPT !.LastTemp = s.CurrentTemp]
             s2 == [s1 EXCEPT !.CurrentPWM = q]
  <2>1. q \in INT8U
    <3>1. s.LastPWM <= 255 * SCALE
      BY <1>1, ScaledPWMRange DEF MaxScaledPWM
    <3> HIDE DEF q
    <3>2. q \in Nat /\ q <= 255
      BY <1>1, <3>1, TruncateBounds DEF q
    <3> QED BY <3>2 DEF INT8U
  <2>2. r = s2
    BY <1>2, Zenon DEF FSCGetPWMValue_Polynomial
  <2> HIDE DEF q, r
  <2>3. /\ s1 \in Slot /\ s1.Present = s.Present /\ s1.LastPWM = s.LastPWM
        /\ s1.CurrentTemp = s.CurrentTemp
    BY <1>1 DEF Slot
  <2> HIDE DEF s1
  <2>4. /\ s2 \in Slot /\ s2.Present = s.Present
        /\ s2.CurrentTemp = s.CurrentTemp
        /\ s2.LastPWM = s.LastPWM /\ s2.CurrentPWM = q
    BY <2>1, <2>3 DEF Slot
  <2> HIDE DEF s2
  <2> QED BY <1>2, <2>2, <2>4, Zenon DEF r, q
<1>3. CASE ~IsDirtyReading(s)
  <2> DEFINE target == RateLimited(HysteresisTarget(s, par, beyond), s.LastPWM, par)
             pwm == Clamp(target, min, max)
             s1 == [s EXCEPT !.LastTemp = s.CurrentTemp]
             s2 == [s1 EXCEPT !.LastPWM = pwm * SCALE]
             s3 == [s2 EXCEPT !.CurrentPWM = pwm]
  <2>1. /\ min \in Int /\ min >= 0 /\ min <= 255
        /\ max \in Int /\ max >= 0 /\ max <= 255
    BY DEF INT8U
  <2>2. /\ pwm \in Int /\ pwm >= min
        /\ pwm <= max \/ pwm = min
    <3>1. target \in Int
      BY TargetInt
    <3> HIDE DEF target
    <3> QED BY ONLY <2>1, <3>1, ClampBounds
  <2>3. r = s3
    BY <1>3, Zenon DEF FSCGetPWMValue_Polynomial
  <2> HIDE DEF pwm, r
  <2>4. pwm \in INT8U
    BY <2>1, <2>2 DEF INT8U
  <2>5. pwm * SCALE \in ScaledPWM
    BY <2>4, ScaledLimits, ScaledPWMRange
  <2>6. s1 \in Slot /\ s1.Present = s.Present
    BY <1>1 DEF Slot
  <2> HIDE DEF s1
  <2>7. s2 \in Slot /\ s2.Present = s.Present /\ s2.LastPWM = pwm * SCALE
    BY <2>5, <2>6 DEF Slot
  <2> HIDE DEF s2
  <2>8. /\ s3 \in Slot /\ s3.Present = s.Present
        /\ s3.LastPWM = pwm * SCALE /\ s3.CurrentPWM = pwm
    BY <2>4, <2>7 DEF Slot
  <2> HIDE DEF s3
  <2>9. /\ r \in Slot /\ r.Present = s.Present
        /\ r.LastPWM = r.CurrentPWM * SCALE
        /\ r.CurrentPWM >= min
        /\ r.CurrentPWM <= max \/ r.CurrentPWM = min
    BY <2>2, <2>3, <2>8, Zenon
  <2> QED BY <2>9, Zenon DEF r
<1> QED BY <1>2, <1>3

-----------------------------------------------------------------------------
(* The rates.                                                              *)

\* A difference to a target of 16 bits in whole percents, and what it says of
\* the difference itself.
LEMMA DifferenceBounds ==
    ASSUME NEW target, Narrow(target), NEW last \in Nat, last <= 255 * SCALE
    PROVE  LET e == target * SCALE - last
               d == Truncate(e)
           IN  /\ e \in Int /\ d \in Int
               /\ d >= -33023 /\ d <= 32767
               /\ d > 0 => e > 0 /\ e < (d + 1) * SCALE
               /\ d = 0 => e < SCALE /\ e > -SCALE
               /\ d < 0 => e < 0 /\ e > (d - 1) * SCALE
<1> DEFINE e == target * SCALE - last
<1>1. e \in Int /\ e >= -33023 * SCALE /\ e <= 32767 * SCALE
  BY DEF Narrow, SCALE
<1> HIDE DEF e
<1>2. LET d == Truncate(e)
      IN  /\ d \in Int
          /\ d >= -33023 /\ d <= 32767
          /\ d > 0 => e > 0 /\ e < (d + 1) * SCALE
          /\ d = 0 => e < SCALE /\ e > -SCALE
          /\ d < 0 => e < 0 /\ e > (d - 1) * SCALE
  BY <1>1 DEF Truncate, SCALE
<1> QED BY <1>1, <1>2 DEF e

\* The narrowed difference: the difference, unless that is under -32768.
LEMMA NarrowedDifference ==
    ASSUME NEW target, Narrow(target), NEW last \in Nat, last <= 255 * SCALE
    PROVE  LET d == Truncate(target * SCALE - last)
               n == Narrowed(target, last)
               c == IF n < 0 THEN INT16S(-n) ELSE n
           IN  /\ n \in Int /\ c \in Int
               /\ d >= -32767 => n = d /\ c = Abs(d)
               /\ d = -32768 => n < 0 /\ c < 0
               /\ d < -32768 => n > 255 /\ c = n
<1> DEFINE d == Truncate(target * SCALE - last)
           n == Narrowed(target, last)
           c == IF n < 0 THEN INT16S(-n) ELSE n
<1>1. d \in Int /\ d >= -33023 /\ d <= 32767
  BY DifferenceBounds
<1>2. n = INT16S(d)
  BY Zenon DEF Narrowed
<1> HIDE DEF d, n
<1>3. /\ n \in Int
      /\ d >= -32768 => n = d
      /\ d < -32768 => n = d + 65536
  BY <1>1, <1>2, INT16SKeeps
<1>4. /\ -n \in Int /\ INT16S(-n) \in Int
      /\ -n <= 32767 /\ -n >= -32768 => INT16S(-n) = -n
  BY <1>3, INT16SKeeps
<1>5. INT16S(32768) = -32768
  BY DEF INT16S
<1>6. c \in Int
  BY <1>3, <1>4
<1>7. d >= -32767 => n = d /\ c = Abs(d)
  BY <1>1, <1>3, <1>4 DEF Abs
<1>8. d = -32768 => n < 0 /\ c < 0
  <2>1. d = -32768 => n = -32768
    BY <1>1, <1>3
  <2>2. \A v \in Int : v = -32768 => v < 0 /\ INT16S(-v) < 0
    BY <1>5 DEF INT16S
  <2>3. n = -32768 => n < 0 /\ INT16S(-n) < 0
    BY <1>3, <2>2
  <2> QED BY <2>1, <2>3
<1>9. d < -32768 => n > 255 /\ c = n
  BY <1>1, <1>3
<1> QED BY <1>3, <1>6, <1>7, <1>8, <1>9 DEF d, n

\* The rate limits bound a rise, and a fall if the difference to the target is
\* one that INT16S and its negation hold; truncation adds less than a percent.
LEMMA RateLimitBounds ==
    ASSUME NEW target, Narrow(target), NEW last \in Nat, last <= 255 * SCALE,
           NEW par \in PolyParam
    PROVE  LET x == RateLimited(target, last, par)
           IN  /\ x * SCALE - last < (par.MaxRisingRate + 1) * SCALE
               /\ \/ x * SCALE - last > -((par.MaxFallingRate + 1) * SCALE)
                  \/ Truncate(target * SCALE - last) < -32767
<1> DEFINE up == par.MaxRisingRate
           down == par.MaxFallingRate
           e == target * SCALE - last
           d == Truncate(e)
           n == Narrowed(target, last)
           c == IF n < 0 THEN INT16S(-n) ELSE n
           rate == IF n > 0 THEN up ELSE IF n < 0 THEN down ELSE 0
           x == RateLimited(target, last, par)
           goal(y) == /\ y * SCALE - last < (up + 1) * SCALE
                      /\ y * SCALE - last > -((down + 1) * SCALE) \/ d < -32767
<1>1. up \in Nat /\ up <= 255 /\ down \in Nat /\ down <= 255
  BY CurveParts
<1>2. /\ e \in Int /\ d \in Int
      /\ d >= -33023 /\ d <= 32767
      /\ d > 0 => e > 0 /\ e < (d + 1) * SCALE
      /\ d = 0 => e < SCALE /\ e > -SCALE
      /\ d < 0 => e < 0 /\ e > (d - 1) * SCALE
  BY DifferenceBounds
<1>3. /\ n \in Int /\ c \in Int
      /\ d >= -32767 => n = d /\ c = Abs(d)
      /\ d = -32768 => n < 0 /\ c < 0
      /\ d < -32768 => n > 255 /\ c = n
  BY NarrowedDifference
<1>4. x = IF c <= rate THEN target
          ELSE IF target * SCALE > last THEN Truncate(last + rate * SCALE)
          ELSE Truncate(last - rate * SCALE)
  BY Zenon DEF RateLimited
<1>5. target * SCALE > last <=> e > 0
  BY DEF Narrow, SCALE
<1> HIDE DEF up, down, n, c, d, x
<1>6. rate \in Nat /\ (n > 0 => rate = up) /\ (n < 0 => rate = down) /\ (n = 0 => rate = 0)
  BY <1>1, <1>3
<1> HIDE DEF rate
<1>7. \A r \in Nat :
        /\ Truncate(last + r * SCALE) * SCALE - last <= r * SCALE
        /\ Truncate(last + r * SCALE) * SCALE - last > -SCALE
        /\ Truncate(last - r * SCALE) * SCALE - last < SCALE
        /\ Truncate(last - r * SCALE) * SCALE - last > -((r + 1) * SCALE)
  <2> SUFFICES ASSUME NEW r \in Nat
               PROVE  /\ Truncate(last + r * SCALE) * SCALE - last <= r * SCALE
                      /\ Truncate(last + r * SCALE) * SCALE - last > -SCALE
                      /\ Truncate(last - r * SCALE) * SCALE - last < SCALE
                      /\ Truncate(last - r * SCALE) * SCALE - last > -((r + 1) * SCALE)
    OBVIOUS
  <2>1. \A v \in Int : /\ v >= 0 => /\ Truncate(v) * SCALE <= v
                                    /\ Truncate(v) * SCALE > v - SCALE
                       /\ v < 0 => /\ Truncate(v) * SCALE >= v
                                   /\ Truncate(v) * SCALE < v + SCALE
                                   /\ Truncate(v) * SCALE <= 0
                       /\ Truncate(v) \in Int
    BY DEF Truncate, SCALE
  <2> DEFINE a == last + r * SCALE
             b == last - r * SCALE
  <2>2. a \in Int /\ a >= 0 /\ b \in Int
    BY DEF SCALE
  <2>3. /\ Truncate(a) * SCALE <= a /\ Truncate(a) * SCALE > a - SCALE
        /\ Truncate(a) \in Int /\ Truncate(b) \in Int
        /\ b >= 0 => /\ Truncate(b) * SCALE <= b
                     /\ Truncate(b) * SCALE > b - SCALE
        /\ b < 0 => /\ Truncate(b) * SCALE >= b
                    /\ Truncate(b) * SCALE < b + SCALE
                    /\ Truncate(b) * SCALE <= 0
    BY <2>1, <2>2
  <2> DEFINE ta == Truncate(a)
             tb == Truncate(b)
  <2>4. /\ ta \in Int /\ tb \in Int
        /\ ta * SCALE - last <= r * SCALE /\ ta * SCALE - last > -SCALE
        /\ tb * SCALE - last < SCALE /\ tb * SCALE - last > -((r + 1) * SCALE)
    <3> HIDE DEF ta, tb
    <3>1. /\ ta * SCALE <= a /\ ta * SCALE > a - SCALE
          /\ ta \in Int /\ tb \in Int
          /\ b >= 0 => tb * SCALE <= b /\ tb * SCALE > b - SCALE
          /\ b < 0 => tb * SCALE >= b /\ tb * SCALE < b + SCALE /\ tb * SCALE <= 0
      BY <2>3 DEF ta, tb
    <3> QED BY <3>1 DEF SCALE
  <2> QED BY <2>4
<1>8. ASSUME x = target, d >= -32767, c <= rate
      PROVE  goal(x)
  <2>1. target * SCALE - last = e
    OBVIOUS
  <2>2. d <= up /\ d >= -down
    BY <1>1, <1>2, <1>3, <1>6, <1>8 DEF Abs
  <2> HIDE DEF e
  <2>3. e < (up + 1) * SCALE /\ e > -((down + 1) * SCALE)
    BY <1>1, <1>2, <2>2 DEF SCALE
  <2>4. goal(target)
    BY <2>1, <2>3
  <2> QED BY <1>8, <2>4
<1>9. ASSUME x = target, d < -32767
      PROVE  goal(x)
  <2>1. e < 0 /\ 0 < (up + 1) * SCALE
    BY <1>1, <1>2, <1>9 DEF SCALE
  <2>2. target * SCALE - last < (up + 1) * SCALE
    <3>1. target * SCALE - last = e
      OBVIOUS
    <3>2. (up + 1) * SCALE \in Int
      BY <1>1 DEF SCALE
    <3> HIDE DEF e
    <3> QED BY <1>2, <2>1, <3>1, <3>2
  <2> QED BY <1>9, <2>2
<1>10. ASSUME ~ (c <= rate), e > 0
       PROVE  goal(x)
  <2>1. d >= 0 /\ n = d
    BY <1>2, <1>3, <1>10
  <2>2. d # 0
    BY <1>3, <1>6, <1>10, <2>1 DEF Abs
  <2>3. rate = up
    BY <1>2, <1>6, <2>1, <2>2
  <2>4. x = Truncate(last + up * SCALE)
    BY <1>4, <1>5, <1>10, <2>3, Zenon
  <2>5. goal(x)
    <3>1. x * SCALE - last <= up * SCALE /\ x * SCALE - last > -SCALE /\ x \in Int
      <4>1. last + up * SCALE \in Int
        BY <1>1 DEF SCALE
      <4> QED BY <1>1, <1>7, <2>4, <4>1, TruncateInt
    <3> QED BY <1>1, <3>1 DEF SCALE
  <2> QED BY <2>5
<1>11. ASSUME ~ (c <= rate), ~ (e > 0)
       PROVE  goal(x)
  <2>1. x = Truncate(last - rate * SCALE)
    BY <1>4, <1>5, <1>11, Zenon
  <2>2. rate = down \/ d < -32767
    <3>1. d <= 0
      BY <1>2, <1>11
    <3>2. CASE d >= -32767
      <4>1. n = d /\ d # 0
        BY <1>2, <1>3, <1>6, <1>11, <3>2 DEF Abs
      <4> QED BY <1>2, <1>6, <3>1, <4>1
    <3> QED BY <1>2, <3>2
  <2>3. /\ x * SCALE - last < SCALE /\ x \in Int
        /\ x * SCALE - last > -((rate + 1) * SCALE)
    <3>1. last - rate * SCALE \in Int
      BY <1>6 DEF SCALE
    <3> QED BY <1>6, <1>7, <2>1, <3>1, TruncateInt
  <2>4. goal(x)
    BY <1>1, <1>6, <2>2, <2>3 DEF SCALE
  <2> QED BY <2>4
<1>12. ASSUME c <= rate
       PROVE  goal(x)
  <2>1. x = target
    BY <1>4, <1>12, Zenon
  <2>2. CASE d >= -32767
    BY <1>8, <1>12, <2>1, <2>2
  <2>3. CASE d < -32767
    BY <1>9, <2>1, <2>3
  <2> QED BY <1>2, <2>2, <2>3
<1>13. goal(x)
  <2> HIDE DEF goal
  <2> QED BY <1>10, <1>11, <1>12, Zenon
<1> QED BY <1>13 DEF x, up, down, d

\* The clamps move a value up to the floor or down to the ceiling only.
LEMMA ClampMoves ==
    ASSUME NEW x \in Int, NEW lo \in Int, NEW hi \in Int
    PROVE  /\ Clamp(x, lo, hi) <= x \/ Clamp(x, lo, hi) = lo
           /\ Clamp(x, lo, hi) >= x \/ Clamp(x, lo, hi) = AtLeast(hi, lo)
BY DEF Clamp, AtLeast, AtMost

\* The target is out of the reach of the falling limit: the difference to it is
\* one that INT16S or its negation does not hold.
TooFarToFall(s, par) ==
    /\ par.CurveType = FSC_AMBIENT_CAL_POLYNOMIAL
    /\ Truncate(HysteresisTarget(s, par, 0) * SCALE - s.LastPWM) < -32767

\* Only the target of a polynomial is that far away.
LEMMA FarTargets ==
    ASSUME NEW s \in Slot, NEW par \in PolyParam, NEW beyond \in INT8U,
           Truncate(HysteresisTarget(s, par, beyond) * SCALE - s.LastPWM) < -32767
    PROVE  TooFarToFall(s, par)
<1> DEFINE target == HysteresisTarget(s, par, beyond)
           last == s.LastPWM
<1>1. last \in Nat /\ last <= 255 * SCALE
  BY SlotParts
<1>2. CASE par.CurveType = FSC_AMBIENT_CAL_POLYNOMIAL
  <2>1. \A b : CurveTarget(s, par, b) = PolynomialTarget(par, s.CurrentTemp)
    BY <1>2 DEF CurveTarget
  <2>2. target = HysteresisTarget(s, par, 0)
    BY <2>1 DEF HysteresisTarget
  <2>3. Truncate(HysteresisTarget(s, par, 0) * SCALE - last) < -32767
    BY <2>2
  <2> QED BY <1>2, <2>3 DEF TooFarToFall
<1>3. CASE par.CurveType # FSC_AMBIENT_CAL_POLYNOMIAL
  <2>1. target \in Nat
    BY <1>3, HysteresisNarrow, ByteRange
  <2> DEFINE e == target * SCALE - last
  <2>2. Truncate(e) < -32767
    OBVIOUS
  <2> HIDE DEF target, last
  <2>3. e \in Int /\ e >= -255 * SCALE
    BY <1>1, <2>1 DEF SCALE
  <2> HIDE DEF e
  <2>4. Truncate(e) >= -255 /\ Truncate(e) \in Int
    BY <2>3 DEF Truncate, SCALE
  <2> QED BY <2>2, <2>4
<1> QED BY <1>2, <1>3

\* One pass of the polynomial algorithm moves the last PWM by less than its
\* rates and one percent, unless it has to reach a limit or falls to a target
\* that is too far away.
LEMMA PolynomialRates ==
    ASSUME NEW s \in Slot, NEW par \in PolyParam, NEW min \in INT8U, NEW max \in INT8U,
           NEW beyond \in INT8U
    PROVE  LET rise == FSCGetPWMValue_Polynomial(s, par, min, max, beyond).LastPWM
                         - s.LastPWM
           IN  /\ \/ rise < (par.MaxRisingRate + 1) * SCALE
                  \/ rise + s.LastPWM = min * SCALE
               /\ \/ rise > -((par.MaxFallingRate + 1) * SCALE)
                  \/ rise + s.LastPWM = AtLeast(max, min) * SCALE
                  \/ TooFarToFall(s, par)
<1> DEFINE r == FSCGetPWMValue_Polynomial(s, par, min, max, beyond)
           last == s.LastPWM
           up == par.MaxRisingRate
           down == par.MaxFallingRate
<1>1. /\ last \in Nat /\ last <= 255 * SCALE /\ up \in Nat /\ down \in Nat
      /\ min \in Int /\ max \in Int /\ AtLeast(max, min) \in Int
  <2>1. min \in Int /\ max \in Int
    BY DEF INT8U
  <2> QED BY <2>1, SlotParts, CurveParts DEF AtLeast
<1>2. CASE IsDirtyReading(s)
  <2>1. r.LastPWM = last
    BY <1>2 DEF FSCGetPWMValue_Polynomial, Slot
  <2> HIDE DEF r, last, up, down
  <2>2. /\ r.LastPWM - last < (up + 1) * SCALE
        /\ r.LastPWM - last > -((down + 1) * SCALE)
    BY <1>1, <2>1 DEF SCALE
  <2> QED BY <2>2, Zenon DEF r, last, up, down
<1>3. CASE ~IsDirtyReading(s)
  <2> DEFINE target == HysteresisTarget(s, par, beyond)
             x == RateLimited(target, last, par)
             pwm == Clamp(x, min, max)
             far == TooFarToFall(s, par)
             distant == Truncate(target * SCALE - last) < -32767
  <2>1. Narrow(target) /\ x \in Int
    BY TargetInt, HysteresisNarrow
  <2> HIDE DEF target
  <2>2. /\ x * SCALE - last < (up + 1) * SCALE
        /\ x * SCALE - last > -((down + 1) * SCALE) \/ distant
    BY <1>1, <2>1, RateLimitBounds
  <2>3. distant => far
    BY FarTargets DEF target
  <2>4. r.LastPWM = pwm * SCALE
    <3> DEFINE c == s.CurrentTemp
               q == pwm * SCALE
    <3>1. r = [s EXCEPT !.LastTemp = c, !.LastPWM = q, !.CurrentPWM = pwm]
      BY <1>3, Zenon DEF FSCGetPWMValue_Polynomial, target
    <3> HIDE DEF c, q, pwm, r
    <3>2. r.LastPWM = q
      BY <3>1 DEF Slot
    <3> QED BY <3>2 DEF q
  <2> HIDE DEF x, far, distant
  <2>5. /\ pwm <= x \/ pwm = min
        /\ pwm >= x \/ pwm = AtLeast(max, min)
        /\ pwm \in Int
    BY <1>1, <2>1, ClampMoves, ClampBounds
  <2> DEFINE rise == r.LastPWM - last
             hi == AtLeast(max, min)
  <2> HIDE DEF r, last, up, down, pwm, hi
  <2>6. rise = pwm * SCALE - last /\ rise + last = pwm * SCALE
    BY <1>1, <2>4, <2>5 DEF SCALE
  <2>7. rise < (up + 1) * SCALE \/ rise + last = min * SCALE
    BY <1>1, <2>1, <2>2, <2>5, <2>6 DEF SCALE
  <2>8. x * SCALE - last > -((down + 1) * SCALE)
          => rise > -((down + 1) * SCALE) \/ rise + last = hi * SCALE
    BY <1>1, <2>1, <2>5, <2>6 DEF SCALE, hi
  <2>9. rise > -((down + 1) * SCALE) \/ rise + last = hi * SCALE \/ far
    BY <2>2, <2>3, <2>8, Zenon
  <2> QED BY <2>7, <2>9, Zenon DEF r, last, up, down, hi, far
<1> QED BY <1>2, <1>3

-----------------------------------------------------------------------------
(* Hotter never asks for less.                                             *)

\* The first n points of a curve rise: their temperatures from each to the next,
\* and their demands do not fall, as in the piecewise profile that is shipped.
RisingCurve(pts, n) ==
    \A i \in 1 .. n - 1 : pts[i].temp < pts[i + 1].temp /\ pts[i].pwm <= pts[i + 1].pwm

\* Numbers that never fall from one place to the next never fall.
LEMMA StepwiseOrdered ==
    ASSUME NEW n \in Nat, NEW f \in [1 .. n -> Int],
           \A i \in 1 .. n - 1 : f[i] <= f[i + 1]
    PROVE  \A i, j \in 1 .. n : i <= j => f[i] <= f[j]
<1> SUFFICES ASSUME NEW i \in 1 .. n, NEW k \in 1 .. n, i <= k, ~ (f[i] <= f[k])
             PROVE  FALSE
  OBVIOUS
<1> DEFINE T == {j \in 1 .. n : i <= j /\ ~ (f[i] <= f[j])}
<1>1. T \subseteq Nat /\ T # {}
  OBVIOUS
<1>2. PICK j \in T : \A m \in T : j <= m
  BY <1>1, SmallestNat
<1>3. j \in 1 .. n /\ i <= j /\ ~ (f[i] <= f[j])
  BY <1>2
<1>4. f[i] \in Int /\ f[j] \in Int
  BY <1>3
<1>5. j # i
  BY <1>3, <1>4
<1>6. j - 1 \in 1 .. n - 1 /\ j - 1 \in 1 .. n /\ i <= j - 1 /\ (j - 1) + 1 = j
  BY <1>3, <1>5
<1>7. f[i] <= f[j - 1]
  BY <1>2, <1>6
<1>8. f[j - 1] \in Int /\ f[j - 1] <= f[j]
  BY <1>6
<1> QED BY <1>3, <1>4, <1>7, <1>8

\* The points of a rising curve are ordered by their temperatures and by their
\* demands.
LEMMA CurveIsOrdered ==
    ASSUME NEW pts \in CurveTable, NEW n \in 1 .. MAX_PIECEWISE_POINTS,
           RisingCurve(pts, n)
    PROVE  /\ n \in Nat
           /\ \A i \in 1 .. n : pts[i].temp \in Nat /\ pts[i].pwm \in Nat
           /\ \A i, j \in 1 .. n : i <= j => pts[i].temp <= pts[j].temp
           /\ \A i, j \in 1 .. n : i <= j => pts[i].pwm <= pts[j].pwm
<1>1. n \in Nat /\ \A i \in 1 .. n : i \in 1 .. MAX_PIECEWISE_POINTS
  BY DEF MAX_PIECEWISE_POINTS
<1>2. \A i \in 1 .. n : pts[i].temp \in Nat /\ pts[i].pwm \in Nat
  BY <1>1, PointInTable
<1> DEFINE temps == [i \in 1 .. n |-> pts[i].temp]
           demands == [i \in 1 .. n |-> pts[i].pwm]
<1>3. /\ temps \in [1 .. n -> Int] /\ demands \in [1 .. n -> Int]
      /\ \A i \in 1 .. n : temps[i] = pts[i].temp /\ demands[i] = pts[i].pwm
  BY <1>2
<1>4. \A i \in 1 .. n - 1 : i \in 1 .. n /\ i + 1 \in 1 .. n
  BY <1>1
<1> HIDE DEF temps, demands
<1>5. \A i \in 1 .. n - 1 : temps[i] <= temps[i + 1] /\ demands[i] <= demands[i + 1]
  <2> SUFFICES ASSUME NEW i \in 1 .. n - 1
               PROVE  temps[i] <= temps[i + 1] /\ demands[i] <= demands[i + 1]
    OBVIOUS
  <2>1. pts[i].temp < pts[i + 1].temp /\ pts[i].pwm <= pts[i + 1].pwm
    BY DEF RisingCurve
  <2>2. /\ temps[i] = pts[i].temp /\ temps[i + 1] = pts[i + 1].temp
        /\ demands[i] = pts[i].pwm /\ demands[i + 1] = pts[i + 1].pwm
    BY <1>3, <1>4
  <2>3. pts[i].temp \in Nat /\ pts[i + 1].temp \in Nat
    BY <1>2, <1>4
  <2> QED BY <2>1, <2>2, <2>3
<1>6. /\ \A i, j \in 1 .. n : i <= j => temps[i] <= temps[j]
      /\ \A i, j \in 1 .. n : i <= j => demands[i] <= demands[j]
  BY <1>1, <1>3, <1>5, StepwiseOrdered
<1>7. /\ \A i, j \in 1 .. n : i <= j => pts[i].temp <= pts[j].temp
      /\ \A i, j \in 1 .. n : i <= j => pts[i].pwm <= pts[j].pwm
  BY <1>3, <1>6, Zenon
<1> QED BY <1>1, <1>2, <1>7

\* The interpolation rises along a rising segment, from its first demand to its
\* last.
LEMMA InterpolationRises ==
    ASSUME NEW lo \in CurvePoint, NEW hi \in CurvePoint,
           lo.temp < hi.temp, lo.pwm <= hi.pwm,
           NEW t \in Int, NEW u \in Int, lo.temp <= t, t <= u, u <= hi.temp
    PROVE  /\ Interpolate(lo, hi, t) \in Int /\ Interpolate(lo, hi, u) \in Int
           /\ lo.pwm <= Interpolate(lo, hi, t)
           /\ Interpolate(lo, hi, t) <= Interpolate(lo, hi, u)
           /\ Interpolate(lo, hi, u) <= hi.pwm
<1> DEFINE d == hi.pwm - lo.pwm
           run == hi.temp - lo.temp
           x == t - lo.temp
           y == u - lo.temp
<1>1. /\ lo.pwm \in Nat /\ hi.pwm \in Nat
      /\ lo.temp \in Nat /\ hi.temp \in Nat
  BY DEF CurvePoint, INT8U
<1>2. /\ d \in Nat /\ run \in Nat /\ run > 0
      /\ x \in Nat /\ y \in Nat /\ x <= y /\ y <= run
      /\ hi.pwm = lo.pwm + d
  BY <1>1
<1>3. \A v \in Int :
        Interpolate(lo, hi, v) =
          lo.pwm + (IF d * (v - lo.temp) >= 0 THEN (d * (v - lo.temp)) \div run
                    ELSE -((-(d * (v - lo.temp))) \div run))
  BY Zenon DEF Interpolate
<1>4. /\ Interpolate(lo, hi, t) =
            lo.pwm + (IF d * x >= 0 THEN (d * x) \div run ELSE -((-(d * x)) \div run))
      /\ Interpolate(lo, hi, u) =
            lo.pwm + (IF d * y >= 0 THEN (d * y) \div run ELSE -((-(d * y)) \div run))
  BY <1>3, Zenon
<1> HIDE DEF d, run, x, y
<1>5. d * x \in Nat /\ d * y \in Nat /\ d * x <= d * y /\ d * y <= d * run
      /\ d * run \in Nat
  <2>1. PICK e \in Nat : y = x + e
    <3>1. y - x \in Nat /\ y = x + (y - x)
      BY <1>2
    <3> QED BY <3>1
  <2>2. PICK g \in Nat : run = y + g
    <3>1. run - y \in Nat /\ run = y + (run - y)
      BY <1>2
    <3> QED BY <3>1
  <2>3. d * y = d * x + d * e /\ d * x \in Nat /\ d * e \in Nat
    BY <1>2, <2>1
  <2>4. d * run = d * y + d * g /\ d * y \in Nat /\ d * g \in Nat
    BY <1>2, <2>2
  <2> QED BY <2>3, <2>4
<1>6. (d * run) \div run = d
  <2>1. \A n \in Nat, m \in Nat \ {0} : (n * m) \div m = n
    OBVIOUS
  <2> QED BY <1>2, <2>1
<1> DEFINE qx == (d * x) \div run
           qy == (d * y) \div run
<1>7. qx \in Nat /\ qx <= qy /\ qy \in Nat /\ qy <= d
  BY <1>2, <1>5, <1>6, QuotientGrows
<1>8. Interpolate(lo, hi, t) = lo.pwm + qx /\ Interpolate(lo, hi, u) = lo.pwm + qy
  <2>1. d * x >= 0 /\ d * y >= 0
    BY <1>5
  <2> QED BY <1>4, <2>1, Zenon
<1> HIDE DEF qx, qy
<1> QED BY <1>1, <1>2, <1>7, <1>8

\* Where a curve of two points or more takes its target from: the first point,
\* the last one, or a segment that contains the temperature.
LEMMA TargetFrom ==
    ASSUME NEW pts \in CurveTable, NEW n \in 2 .. MAX_PIECEWISE_POINTS,
           NEW t \in Int, NEW last \in Int, NEW beyond \in INT8U
    PROVE  \/ /\ t <= pts[1].temp
              /\ PiecewiseTarget(pts, n, t, last, beyond) = pts[1].pwm
           \/ /\ t >= pts[n].temp
              /\ PiecewiseTarget(pts, n, t, last, beyond) = pts[n].pwm
           \/ \E i \in Segments(pts, n, t) :
                 PiecewiseTarget(pts, n, t, last, beyond) = Interpolate(pts[i], pts[i + 1], t)
<1>1. ~ (n < 2) /\ ~ (n > MAX_PIECEWISE_POINTS)
  BY DEF MAX_PIECEWISE_POINTS
<1>2. CASE t <= pts[1].temp
  BY <1>1, <1>2, Zenon DEF PiecewiseTarget
<1>3. CASE ~ (t <= pts[1].temp) /\ t >= pts[n].temp
  BY <1>1, <1>3, Zenon DEF PiecewiseTarget
<1>4. CASE ~ (t <= pts[1].temp) /\ ~ (t >= pts[n].temp)
  <2> DEFINE i == FirstSegment(pts, n, t)
  <2>1. Segments(pts, n, t) # {} /\ i \in Segments(pts, n, t)
    BY <1>4, FirstSegmentRises
  <2>2. PiecewiseTarget(pts, n, t, last, beyond) = Interpolate(pts[i], pts[i + 1], t)
    BY <1>1, <1>4, <2>1, Zenon DEF PiecewiseTarget
  <2> QED BY <2>1, <2>2
<1> QED BY <1>2, <1>3, <1>4, Zenon

\* A segment of a rising curve: its points, and the bounds of the curve around it.
LEMMA SegmentOf ==
    ASSUME NEW pts \in CurveTable, NEW n \in 2 .. MAX_PIECEWISE_POINTS,
           RisingCurve(pts, n), NEW t \in Int, NEW i \in Segments(pts, n, t)
    PROVE  /\ i \in 1 .. n /\ i + 1 \in 1 .. n
           /\ pts[i] \in CurvePoint /\ pts[i + 1] \in CurvePoint
           /\ pts[i].temp < pts[i + 1].temp /\ pts[i].pwm <= pts[i + 1].pwm
           /\ pts[i].temp <= t /\ t <= pts[i + 1].temp
           /\ pts[1].pwm <= pts[i].pwm /\ pts[i + 1].pwm <= pts[n].pwm
<1>1. n \in 1 .. MAX_PIECEWISE_POINTS /\ n \in Nat
  BY DEF MAX_PIECEWISE_POINTS
<1>2. /\ i \in 1 .. n - 1 /\ i \in 1 .. n /\ i + 1 \in 1 .. n
      /\ pts[i] \in CurvePoint /\ pts[i + 1] \in CurvePoint
      /\ pts[i].temp <= t /\ t <= pts[i + 1].temp
  BY <1>1, SegmentInTable
<1>3. 1 \in 1 .. n /\ n \in 1 .. n /\ 1 <= i /\ i + 1 <= n
  BY <1>1, <1>2
<1>4. pts[i].temp < pts[i + 1].temp /\ pts[i].pwm <= pts[i + 1].pwm
  BY <1>2 DEF RisingCurve
<1>5. pts[1].pwm <= pts[i].pwm /\ pts[i + 1].pwm <= pts[n].pwm
  BY <1>1, <1>2, <1>3, CurveIsOrdered
<1> QED BY <1>2, <1>4, <1>5

\* PiecewiseTarget on a rising curve lies between the first and the last demand
\* at every temperature, and a higher temperature never has a lower target.
THEOREM HotterAsksForMore ==
    ASSUME NEW pts \in CurveTable, NEW n \in 2 .. MAX_PIECEWISE_POINTS,
           RisingCurve(pts, n),
           NEW t \in Int, NEW u \in Int, t <= u, NEW last \in Int, NEW beyond \in INT8U
    PROVE  /\ PiecewiseTarget(pts, n, t, last, beyond) <= PiecewiseTarget(pts, n, u, last, beyond)
           /\ pts[1].pwm <= PiecewiseTarget(pts, n, t, last, beyond)
           /\ PiecewiseTarget(pts, n, t, last, beyond) <= pts[n].pwm
<1> DEFINE T(x) == PiecewiseTarget(pts, n, x, last, beyond)
<1>1. /\ n \in Nat /\ 1 \in 1 .. n /\ n \in 1 .. n
      /\ \A i \in 1 .. n : pts[i].temp \in Nat /\ pts[i].pwm \in Nat
      /\ \A i, j \in 1 .. n : i <= j => pts[i].temp <= pts[j].temp
      /\ \A i, j \in 1 .. n : i <= j => pts[i].pwm <= pts[j].pwm
  <2>1. n \in 1 .. MAX_PIECEWISE_POINTS /\ n \in Nat /\ 1 \in 1 .. n /\ n \in 1 .. n
    BY DEF MAX_PIECEWISE_POINTS
  <2> QED BY <2>1, CurveIsOrdered
<1>2. /\ pts[1].temp \in Nat /\ pts[1].pwm \in Nat
      /\ pts[n].temp \in Nat /\ pts[n].pwm \in Nat
      /\ pts[1].pwm <= pts[n].pwm
      /\ pts[1].temp < pts[n].temp
  <2>1. 1 \in 1 .. n - 1 /\ 2 \in 1 .. n
    BY <1>1
  <2>2. pts[1].temp < pts[2].temp /\ pts[2].temp <= pts[n].temp
    BY <1>1, <2>1 DEF RisingCurve
  <2>3. pts[2].temp \in Nat
    BY <1>1, <2>1
  <2> QED BY <1>1, <2>2, <2>3
<1>3. ASSUME NEW x \in Int, NEW i \in Segments(pts, n, x), T(x) = Interpolate(pts[i], pts[i + 1], x)
      PROVE  T(x) \in Int /\ pts[i].pwm <= T(x) /\ T(x) <= pts[i + 1].pwm
  <2>1. /\ pts[i] \in CurvePoint /\ pts[i + 1] \in CurvePoint
        /\ pts[i].temp < pts[i + 1].temp /\ pts[i].pwm <= pts[i + 1].pwm
        /\ pts[i].temp <= x /\ x <= pts[i + 1].temp
    BY SegmentOf
  <2>2. x <= x
    OBVIOUS
  <2> HIDE DEF T
  <2> QED BY <1>3, <2>1, <2>2, InterpolationRises
<1>4. ASSUME NEW x \in Int
      PROVE  T(x) \in Int /\ pts[1].pwm <= T(x) /\ T(x) <= pts[n].pwm
  <2>1. CASE T(x) = pts[1].pwm \/ T(x) = pts[n].pwm
    <3> HIDE DEF T
    <3> QED BY <1>2, <2>1
  <2>2. CASE \E i \in Segments(pts, n, x) : T(x) = Interpolate(pts[i], pts[i + 1], x)
    <3>1. PICK i \in Segments(pts, n, x) : T(x) = Interpolate(pts[i], pts[i + 1], x)
      BY <2>2
    <3>2. T(x) \in Int /\ pts[i].pwm <= T(x) /\ T(x) <= pts[i + 1].pwm
      BY <1>3, <3>1
    <3>3. /\ pts[1].pwm <= pts[i].pwm /\ pts[i + 1].pwm <= pts[n].pwm
          /\ pts[i].pwm \in Nat /\ pts[i + 1].pwm \in Nat
      BY <1>1, SegmentOf
    <3> HIDE DEF T
    <3> QED BY <1>2, <3>2, <3>3
  <2> QED BY <2>1, <2>2, TargetFrom
<1>5. T(t) <= T(u)
  <2>1. CASE t = u
    <3>1. T(t) = T(u) /\ T(u) \in Int
      BY <1>4, <2>1
    <3> HIDE DEF T
    <3> QED BY <3>1
  <2>2. CASE T(t) = pts[1].pwm
    BY <1>4, <2>2
  <2>3. CASE T(u) = pts[n].pwm
    BY <1>4, <2>3
  <2>4. CASE t >= pts[n].temp /\ T(t) = pts[n].pwm
    <3>1. u >= pts[n].temp /\ ~ (u <= pts[1].temp) /\ ~ (n < 2) /\ ~ (n > MAX_PIECEWISE_POINTS)
      BY <1>1, <1>2, <2>4 DEF MAX_PIECEWISE_POINTS
    <3>2. T(u) = pts[n].pwm
      BY <3>1, Zenon DEF PiecewiseTarget
    <3> QED BY <2>3, <3>2
  <2>5. CASE u <= pts[1].temp /\ T(u) = pts[1].pwm
    <3>1. t <= pts[1].temp /\ ~ (n < 2) /\ ~ (n > MAX_PIECEWISE_POINTS)
      BY <1>1, <1>2, <2>5 DEF MAX_PIECEWISE_POINTS
    <3>2. T(t) = pts[1].pwm
      BY <3>1, Zenon DEF PiecewiseTarget
    <3> QED BY <2>2, <3>2
  <2>6. CASE /\ t < u
             /\ \E i \in Segments(pts, n, t) : T(t) = Interpolate(pts[i], pts[i + 1], t)
             /\ \E j \in Segments(pts, n, u) : T(u) = Interpolate(pts[j], pts[j + 1], u)
    <3>1. PICK i \in Segments(pts, n, t) : T(t) = Interpolate(pts[i], pts[i + 1], t)
      BY <2>6
    <3>2. PICK j \in Segments(pts, n, u) : T(u) = Interpolate(pts[j], pts[j + 1], u)
      BY <2>6
    <3>3. /\ i \in 1 .. n /\ i + 1 \in 1 .. n
          /\ pts[i] \in CurvePoint /\ pts[i + 1] \in CurvePoint
          /\ pts[i].temp < pts[i + 1].temp /\ pts[i].pwm <= pts[i + 1].pwm
          /\ pts[i].temp <= t /\ t <= pts[i + 1].temp
      BY SegmentOf
    <3>4. j \in 1 .. n /\ j + 1 \in 1 .. n /\ pts[j].temp <= u /\ u <= pts[j + 1].temp
      BY SegmentOf
    <3>5. /\ T(t) \in Int /\ T(t) <= pts[i + 1].pwm
          /\ T(u) \in Int /\ pts[j].pwm <= T(u)
      BY <1>3, <3>1, <3>2
    <3>6. i <= j
      <4> SUFFICES ASSUME j + 1 <= i PROVE FALSE
        BY <1>1, <3>3, <3>4
      <4>1. pts[j + 1].temp <= pts[i].temp
        BY <1>1, <3>3, <3>4
      <4>2. pts[j + 1].temp \in Nat /\ pts[i].temp \in Nat
        BY <1>1, <3>3, <3>4
      <4>3. t < u /\ pts[i].temp <= t /\ u <= pts[j + 1].temp
        BY <2>6, <3>3, <3>4
      <4> QED BY ONLY t \in Int, u \in Int, <4>1, <4>2, <4>3
    <3>7. CASE i = j
      <4>1. u <= pts[i + 1].temp
        BY <3>4, <3>7
      <4>2. Interpolate(pts[i], pts[i + 1], t) <= Interpolate(pts[i], pts[i + 1], u)
        BY <3>3, <4>1, InterpolationRises
      <4> QED BY <3>1, <3>2, <3>7, <4>2
    <3>8. CASE i < j
      <4>1. i + 1 <= j
        BY <1>1, <3>3, <3>4, <3>8
      <4>2. /\ pts[i + 1].pwm <= pts[j].pwm
            /\ pts[i + 1].pwm \in Nat /\ pts[j].pwm \in Nat
        BY <1>1, <3>3, <3>4, <4>1
      <4> HIDE DEF T
      <4> QED BY <3>5, <4>2
    <3> QED BY <1>1, <3>3, <3>4, <3>6, <3>7, <3>8
  <2> QED BY <2>1, <2>2, <2>3, <2>4, <2>5, <2>6, TargetFrom
<1> QED BY <1>4, <1>5

\* The clamps keep the order of two values, and so does the rounding.
LEMMA ClampRises ==
    ASSUME NEW a \in Int, NEW b \in Int, a <= b, NEW lo \in Int, NEW hi \in Int
    PROVE  Clamp(a, lo, hi) <= Clamp(b, lo, hi)
BY DEF Clamp, AtLeast, AtMost

\* The rounding of a demand keeps the order of two demands.
LEMMA RoundRises ==
    ASSUME NEW a \in Int, NEW b \in Int, a <= b
    PROVE  Round(a) <= Round(b)
BY DEF Round, SCALE

\* A demand in thousandths without a fraction.
WholePercents(x) == \E k \in Nat : x = k * SCALE

\* A target that does not ask for less than nothing.
NonNegative(x) == x \in Nat /\ x <= 32767

\* From a whole last demand the rate limits keep the order of two targets that
\* are no further away than INT16S holds; from a fractional one, the truncation
\* can put the limited target a percent below a lower one that is not limited.
LEMMA RateLimitRises ==
    ASSUME NEW a, NonNegative(a), NEW b, NonNegative(b), a <= b,
           NEW last \in ScaledPWM, WholePercents(last), NEW par \in PolyParam
    PROVE  RateLimited(a, last, par) <= RateLimited(b, last, par)
<1> DEFINE up == par.MaxRisingRate
           down == par.MaxFallingRate
<1>1. up \in Nat /\ down \in Nat
  BY CurveParts
<1>2. PICK k \in Nat : last = k * SCALE
  BY DEF WholePercents
<1>3. \A n \in Int : Truncate(n * SCALE) = n
  BY DEF Truncate, SCALE
<1>4. k <= 255 /\ last \in Nat /\ last <= 255 * SCALE
  <2>1. last \in Nat /\ last <= 255 * SCALE
    BY LastPWMByte
  <2> QED BY <1>2, <2>1 DEF SCALE
<1> DEFINE limited(x) == IF x - k > up THEN k + up
                         ELSE IF x - k < -down THEN k - down ELSE x
<1>5. ASSUME NEW x, NonNegative(x)
      PROVE  RateLimited(x, last, par) = limited(x)
  <2> DEFINE d == Truncate(x * SCALE - last)
             n == Narrowed(x, last)
             c == IF n < 0 THEN INT16S(-n) ELSE n
             rate == IF n > 0 THEN up ELSE IF n < 0 THEN down ELSE 0
  <2>1. x \in Nat
    BY <1>5 DEF NonNegative
  <2>2. RateLimited(x, last, par) =
          IF c <= rate THEN x
          ELSE IF x * SCALE > last THEN Truncate(last + rate * SCALE)
          ELSE Truncate(last - rate * SCALE)
    BY Zenon DEF RateLimited
  <2>3. /\ x * SCALE - last = (x - k) * SCALE
        /\ x * SCALE > last <=> x > k
    BY <1>2, <2>1 DEF SCALE
  <2>4. x - k \in Int /\ x - k >= -255
    BY <1>4, <2>1
  <2>5. d = x - k
    BY <1>3, <2>3, <2>4, Zenon
  <2>6. /\ n \in Int
        /\ d >= -32767 => n = d /\ c = Abs(d)
    <3>1. Narrow(x)
      BY <1>5 DEF Narrow, NonNegative
    <3> QED BY <1>4, <3>1, NarrowedDifference
  <2> HIDE DEF d, n, c, up, down
  <2>7. n = x - k /\ c = Abs(x - k)
    BY <2>4, <2>5, <2>6
  <2>8. rate \in Nat /\ (x - k > 0 => rate = up) /\ (x - k < 0 => rate = down)
    BY <1>1, <2>4, <2>7
  <2> HIDE DEF rate
  <2>9. /\ last + rate * SCALE = (k + rate) * SCALE /\ k + rate \in Int
        /\ last - rate * SCALE = (k - rate) * SCALE /\ k - rate \in Int
    BY <1>2, <2>8 DEF SCALE
  <2>10. /\ Truncate(last + rate * SCALE) = k + rate
        /\ Truncate(last - rate * SCALE) = k - rate
    BY <1>3, <2>9, Zenon
  <2>11. RateLimited(x, last, par) =
           IF c <= rate THEN x ELSE IF x > k THEN k + rate ELSE k - rate
    BY <2>2, <2>3, <2>10, Zenon
  <2>12. CASE x > k
    <3>1. rate = up /\ c = x - k
      BY <2>4, <2>1, <2>7, <2>8, <2>12 DEF Abs
    <3> QED BY <1>1, <2>1, <2>11, <2>12, <3>1
  <2>13. CASE x < k
    <3>1. rate = down /\ c = k - x
      BY <2>4, <2>1, <2>7, <2>8, <2>13 DEF Abs
    <3> QED BY <1>1, <2>1, <2>11, <2>13, <3>1
  <2>14. CASE x = k
    <3>1. c = 0
      BY <2>7, <2>14 DEF Abs
    <3> QED BY <1>1, <2>8, <2>11, <2>14, <3>1
  <2> QED BY <2>1, <2>12, <2>13, <2>14
<1>6. limited(a) <= limited(b)
  <2> HIDE DEF up, down
  <2> QED BY <1>1 DEF NonNegative
<1> HIDE DEF limited
<1>7. /\ RateLimited(a, last, par) = limited(a)
      /\ RateLimited(b, last, par) = limited(b)
  BY <1>5, Zenon
<1> QED BY <1>6, <1>7, Zenon

\* FSCGetPWMValue_Polynomial leaves LastPWM whole when it found it whole: the
\* premise of the theorem below holds of a profile that began with the daemon.
LEMMA WholePercentsStay ==
    ASSUME NEW s \in Slot, WholePercents(s.LastPWM), NEW par \in PolyParam,
           NEW min \in INT8U, NEW max \in INT8U, NEW beyond \in INT8U
    PROVE  WholePercents(FSCGetPWMValue_Polynomial(s, par, min, max, beyond).LastPWM)
<1> DEFINE r == FSCGetPWMValue_Polynomial(s, par, min, max, beyond)
<1>1. /\ r \in Slot
      /\ r.LastPWM = s.LastPWM \/ r.LastPWM = r.CurrentPWM * SCALE
  BY PolynomialStep
<1> HIDE DEF r
<1>2. r.CurrentPWM \in Nat
  BY <1>1 DEF Slot, INT8U
<1>3. WholePercents(r.LastPWM)
  BY <1>1, <1>2, Zenon DEF WholePercents
<1> QED BY <1>3 DEF r

\* Two believable readings in one state of a sensor whose targets are ordered have
\* ordered demands, also where the limits are crossed.
LEMMA TargetOrdersDemand ==
    ASSUME NEW s \in Slot, NEW u \in Slot, NEW par \in PolyParam,
           NEW min \in INT8U, NEW max \in INT8U, NEW beyond \in INT8U,
           s.LastPWM = u.LastPWM, WholePercents(s.LastPWM),
           ~ IsDirtyReading(s), ~ IsDirtyReading(u),
           NonNegative(HysteresisTarget(s, par, beyond)),
           NonNegative(HysteresisTarget(u, par, beyond)),
           HysteresisTarget(s, par, beyond) <= HysteresisTarget(u, par, beyond)
    PROVE  FSCGetPWMValue_Polynomial(s, par, min, max, beyond).CurrentPWM
             <= FSCGetPWMValue_Polynomial(u, par, min, max, beyond).CurrentPWM
<1> DEFINE last == s.LastPWM
           target(x) == HysteresisTarget(x, par, beyond)
           limited(x) == RateLimited(target(x), last, par)
           pass(x) == FSCGetPWMValue_Polynomial(x, par, min, max, beyond)
<1>1. min \in Int /\ max \in Int
  BY DEF INT8U
<1>2. ASSUME NEW x \in Slot, x.LastPWM = last, ~ IsDirtyReading(x)
      PROVE  pass(x).CurrentPWM = Clamp(limited(x), min, max) /\ limited(x) \in Int
  <2>1. RateLimited(HysteresisTarget(x, par, beyond), x.LastPWM, par) = limited(x)
    BY <1>2, Zenon
  <2>2. limited(x) \in Int
    BY <2>1, TargetInt
  <2> DEFINE pwm == Clamp(limited(x), min, max)
             c == x.CurrentTemp
             q == pwm * SCALE
  <2>3. pass(x) = [x EXCEPT !.LastTemp = c, !.LastPWM = q, !.CurrentPWM = pwm]
    BY <1>2, <2>1, Zenon DEF FSCGetPWMValue_Polynomial
  <2> HIDE DEF pwm, c, q, pass, limited
  <2>4. pass(x).CurrentPWM = pwm
    BY <2>3 DEF Slot
  <2> QED BY <2>2, <2>4 DEF pwm
<1>3. NonNegative(target(s)) /\ NonNegative(target(u)) /\ target(s) <= target(u)
  OBVIOUS
<1> HIDE DEF target
<1>4. limited(s) <= limited(u)
  BY <1>3, SlotParts, RateLimitRises DEF NonNegative
<1>5. /\ pass(s).CurrentPWM = Clamp(limited(s), min, max) /\ limited(s) \in Int
      /\ pass(u).CurrentPWM = Clamp(limited(u), min, max) /\ limited(u) \in Int
  BY <1>2
<1> HIDE DEF limited, pass
<1>6. pass(s).CurrentPWM <= pass(u).CurrentPWM
  BY <1>1, <1>4, <1>5, ClampRises
<1> QED BY <1>6 DEF pass

\* FSCGetPWMValue_Polynomial on a rising piecewise curve: of two believable
\* readings in one state of a sensor the higher one never gets the lower demand,
\* through curve, rate limits and clamps.
THEOREM HotterCurveNeverSlows ==
    ASSUME NEW s \in Slot, NEW u \in Slot, NEW par \in PolyParam,
           NEW min \in INT8U, NEW max \in INT8U, NEW beyond \in INT8U,
           par.CurveType = FSC_AMBIENT_CAL_PIECEWISE,
           par.PointCount <= MAX_PIECEWISE_POINTS,
           RisingCurve(par.PiecewisePoints, par.PointCount),
           s.LastPWM = u.LastPWM, WholePercents(s.LastPWM),
           s.CurrentTemp <= u.CurrentTemp,
           ~ IsDirtyReading(s), ~ IsDirtyReading(u)
    PROVE  FSCGetPWMValue_Polynomial(s, par, min, max, beyond).CurrentPWM
             <= FSCGetPWMValue_Polynomial(u, par, min, max, beyond).CurrentPWM
<1> DEFINE pts == par.PiecewisePoints
           n == par.PointCount
           last == s.LastPWM
           target(x) == PiecewiseTarget(pts, n, x.CurrentTemp, last, beyond)
<1>1. /\ pts \in CurveTable /\ n \in Nat /\ last \in ScaledPWM /\ last \in Int
      /\ s.CurrentTemp \in Int /\ u.CurrentTemp \in Int
  BY CurveParts, SlotParts
<1>2. par.CurveType # FSC_AMBIENT_CAL_POLYNOMIAL
  BY DEF FSC_AMBIENT_CAL_POLYNOMIAL, FSC_AMBIENT_CAL_PIECEWISE
<1>3. /\ HysteresisTarget(s, par, beyond) = target(s)
      /\ HysteresisTarget(u, par, beyond) = target(u)
  BY <1>2, Zenon DEF HysteresisTarget, CurveTarget
<1>4. target(s) \in INT8U /\ target(u) \in INT8U
  BY <1>1, PiecewiseTargetByte
<1>5. NonNegative(target(s)) /\ NonNegative(target(u))
  BY <1>4 DEF INT8U, NonNegative
<1>6. target(s) <= target(u)
  <2>1. CASE n < 2
    <3>1. target(s) = target(u)
      BY <2>1, Zenon DEF PiecewiseTarget
    <3> HIDE DEF target
    <3> QED BY <1>5, <3>1 DEF NonNegative
  <2>2. CASE ~ (n < 2)
    <3>1. n \in 2 .. MAX_PIECEWISE_POINTS /\ RisingCurve(pts, n)
      BY <1>1, <2>2 DEF MAX_PIECEWISE_POINTS
    <3> QED BY <1>1, <3>1, HotterAsksForMore
  <2> QED BY <2>1, <2>2
<1> HIDE DEF target
<1> QED BY <1>3, <1>5, <1>6, TargetOrdersDemand

\* A product of naturals grows with its factors.
LEMMA ProductRises ==
    ASSUME NEW a \in Nat, NEW b \in Nat, NEW c \in Nat, NEW d \in Nat, a <= c, b <= d
    PROVE  a * b \in Nat /\ c * d \in Nat /\ a * b <= c * d
<1>1. PICK e \in Nat : c = a + e
  <2>1. c - a \in Nat /\ c = a + (c - a)
    OBVIOUS
  <2> QED BY <2>1
<1>2. PICK g \in Nat : d = b + g
  <2>1. d - b \in Nat /\ d = b + (d - b)
    OBVIOUS
  <2> QED BY <2>1
<1>3. /\ c * d = a * b + a * g + e * b + e * g
      /\ a * b \in Nat /\ a * g \in Nat /\ e * b \in Nat /\ e * g \in Nat
  BY <1>1, <1>2
<1> QED BY <1>3

\* A polynomial that counts no negative coefficient.
NoNegative(par) ==
    \A i \in 1 .. MAX_POLYNOMIAL_COEFFS : i <= par.CoeffCount => par.Coefficients[i] >= 0

\* Its value does not fall on the temperatures from zero up.
LEMMA PolynomialRises ==
    ASSUME NEW par \in PolyParam, NoNegative(par),
           NEW t \in Nat, NEW u \in Nat, t <= u
    PROVE  /\ PolynomialValue(par, t) \in Nat /\ PolynomialValue(par, u) \in Nat
           /\ PolynomialValue(par, t) <= PolynomialValue(par, u)
<1> DEFINE a(k) == IF k <= par.CoeffCount THEN par.Coefficients[k] ELSE 0
           sum(x) == a(1) + a(2) * x + a(3) * (x * x) + a(4) * (x * x * x)
<1>1. a(1) \in Nat /\ a(2) \in Nat /\ a(3) \in Nat /\ a(4) \in Nat
  <2>1. \A k \in 1 .. 4 : a(k) \in Nat
    BY CurveParts DEF NoNegative, MAX_POLYNOMIAL_COEFFS
  <2> QED BY <2>1
<1>2. PolynomialValue(par, t) = sum(t) /\ PolynomialValue(par, u) = sum(u)
  BY Zenon DEF PolynomialValue
<1> HIDE DEF a
<1>3. t * t \in Nat /\ u * u \in Nat /\ t * t <= u * u
  BY ProductRises
<1>4. t * t * t \in Nat /\ u * u * u \in Nat /\ t * t * t <= u * u * u
  BY <1>3, ProductRises
<1> DEFINE t2 == t * t
           u2 == u * u
           t3 == t * t * t
           u3 == u * u * u
<1>5. /\ sum(t) = a(1) + a(2) * t + a(3) * t2 + a(4) * t3
      /\ sum(u) = a(1) + a(2) * u + a(3) * u2 + a(4) * u3
  BY Zenon
<1>6. /\ t2 \in Nat /\ u2 \in Nat /\ t2 <= u2
      /\ t3 \in Nat /\ u3 \in Nat /\ t3 <= u3
  BY <1>3, <1>4
<1> HIDE DEF sum, t2, u2, t3, u3
<1>7. a(2) * t \in Nat /\ a(2) * u \in Nat /\ a(2) * t <= a(2) * u
  BY <1>1, ProductRises
<1>8. a(3) * t2 \in Nat /\ a(3) * u2 \in Nat /\ a(3) * t2 <= a(3) * u2
  BY <1>1, <1>6, ProductRises
<1>9. a(4) * t3 \in Nat /\ a(4) * u3 \in Nat /\ a(4) * t3 <= a(4) * u3
  BY <1>1, <1>6, ProductRises
<1>10. sum(t) \in Nat /\ sum(u) \in Nat /\ sum(t) <= sum(u)
  BY <1>1, <1>5, <1>7, <1>8, <1>9
<1> QED BY <1>2, <1>10, Zenon

\* A value in thousandths whose whole percents an INT16S holds.
FitsINT16S(x) == x < 32768 * SCALE

\* The casts keep the order of two values that an INT16S holds.
LEMMA CastRises ==
    ASSUME NEW x \in Nat, NEW y \in Nat, x <= y, FitsINT16S(y)
    PROVE  /\ NonNegative(FloatToINT16S(x)) /\ NonNegative(FloatToINT16S(y))
           /\ FloatToINT16S(x) <= FloatToINT16S(y)
<1>1. 32768 * SCALE \in Nat
  BY DEF SCALE
<1>2. x \in Int /\ y \in Int /\ x >= 0 /\ y >= 0 /\ FitsINT16S(x)
  BY <1>1 DEF FitsINT16S
<1>3. FloatToINT16S(x) = Truncate(x) /\ FloatToINT16S(y) = Truncate(y)
  BY <1>2, FloatToINT16SKeeps DEF FitsINT16S
<1>4. /\ NonNegative(Truncate(x)) /\ NonNegative(Truncate(y))
      /\ Truncate(x) <= Truncate(y)
  BY <1>2 DEF Truncate, SCALE, NonNegative, FitsINT16S
<1> QED BY <1>3, <1>4, Zenon

\* FSCGetPWMValue_Polynomial on a polynomial without a negative coefficient, as the
\* profiles that are shipped: of two believable readings in one state of a sensor
\* the higher one never gets the lower demand, if both fall below the last reading
\* or neither does, and if the value of the polynomial, read with the hysteresis,
\* is one that the INT16S of the target holds.  A falling reading beside a rising
\* one may get the higher demand: that is what the hysteresis is for; and beyond
\* INT16S a hotter reading may wrap to a lower target.
THEOREM HotterPolynomialNeverSlows ==
    ASSUME NEW s \in Slot, NEW u \in Slot, NEW par \in PolyParam,
           NEW min \in INT8U, NEW max \in INT8U, NEW beyond \in INT8U,
           par.CurveType = FSC_AMBIENT_CAL_POLYNOMIAL, NoNegative(par),
           FitsINT16S(PolynomialValue(par, u.CurrentTemp + par.FallingHyst)),
           s.LastPWM = u.LastPWM, WholePercents(s.LastPWM),
           s.CurrentTemp >= 0, s.CurrentTemp <= u.CurrentTemp,
           s.CurrentTemp < s.LastTemp <=> u.CurrentTemp < u.LastTemp,
           ~ IsDirtyReading(s), ~ IsDirtyReading(u)
    PROVE  FSCGetPWMValue_Polynomial(s, par, min, max, beyond).CurrentPWM
             <= FSCGetPWMValue_Polynomial(u, par, min, max, beyond).CurrentPWM
<1> DEFINE t == s.CurrentTemp
           v == u.CurrentTemp
           h == par.FallingHyst
           value(x) == PolynomialValue(par, x)
           low(x) == PolynomialTarget(par, x)
<1>1. t \in Nat /\ v \in Nat /\ h \in Nat /\ t <= v
  <2>1. t \in Int /\ v \in Int /\ h \in Nat
    BY SlotParts, CurveParts
  <2> QED BY <2>1
<1>2. /\ t + h \in Nat /\ v + h \in Nat
      /\ t + h <= v + h /\ v <= v + h /\ t <= v + h
  BY <1>1
<1>3. FitsINT16S(value(v + h))
  OBVIOUS
<1>4. ASSUME NEW x \in Nat, NEW y \in Nat, x <= y, y <= v + h
      PROVE  NonNegative(low(x)) /\ NonNegative(low(y)) /\ low(x) <= low(y)
  <2>1. /\ value(x) \in Nat /\ value(y) \in Nat /\ value(x) <= value(y)
        /\ value(v + h) \in Nat /\ value(y) <= value(v + h)
    BY <1>2, <1>4, PolynomialRises
  <2> HIDE DEF value
  <2>2. FitsINT16S(value(y))
    BY <1>3, <2>1 DEF FitsINT16S, SCALE
  <2>3. low(x) = FloatToINT16S(value(x)) /\ low(y) = FloatToINT16S(value(y))
    BY Zenon DEF PolynomialTarget, value
  <2> HIDE DEF low
  <2> QED BY <2>1, <2>2, <2>3, CastRises
<1> HIDE DEF value
<1>5. v + h <= v + h
  BY <1>2
<1>6. /\ NonNegative(low(t)) /\ NonNegative(low(v)) /\ low(t) <= low(v)
      /\ NonNegative(low(t + h)) /\ NonNegative(low(v + h))
      /\ low(t + h) <= low(v + h)
  <2> HIDE DEF low, t, v, h
  <2> QED BY <1>1, <1>2, <1>4, <1>5
<1>7. /\ HysteresisTarget(s, par, beyond) =
           IF t < s.LastTemp THEN AtLeast(low(t), low(t + h)) ELSE low(t)
      /\ HysteresisTarget(u, par, beyond) =
           IF v < u.LastTemp THEN AtLeast(low(v), low(v + h)) ELSE low(v)
  BY Zenon DEF HysteresisTarget, CurveTarget
<1>8. \A a, b, c, d :
        NonNegative(a) /\ NonNegative(b) /\ NonNegative(c) /\ NonNegative(d)
          /\ a <= c /\ b <= d => /\ AtLeast(a, b) <= AtLeast(c, d)
                            /\ NonNegative(AtLeast(a, b))
                            /\ NonNegative(AtLeast(c, d))
  BY DEF AtLeast, NonNegative
<1> HIDE DEF low
<1>9. /\ AtLeast(low(t), low(t + h)) <= AtLeast(low(v), low(v + h))
      /\ NonNegative(AtLeast(low(t), low(t + h)))
      /\ NonNegative(AtLeast(low(v), low(v + h)))
  BY <1>6, <1>8
<1>10. t < s.LastTemp <=> v < u.LastTemp
  OBVIOUS
<1> HIDE DEF t, v, h
<1>11. /\ NonNegative(HysteresisTarget(s, par, beyond))
       /\ NonNegative(HysteresisTarget(u, par, beyond))
       /\ HysteresisTarget(s, par, beyond) <= HysteresisTarget(u, par, beyond)
  BY <1>6, <1>7, <1>9, <1>10, Zenon
<1> QED BY <1>11, TargetOrdersDemand

\* FSCGetPWMValue_PID: when the gains do not add up to less than nothing, the
\* higher of two readings in one state of a sensor never gets the lower demand,
\* neither the one that is kept nor the rounded one that is driven.
THEOREM HotterPidNeverSlows ==
    ASSUME NEW s \in Slot, NEW u \in Slot, NEW par \in PidParam,
           NEW min \in INT8U, NEW max \in INT8U,
           par.Kp + par.Ki + par.Kd >= 0,
           s.LastPWM = u.LastPWM, s.LastTemp = u.LastTemp,
           s.LastLastTemp = u.LastLastTemp,
           s.CurrentTemp <= u.CurrentTemp
    PROVE  LET r == FSCGetPWMValue_PID(s, par, min, max)
               h == FSCGetPWMValue_PID(u, par, min, max)
           IN  r.LastPWM <= h.LastPWM /\ r.CurrentPWM <= h.CurrentPWM
<1> DEFINE lo == min * SCALE
           hi == max * SCALE
           pwm(x) == Clamp(PidOutput(x, par), lo, hi)
           pass(x) == FSCGetPWMValue_PID(x, par, min, max)
<1>1. lo \in Int /\ hi \in Int
  BY ScaledLimits
<1>2. PidOutput(s, par) \in Int /\ PidOutput(u, par) \in Int
      /\ PidOutput(s, par) <= PidOutput(u, par)
  <2> DEFINE p == s.CurrentTemp - s.LastTemp
             i == s.CurrentTemp - par.SetPoint
             d == s.CurrentTemp - 2 * s.LastTemp + s.LastLastTemp
             e == u.CurrentTemp - s.CurrentTemp
             kp == par.Kp
             ki == par.Ki
             kd == par.Kd
             last == s.LastPWM
  <2>1. /\ kp \in Int /\ ki \in Int /\ kd \in Int /\ par.SetPoint \in Int
        /\ kp + ki + kd \in Nat
    BY DEF PidParam
  <2>2. /\ s.CurrentTemp \in Int /\ u.CurrentTemp \in Int
        /\ s.LastTemp \in Int /\ s.LastLastTemp \in Int
    BY DEF Slot
  <2>3. last \in Int
    <3>1. last \in ScaledPWM
      BY DEF Slot
    <3> QED BY <3>1, ScaledPWMRange
  <2>4. p \in Int /\ i \in Int /\ d \in Int /\ e \in Nat
    BY <2>1, <2>2
  <2>5. /\ u.CurrentTemp - u.LastTemp = p + e
        /\ u.CurrentTemp - par.SetPoint = i + e
        /\ u.CurrentTemp - 2 * u.LastTemp + u.LastLastTemp = d + e
    BY <2>1, <2>2
  <2>6. PidOutput(s, par) = last + kp * p + ki * i + kd * d
    BY Zenon DEF PidOutput
  <2>7. PidOutput(u, par) = last + kp * (p + e) + ki * (i + e) + kd * (d + e)
    <3> HIDE DEF p, i, d, e
    <3> QED BY <2>5, Zenon DEF PidOutput
  <2> HIDE DEF p, i, d, e, kp, ki, kd, last
  <2>8. /\ kp * p \in Int /\ ki * i \in Int /\ kd * d \in Int
        /\ kp * e \in Int /\ ki * e \in Int /\ kd * e \in Int
    BY <2>1, <2>4, ProductInt
  <2>9. /\ kp * (p + e) = kp * p + kp * e
        /\ ki * (i + e) = ki * i + ki * e
        /\ kd * (d + e) = kd * d + kd * e
    BY <2>1, <2>4
  <2>10. kp * e + ki * e + kd * e = (kp + ki + kd) * e /\ (kp + ki + kd) * e \in Nat
    BY <2>1, <2>4
  <2> QED BY <2>3, <2>6, <2>7, <2>8, <2>9, <2>10
<1> HIDE DEF lo, hi
<1>3. pwm(s) \in Int /\ pwm(u) \in Int /\ pwm(s) <= pwm(u)
  BY <1>1, <1>2, ClampRises, ClampBounds
<1>4. ASSUME NEW x \in Slot, PidOutput(x, par) \in Int
      PROVE  pass(x).LastPWM = pwm(x) /\ pass(x).CurrentPWM = Round(pwm(x))
  <2> DEFINE a == x.LastTemp
             b == x.CurrentTemp
             n == pwm(x)
             q == Round(n)
  <2>1. pass(x) = [x EXCEPT !.LastPWM = n, !.LastLastTemp = a,
                            !.LastTemp = b, !.CurrentPWM = q]
    BY Zenon DEF FSCGetPWMValue_PID, lo, hi
  <2> HIDE DEF a, b, n, q, pass
  <2>2. pass(x).LastPWM = n /\ pass(x).CurrentPWM = q
    BY <2>1 DEF Slot
  <2> QED BY <2>2 DEF n, q
<1>5. /\ pass(s).LastPWM = pwm(s) /\ pass(s).CurrentPWM = Round(pwm(s))
      /\ pass(u).LastPWM = pwm(u) /\ pass(u).CurrentPWM = Round(pwm(u))
  BY <1>2, <1>4
<1> HIDE DEF pwm, pass
<1>6. Round(pwm(s)) <= Round(pwm(u))
  BY <1>3, RoundRises
<1> QED BY <1>3, <1>5, <1>6, Zenon DEF pass
=============================================================================
