----------------------------- MODULE FscLoopProofs -----------------------------
(***************************************************************************)
(* Theorems about the fan control task (FscLoop), for every configuration  *)
(* of files, airflow choices, readings and table sizes.                    *)
(***************************************************************************)
EXTENDS FscLoop, FscCoreProofs

-----------------------------------------------------------------------------
(* The parsers keep the configuration well typed.                          *)

\* The conversion of a number of items to INT8U.
LEMMA ModByte ==
    ASSUME NEW n \in Nat
    PROVE  /\ n % 256 \in INT8U
           /\ n % 256 \in Nat
           /\ n % 256 <= n
BY DEF INT8U

\* A PID profile read in part mixes old and new parameters of the right types.
LEMMA ParsePidType ==
    ASSUME NEW old \in PidParam, NEW new \in PidParam, NEW n \in Nat
    PROVE  ParsePid(old, new, n) \in PidParam
BY DEF ParsePid, PidParam

\* Coefficients read in part keep the table of coefficients well typed.
LEMMA ParseCoefficientsType ==
    ASSUME NEW old \in PolyParam, NEW new \in PolyParam, NEW n \in Nat
    PROVE  ParseCoefficients(old, new, n) \in [1 .. MAX_POLYNOMIAL_COEFFS -> Int]
<1>1. /\ old.Coefficients \in [1 .. MAX_POLYNOMIAL_COEFFS -> Int]
      /\ new.Coefficients \in [1 .. MAX_POLYNOMIAL_COEFFS -> Int]
  BY DEF PolyParam
<1> QED BY <1>1 DEF ParseCoefficients

\* Points read in part keep the table of points well typed.
LEMMA ParsePointsType ==
    ASSUME NEW old \in PolyParam, NEW new \in PolyParam, NEW n \in Nat
    PROVE  ParsePoints(old, new, n) \in CurveTable
<1>1. old.PiecewisePoints \in CurveTable /\ new.PiecewisePoints \in CurveTable
  BY DEF PolyParam
<1> DEFINE read(j) == IF j <= new.PointCount THEN new.PiecewisePoints[j]
                      ELSE old.PiecewisePoints[j]
           point(j) ==
             [temp |-> IF n >= 3 + 2 * j THEN read(j).temp ELSE old.PiecewisePoints[j].temp,
              pwm |-> IF n >= 4 + 2 * j THEN read(j).pwm ELSE old.PiecewisePoints[j].pwm]
<1>2. ASSUME NEW j \in 1 .. MAX_PIECEWISE_POINTS
      PROVE  point(j) \in CurvePoint
  <2>1. old.PiecewisePoints[j] \in CurvePoint /\ new.PiecewisePoints[j] \in CurvePoint
    BY <1>1 DEF CurveTable
  <2>2. read(j) \in CurvePoint
    BY <2>1
  <2>3. /\ read(j).temp \in INT8U /\ read(j).pwm \in INT8U
        /\ old.PiecewisePoints[j].temp \in INT8U
        /\ old.PiecewisePoints[j].pwm \in INT8U
    BY <2>1, <2>2, Zenon DEF CurvePoint
  <2> HIDE DEF read
  <2> DEFINE t == IF n >= 3 + 2 * j THEN read(j).temp ELSE old.PiecewisePoints[j].temp
             w == IF n >= 4 + 2 * j THEN read(j).pwm ELSE old.PiecewisePoints[j].pwm
  <2>4. t \in INT8U /\ w \in INT8U
    BY <2>3, Zenon
  <2>5. point(j) = [temp |-> t, pwm |-> w]
    OBVIOUS
  <2> HIDE DEF t, w, point
  <2> QED BY <2>4, <2>5 DEF CurvePoint
<1>3. ParsePoints(old, new, n) = [j \in 1 .. MAX_PIECEWISE_POINTS |-> point(j)]
  BY Zenon DEF ParsePoints
<1> HIDE DEF point
<1> QED BY <1>2, <1>3, Zenon DEF CurveTable

\* And so does a polynomial profile.
LEMMA ParsePolyType ==
    ASSUME NEW old \in PolyParam, NEW new \in PolyParam, NEW n \in Nat
    PROVE  ParsePoly(old, new, n) \in PolyParam
<1>1. /\ ParseCoefficients(old, new, n) \in [1 .. MAX_POLYNOMIAL_COEFFS -> Int]
      /\ ParsePoints(old, new, n) \in CurveTable
  BY ParseCoefficientsType, ParsePointsType
<1> QED BY <1>1 DEF ParsePoly, PolyParam

\* A profile item is written into a table entry of the right type.
LEMMA ParseItemType ==
    ASSUME NEW old \in Profile, NEW item \in ProfileItem
    PROVE  ParseItem(old, item) \in Profile
<1> DEFINE new == item.Value
           n == item.Writes
           typed == n >= 2 /\ new.ProfileType # FSC_CTL_INVALID
<1>1. new \in Profile /\ n \in Nat
  BY DEF ProfileItem
<1>2. /\ old.SensorNum \in INT8U /\ new.SensorNum \in INT8U
      /\ old.ProfileType \in 0 .. 2 /\ new.ProfileType \in 0 .. 2
      /\ old.Pid \in PidParam /\ new.Pid \in PidParam
      /\ old.Poly \in PolyParam /\ new.Poly \in PolyParam
  BY <1>1 DEF Profile
<1> DEFINE num == IF n >= 1 THEN new.SensorNum ELSE old.SensorNum
           type == IF typed THEN new.ProfileType ELSE old.ProfileType
           pid == IF typed /\ new.ProfileType = FSC_CTL_PID
                  THEN ParsePid(old.Pid, new.Pid, n) ELSE old.Pid
           poly == IF typed /\ new.ProfileType = FSC_CTL_POLYNOMIAL
                   THEN ParsePoly(old.Poly, new.Poly, n) ELSE old.Poly
<1>3. ParseItem(old, item) =
        [SensorNum |-> num, ProfileType |-> type, Pid |-> pid, Poly |-> poly]
  BY Zenon DEF ParseItem
<1> HIDE DEF new, n, typed
<1>4. /\ num \in INT8U /\ type \in 0 .. 2
      /\ pid \in PidParam /\ poly \in PolyParam
  BY <1>1, <1>2, ParsePidType, ParsePolyType
<1> HIDE DEF num, type, pid, poly
<1> QED BY <1>3, <1>4 DEF Profile

\* Whatever FSCInitialize reads, the configuration keeps its type.
LEMMA InitializeType ==
    ASSUME NEW a \in KnownAirflow, NEW r \in FileReads,
           LoopTypeOK, FSCInitialize(a, r)
    PROVE  /\ sysInfo' \in SystemInfo
           /\ total' \in INT8U
           /\ profile' \in [SlotIndex -> Profile]
<1> DEFINE file == ConfigFile[AirflowPath[a]]
<1>1. file \in ConfigFileType
  BY AirflowPathAssumption, ConfigFileAssumption DEF KnownAirflow
<1>2. /\ sysInfo' = InitializedSystemInfo(file, r, sysInfo)
      /\ total' = InitializedTotal(file, r, total)
      /\ profile' = InitializedProfiles(file, r, profile)
  BY DEF FSCInitialize
<1> HIDE DEF file
<1>3. /\ file.System \in SystemInfo
      /\ file.Items \in Seq(ProfileItem)
  BY <1>1 DEF ConfigFileType
<1>4. /\ sysInfo \in SystemInfo /\ total \in INT8U
      /\ profile \in [SlotIndex -> Profile]
  BY DEF LoopTypeOK
<1>5. sysInfo' \in SystemInfo
  <2>1. ParseSystemInfo(file, sysInfo) \in SystemInfo
    BY <1>3, <1>4 DEF ParseSystemInfo, SystemInfo
  <2> QED BY <1>2, <1>4, <2>1 DEF InitializedSystemInfo
<1>6. ParsedTotal(file) \in INT8U
  <2>1. Len(file.Items) \in Nat
    BY <1>3
  <2> QED BY <2>1, ModByte, Zenon DEF ParsedTotal
<1>7. total' \in INT8U
  BY <1>2, <1>4, <1>6 DEF InitializedTotal
<1>8. ParseProfiles(file, profile) \in [SlotIndex -> Profile]
  <2>1. CASE ParsedTotal(file) > FSC_SENSOR_CNT_MAX
    BY <1>4, <2>1, Zenon DEF ParseProfiles
  <2>2. CASE ~ (ParsedTotal(file) > FSC_SENSOR_CNT_MAX)
    <3>1. ASSUME NEW i \in SlotIndex, ReachesItem(file, i)
          PROVE  ParseItem(profile[i], file.Items[i]) \in Profile
      <4>1. i \in Nat /\ i >= 1 /\ i <= ParsedTotal(file)
        BY <3>1, <1>6, TableAssumption DEF SlotIndex, ReachesItem, INT8U
      <4>2. Len(file.Items) \in Nat /\ ParsedTotal(file) <= Len(file.Items)
        <5>1. Len(file.Items) \in Nat
          BY <1>3
        <5> QED BY <5>1, ModByte, Zenon DEF ParsedTotal
      <4>3. ParsedTotal(file) \in Int
        BY <1>6 DEF INT8U
      <4>4. file.Items[i] \in ProfileItem
        BY <1>3, <4>1, <4>2, <4>3
      <4> QED BY <1>4, <4>4, ParseItemType
    <3>2. ParseProfiles(file, profile) =
            [i \in SlotIndex |->
                IF ReachesItem(file, i) THEN ParseItem(profile[i], file.Items[i])
                ELSE profile[i]]
      BY <2>2, Zenon DEF ParseProfiles, SlotIndex
    <3> QED BY <1>4, <3>1, <3>2
  <2> QED BY <2>1, <2>2
<1>9. profile' \in [SlotIndex -> Profile]
  BY <1>2, <1>4, <1>8 DEF InitializedProfiles
<1> QED BY <1>5, <1>7, <1>9

-----------------------------------------------------------------------------
(* What one pass of the scan does to its slot.                             *)

\* A slot whose presence is updated is a slot.
LEMMA PresentSlot ==
    ASSUME NEW s \in Slot, NEW b \in BOOLEAN
    PROVE  [s EXCEPT !.Present = b] \in Slot
BY DEF Slot

\* Sampling keeps the type of the slot, its last PWM and its demand.
LEMMA SampledSlot ==
    ASSUME NEW s \in Slot, NEW info \in SensorInfo
    PROVE  /\ Sampled(s, info) \in Slot
           /\ Sampled(s, info).LastPWM = s.LastPWM
           /\ Sampled(s, info).LastTemp = s.LastTemp
           /\ Sampled(s, info).CurrentPWM = s.CurrentPWM
<1> DEFINE present == info.Present
           s1 == [s EXCEPT !.Present = present]
           s2 == [s1 EXCEPT !.CurrentTemp =
                     IF info.Unable THEN s1.CurrentTemp ELSE info.Reading]
           s3 == [s EXCEPT !.Present = FALSE]
<1>1. /\ info.Present \in BOOLEAN /\ info.Unable \in BOOLEAN
      /\ info.Reading \in Int
  <2>1. info.Present \in BOOLEAN /\ info.Unable \in BOOLEAN /\ info.Reading \in Reading
    BY DEF SensorInfo
  <2>2. \A t \in INT8U : t \in Int
    BY DEF INT8U
  <2> QED BY <2>1, <2>2, ReadingAssumption
<1>2. /\ s1 \in Slot /\ s1.LastPWM = s.LastPWM /\ s1.LastTemp = s.LastTemp /\ s1.CurrentPWM = s.CurrentPWM
      /\ s3 \in Slot /\ s3.LastPWM = s.LastPWM /\ s3.LastTemp = s.LastTemp /\ s3.CurrentPWM = s.CurrentPWM
      /\ s1.CurrentTemp \in Int
  <2>1. present \in BOOLEAN
    BY <1>1
  <2> HIDE DEF present
  <2>2. s1 \in Slot /\ s3 \in Slot
    BY <2>1, PresentSlot, Zenon
  <2>3. /\ s1.LastPWM = s.LastPWM /\ s1.LastTemp = s.LastTemp /\ s1.CurrentPWM = s.CurrentPWM
        /\ s3.LastPWM = s.LastPWM /\ s3.LastTemp = s.LastTemp /\ s3.CurrentPWM = s.CurrentPWM
    BY DEF Slot
  <2> HIDE DEF s1
  <2>4. s1.CurrentTemp \in Int
    BY <2>2 DEF Slot
  <2> QED BY <2>2, <2>3, <2>4
<1>3. Sampled(s, info) = IF info.Available THEN s2 ELSE s3
  BY Zenon DEF Sampled
<1> HIDE DEF s1, s3
<1>4. /\ s2 \in Slot /\ s2.LastPWM = s.LastPWM /\ s2.LastTemp = s.LastTemp /\ s2.CurrentPWM = s.CurrentPWM
  BY <1>1, <1>2 DEF Slot
<1> HIDE DEF s2
<1> QED BY <1>2, <1>3, <1>4, Zenon

\* The slot that a disabled sensor leaves.
LEMMA SkippedSlot ==
    ASSUME NEW s \in Slot, NEW q \in INT8U
    PROVE  LET r == [s EXCEPT !.CurrentPWM = q]
           IN  /\ r \in Slot /\ r.Present = s.Present
               /\ r.LastPWM = s.LastPWM /\ r.CurrentPWM = q
BY DEF Slot

\* What the scan of a profile does, whatever its algorithm: the profile is
\* accumulated with some slot value r, which keeps the type; it is either
\* within the limits of the running configuration, or a filtered reading, or
\* the value inherited by a disabled sensor; and it respects the rates.
InLimits(r) ==
    /\ r.CurrentPWM >= sysInfo.FanInitialPWM
    /\ \/ r.LastPWM <= sysInfo.FanMaxPWM * SCALE
       \/ r.LastPWM = sysInfo.FanInitialPWM * SCALE
    /\ \/ r.CurrentPWM <= sysInfo.FanMaxPWM
       \/ r.CurrentPWM = sysInfo.FanInitialPWM
Filtered(r) ==
    /\ profile[idx].ProfileType = FSC_CTL_POLYNOMIAL
    /\ Abs(r.CurrentTemp - slot[idx].LastTemp) > TEMP_READING_RANGE
    /\ r.LastPWM = slot[idx].LastPWM
    /\ r.CurrentPWM = Truncate(r.LastPWM)
Inherited(r) ==
    /\ ~r.Present
    /\ r.LastPWM = slot[idx].LastPWM
    /\ r.CurrentPWM = pwmValue
TooFar(i, r) ==
    TooFarToFall([slot[i] EXCEPT !.CurrentTemp = r.CurrentTemp], profile[i].Poly)
RateKept(i, r) ==
    LET rise == r.LastPWM - slot[i].LastPWM
        par == profile[i].Poly
        floor == sysInfo.FanInitialPWM
    IN  profile[i].ProfileType = FSC_CTL_POLYNOMIAL =>
        /\ \/ rise < (par.MaxRisingRate + 1) * SCALE
           \/ r.LastPWM = floor * SCALE
        /\ \/ rise > -((par.MaxFallingRate + 1) * SCALE)
           \/ r.LastPWM = AtLeast(sysInfo.FanMaxPWM, floor) * SCALE
           \/ TooFar(i, r)
Controlled(r) ==
    /\ Scanning
    /\ r \in Slot
    /\ RateKept(idx, r)
    /\ \/ r.Present /\ (InLimits(r) \/ Filtered(r))
       \/ Inherited(r)
    /\ Accumulate(r)

\* A slot that keeps its last PWM respects the rates.
LEMMA SameRate ==
    ASSUME LoopTypeOK, NEW i \in SlotIndex, NEW r, r.LastPWM = slot[i].LastPWM
    PROVE  RateKept(i, r)
<1> DEFINE last == slot[i].LastPWM
           up == profile[i].Poly.MaxRisingRate
           down == profile[i].Poly.MaxFallingRate
<1>1. last \in Int /\ up \in Nat /\ down \in Nat
  <2>1. slot[i] \in Slot /\ profile[i] \in Profile
    BY DEF LoopTypeOK
  <2>2. last \in ScaledPWM
    BY <2>1 DEF Slot
  <2>3. up \in Nat /\ down \in Nat
    <3>1. profile[i].Poly \in PolyParam
      BY <2>1 DEF Profile
    <3> QED BY <3>1, CurveParts
  <2> QED BY <2>2, <2>3, ScaledPWMRange
<1> HIDE DEF last, up, down
<1>2. /\ last - last < (up + 1) * SCALE
      /\ last - last > -((down + 1) * SCALE)
  BY <1>1 DEF SCALE
<1> QED BY <1>2, Zenon DEF RateKept, last, up, down

\* The polynomial algorithm keeps the reading that it was given.
LEMMA PolynomialKeepsReading ==
    ASSUME NEW s \in Slot, NEW par \in PolyParam, NEW min \in INT8U, NEW max \in INT8U,
           NEW beyond \in INT8U
    PROVE  FSCGetPWMValue_Polynomial(s, par, min, max, beyond).CurrentTemp = s.CurrentTemp
<1> DEFINE r == FSCGetPWMValue_Polynomial(s, par, min, max, beyond)
           c == s.CurrentTemp
<1>1. CASE IsDirtyReading(s)
  <2> DEFINE q == Truncate(s.LastPWM)
  <2>1. r = [s EXCEPT !.LastTemp = c, !.CurrentPWM = q]
    BY <1>1, Zenon DEF FSCGetPWMValue_Polynomial
  <2> HIDE DEF q, r
  <2> QED BY <2>1 DEF Slot, r
<1>2. CASE ~IsDirtyReading(s)
  <2> DEFINE pwm0 == Clamp(RateLimited(HysteresisTarget(s, par, beyond), s.LastPWM, par),
                           min, max)
             q == pwm0 * SCALE
  <2>1. r = [s EXCEPT !.LastTemp = c, !.LastPWM = q, !.CurrentPWM = pwm0]
    BY <1>2, Zenon DEF FSCGetPWMValue_Polynomial
  <2> HIDE DEF q, pwm0, r
  <2> QED BY <2>1 DEF Slot, r
<1> QED BY <1>1, <1>2

\* How far the target of a polynomial curve is depends on the two readings and
\* on the last PWM of a slot alone.
LEMMA SameDistance ==
    ASSUME NEW s, NEW t, NEW par, TooFarToFall(s, par),
           t.CurrentTemp = s.CurrentTemp, t.LastTemp = s.LastTemp, t.LastPWM = s.LastPWM
    PROVE  TooFarToFall(t, par)
<1>1. par.CurveType = FSC_AMBIENT_CAL_POLYNOMIAL
  BY DEF TooFarToFall
<1>2. CurveTarget(t, par, 0) = CurveTarget(s, par, 0)
  BY <1>1, Zenon DEF CurveTarget
<1>3. HysteresisTarget(t, par, 0) = HysteresisTarget(s, par, 0)
  BY <1>2, Zenon DEF HysteresisTarget
<1> QED BY <1>1, <1>3 DEF TooFarToFall

\* A polynomial step respects them.
LEMMA PolynomialRateKept ==
    ASSUME LoopTypeOK, NEW i \in SlotIndex, NEW s \in Slot, NEW beyond \in INT8U,
           s.LastPWM = slot[i].LastPWM, s.LastTemp = slot[i].LastTemp
    PROVE  RateKept(i, FSCGetPWMValue_Polynomial(s, profile[i].Poly,
                           sysInfo.FanInitialPWM, sysInfo.FanMaxPWM, beyond))
<1> DEFINE min == sysInfo.FanInitialPWM
           max == sysInfo.FanMaxPWM
           par == profile[i].Poly
           r == FSCGetPWMValue_Polynomial(s, par, min, max, beyond)
           last == s.LastPWM
           new == r.LastPWM
<1>1. par \in PolyParam /\ min \in INT8U /\ max \in INT8U
  <2>1. sysInfo \in SystemInfo /\ profile[i] \in Profile
    BY DEF LoopTypeOK
  <2> QED BY <2>1 DEF Profile, SystemInfo
<1>2. /\ new - last < (par.MaxRisingRate + 1) * SCALE
         \/ (new - last) + last = min * SCALE
      /\ \/ new - last > -((par.MaxFallingRate + 1) * SCALE)
         \/ (new - last) + last = AtLeast(max, min) * SCALE
         \/ TooFarToFall(s, par)
  BY <1>1, PolynomialRates
<1>3. new \in Int /\ last \in Int
  <2>1. r \in Slot
    BY <1>1, PolynomialStep
  <2> HIDE DEF r
  <2>2. new \in ScaledPWM /\ last \in ScaledPWM
    BY <2>1 DEF Slot
  <2> QED BY <2>2, ScaledPWMRange
<1>4. TooFarToFall(s, par) => TooFar(i, r)
  <2> DEFINE c == r.CurrentTemp
             seen == [slot[i] EXCEPT !.CurrentTemp = c]
  <2>1. c = s.CurrentTemp
    BY <1>1, PolynomialKeepsReading
  <2> HIDE DEF c
  <2>2. slot[i] \in Slot
    BY DEF LoopTypeOK
  <2>3. /\ seen.CurrentTemp = c /\ seen.LastTemp = slot[i].LastTemp
        /\ seen.LastPWM = slot[i].LastPWM
    BY <2>2 DEF Slot
  <2>4. TooFar(i, r) = TooFarToFall(seen, par)
    BY Zenon DEF TooFar, c
  <2> HIDE DEF seen, par
  <2> QED BY <2>1, <2>3, <2>4, SameDistance, Zenon
<1> HIDE DEF r, new, last
<1>5. (new - last) + last = new
  BY <1>3
<1> QED BY <1>2, <1>4, <1>5, Zenon DEF RateKept, r, new, last

\* A sensor that the scan controls or skips is stored as Controlled says.
LEMMA ScanStep ==
    ASSUME NEW info \in SensorInfo, LoopTypeOK,
           ControlPid(info) \/ ControlPolynomial(info) \/ SkipDisabled(info)
    PROVE  \E r \in Slot : Controlled(r)
<1> DEFINE s == Sampled(slot[idx], info)
           min == sysInfo.FanInitialPWM
           max == sysInfo.FanMaxPWM
<1>1. Scanning
  BY DEF ControlPid, ControlPolynomial, SkipDisabled
<1>2. idx \in SlotIndex
  <2>1. idx \in Nat /\ idx >= 1 /\ idx <= FSC_SENSOR_CNT_MAX
    BY <1>1, TableAssumption DEF Scanning, LoopTypeOK
  <2> QED BY <2>1, TableAssumption DEF SlotIndex
<1>3. /\ slot[idx] \in Slot /\ profile[idx] \in Profile
      /\ sysInfo \in SystemInfo /\ pwmValue \in INT8U
  BY <1>2 DEF LoopTypeOK
<1>4. /\ profile[idx].Pid \in PidParam /\ profile[idx].Poly \in PolyParam
      /\ min \in INT8U /\ max \in INT8U
  BY <1>3 DEF Profile, SystemInfo
<1>5. s \in Slot /\ s.LastPWM = slot[idx].LastPWM /\ s.LastTemp = slot[idx].LastTemp
  BY <1>3, SampledSlot
<1> HIDE DEF s
<1>6. CASE ControlPid(info)
  <2> DEFINE r == FSCGetPWMValue_PID(s, profile[idx].Pid, min, max)
  <2>1. Accumulate(r) /\ s.Present
    BY <1>6, Zenon DEF ControlPid, s
  <2>2. /\ r \in Slot /\ r.Present = s.Present
        /\ r.CurrentPWM >= min
        /\ r.LastPWM <= max * SCALE \/ r.LastPWM = min * SCALE
        /\ r.CurrentPWM <= max \/ r.CurrentPWM = min
    BY <1>4, <1>5, PidStep
  <2> HIDE DEF r
  <2>3. RateKept(idx, r)
    BY <1>6 DEF ControlPid, RateKept, FSC_CTL_PID, FSC_CTL_POLYNOMIAL
  <2>4. Controlled(r)
    BY <1>1, <2>1, <2>2, <2>3, Zenon DEF Controlled, InLimits
  <2> QED BY <2>2, <2>4
<1>7. CASE ControlPolynomial(info)
  <2> PICK beyond \in BeyondTable(profile[idx].Poly) :
          Accumulate(FSCGetPWMValue_Polynomial(s, profile[idx].Poly, min, max, beyond))
    BY <1>7, Zenon DEF ControlPolynomial, s
  <2> DEFINE r == FSCGetPWMValue_Polynomial(s, profile[idx].Poly, min, max, beyond)
  <2>1. beyond \in INT8U
    BY DEF BeyondTable, INT8U
  <2>2. Accumulate(r) /\ s.Present /\ profile[idx].ProfileType = FSC_CTL_POLYNOMIAL
    BY <1>7, Zenon DEF ControlPolynomial, s
  <2>3. /\ r \in Slot /\ r.Present = s.Present
        /\ \/ /\ IsDirtyReading(s) /\ r.CurrentTemp = s.CurrentTemp
              /\ r.LastPWM = s.LastPWM
              /\ r.CurrentPWM = Truncate(s.LastPWM)
           \/ /\ r.LastPWM = r.CurrentPWM * SCALE
              /\ r.CurrentPWM >= min
              /\ r.CurrentPWM <= max \/ r.CurrentPWM = min
    BY <1>4, <1>5, <2>1, PolynomialStep
  <2>4. RateKept(idx, r)
    BY <1>2, <1>5, <2>1, PolynomialRateKept
  <2> HIDE DEF r
  <2>5. r.CurrentPWM \in Int /\ max \in Int /\ min \in Int
    BY <1>4, <2>3 DEF Slot, INT8U
  <2>6. InLimits(r) \/ Filtered(r)
    <3>1. CASE /\ IsDirtyReading(s) /\ r.CurrentTemp = s.CurrentTemp
               /\ r.LastPWM = s.LastPWM /\ r.CurrentPWM = Truncate(s.LastPWM)
      BY <1>5, <2>2, <3>1, Zenon DEF Filtered, IsDirtyReading
    <3>2. CASE /\ r.LastPWM = r.CurrentPWM * SCALE
               /\ r.CurrentPWM >= min
               /\ r.CurrentPWM <= max \/ r.CurrentPWM = min
      BY <2>5, <3>2 DEF InLimits, SCALE
    <3> QED BY <2>3, <3>1, <3>2
  <2>7. Controlled(r)
    BY <1>1, <2>2, <2>3, <2>6, <2>4, Zenon DEF Controlled
  <2> QED BY <2>3, <2>7
<1>8. CASE SkipDisabled(info)
  <2> DEFINE r == [s EXCEPT !.CurrentPWM = pwmValue]
  <2>1. Accumulate(r) /\ ~s.Present
    BY <1>8, Zenon DEF SkipDisabled, s
  <2>2. /\ r \in Slot /\ r.Present = s.Present
        /\ r.LastPWM = s.LastPWM /\ r.CurrentPWM = pwmValue
    BY <1>3, <1>5, SkippedSlot
  <2> HIDE DEF r
  <2>3. RateKept(idx, r)
    BY <1>2, <1>5, <2>2, SameRate
  <2>4. Controlled(r)
    BY <1>1, <1>5, <2>1, <2>2, <2>3, Zenon DEF Controlled, Inherited
  <2> QED BY <2>2, <2>4
<1> QED BY <1>6, <1>7, <1>8

-----------------------------------------------------------------------------
(* Type correctness.                                                       *)

\* A table with one entry overwritten is a table.
LEMMA Overwritten ==
    ASSUME NEW S, NEW T, NEW f \in [S -> T], NEW i, NEW v \in T
    PROVE  [f EXCEPT ![i] = v] \in [S -> T]
BY Zenon

\* The variables of the task have their types when it starts.
LEMMA InitType == LoopInit => LoopTypeOK
<1> SUFFICES ASSUME LoopInit PROVE LoopTypeOK
  OBVIOUS
<1>1. ZeroSlot \in Slot
  <2>1. 0 \in ScaledPWM
    BY ScaledPWMRange
  <2> QED BY <2>1 DEF ZeroSlot, Slot, INT8U
<1>2. ZeroProfile \in Profile
  <2> DEFINE points == [i \in 1 .. MAX_PIECEWISE_POINTS |-> [temp |-> 0, pwm |-> 0]]
  <2>1. points \in CurveTable
    BY DEF CurveTable, CurvePoint, INT8U
  <2> HIDE DEF points
  <2>2. ZeroProfile.Poly \in PolyParam
    BY <2>1 DEF ZeroProfile, PolyParam, INT8U, points
  <2>3. ZeroProfile.Pid \in PidParam
    BY DEF ZeroProfile, PidParam
  <2>4. /\ ZeroProfile.SensorNum \in INT8U
        /\ ZeroProfile.ProfileType \in 0 .. 2
    BY DEF ZeroProfile, INT8U, FSC_CTL_INVALID
  <2>5. ZeroProfile = [SensorNum |-> ZeroProfile.SensorNum,
                       ProfileType |-> ZeroProfile.ProfileType,
                       Pid |-> ZeroProfile.Pid, Poly |-> ZeroProfile.Poly]
    BY DEF ZeroProfile
  <2> QED BY <2>2, <2>3, <2>4, <2>5 DEF Profile
<1>3. /\ initFlag \in BOOLEAN /\ pc \in {"idle", "scan", "apply", "undefined"}
  BY Zenon DEF LoopInit
<1>4. sysInfo \in SystemInfo
  BY DEF LoopInit, SystemInfo, INT8U
<1>5. profile \in [SlotIndex -> Profile] /\ slot \in [SlotIndex -> Slot]
  BY <1>1, <1>2 DEF LoopInit
<1>6. /\ total \in INT8U /\ idx \in 1 .. 256
      /\ pwmValue \in INT8U /\ outputPWM \in INT8U /\ pwm \in INT8U
  BY DEF LoopInit, INT8U
<1> QED BY <1>3, <1>4, <1>5, <1>6 DEF LoopTypeOK

\* One pass of the scan keeps the types: the demand is a byte and the index,
\* bounded by a byte, ends at 256 at most.
LEMMA ControlledType ==
    ASSUME NEW r, LoopTypeOK, Controlled(r)
    PROVE  LoopTypeOK'
<1>1. r \in Slot /\ r.CurrentPWM \in INT8U
  BY DEF Controlled, Slot
<1>2. slot' \in [SlotIndex -> Slot]
  <2>1. slot \in [SlotIndex -> Slot] /\ slot' = [slot EXCEPT ![idx] = r]
    BY DEF LoopTypeOK, Controlled, Accumulate
  <2> QED BY <1>1, <2>1, Overwritten, Zenon
<1>3. idx' \in 1 .. 256
  BY DEF LoopTypeOK, Controlled, Accumulate, Scanning, INT8U
<1>4. pwmValue' \in INT8U /\ outputPWM' \in INT8U
  <2>1. pwmValue' = r.CurrentPWM /\ outputPWM' = AtLeast(outputPWM, r.CurrentPWM)
    BY DEF Controlled, Accumulate
  <2>2. outputPWM \in INT8U
    BY DEF LoopTypeOK
  <2> QED BY <1>1, <2>1, <2>2, Zenon DEF AtLeast
<1>5. UNCHANGED <<initFlag, sysInfo, total, profile, pc, pwm>>
  BY DEF Controlled, Accumulate, configVars
<1> QED BY <1>2, <1>3, <1>4, <1>5 DEF LoopTypeOK

\* A rejected profile has only been sampled.
LEMMA RejectedSlot ==
    ASSUME NEW info \in SensorInfo, LoopTypeOK, RejectProfile(info)
    PROVE  /\ slot' = [slot EXCEPT ![idx] = Sampled(slot[idx], info)]
           /\ slot' \in [SlotIndex -> Slot]
           /\ \A i \in SlotIndex : /\ slot'[i].LastPWM = slot[i].LastPWM
                                  /\ slot'[i].CurrentPWM = slot[i].CurrentPWM
<1>1. slot' = [slot EXCEPT ![idx] = Sampled(slot[idx], info)]
  BY DEF RejectProfile
<1>2. idx \in SlotIndex
  <2>1. idx \in Nat /\ idx >= 1 /\ idx <= FSC_SENSOR_CNT_MAX
    BY TableAssumption DEF RejectProfile, Scanning, LoopTypeOK
  <2> QED BY <2>1, TableAssumption DEF SlotIndex
<1>3. slot \in [SlotIndex -> Slot]
  BY DEF LoopTypeOK
<1> DEFINE s == Sampled(slot[idx], info)
<1>4. /\ s \in Slot /\ s.LastPWM = slot[idx].LastPWM
      /\ s.CurrentPWM = slot[idx].CurrentPWM
  BY <1>2, <1>3, SampledSlot
<1> HIDE DEF s
<1>5. slot' = [slot EXCEPT ![idx] = s]
  BY <1>1 DEF s
<1>6. slot' \in [SlotIndex -> Slot]
  BY <1>3, <1>4, <1>5, Overwritten, Zenon
<1>7. \A i \in SlotIndex : slot'[i] = IF i = idx THEN s ELSE slot[i]
  BY <1>2, <1>3, <1>5
<1>8. \A i \in SlotIndex : /\ slot'[i].LastPWM = slot[i].LastPWM
                         /\ slot'[i].CurrentPWM = slot[i].CurrentPWM
  BY <1>4, <1>7, Zenon
<1> QED BY <1>1, <1>6, <1>8

\* The cases of a step of the loop, for all the invariance proofs.
LEMMA LoopCases ==
    ASSUME LoopTypeOK, [LoopNext]_loopVars,
           NEW P,
           \A a \in KnownAirflow, r \in FileReads :
               StartCycle(a, r) \/ FailToInitialize(a, r) => P,
           StartCycleUninitialized => P,
           \A r \in Slot : Controlled(r) => P,
           \A info \in SensorInfo : RejectProfile(info) => P,
           FinishScan => P, OverrunTables => P, FinishCycle => P,
           UNCHANGED loopVars => P
    PROVE  P
<1>1. ASSUME NEW info \in SensorInfo, ScanSensor(info)
      PROVE  P
  <2>1. CASE RejectProfile(info)
    BY <2>1
  <2>2. CASE ControlPid(info) \/ ControlPolynomial(info) \/ SkipDisabled(info)
    BY <2>2, ScanStep
  <2> QED BY <1>1, <2>1, <2>2 DEF ScanSensor
<1> QED BY <1>1, Zenon DEF LoopNext

\* And every step keeps them.
LEMMA NextType == LoopTypeOK /\ [LoopNext]_loopVars => LoopTypeOK'
<1> SUFFICES ASSUME LoopTypeOK, [LoopNext]_loopVars PROVE LoopTypeOK'
  OBVIOUS
<1>1. ASSUME NEW a \in KnownAirflow, NEW r \in FileReads,
             StartCycle(a, r) \/ FailToInitialize(a, r)
      PROVE  LoopTypeOK'
  <2>1. FSCInitialize(a, r)
    BY <1>1 DEF StartCycle, FailToInitialize
  <2>2. /\ sysInfo' \in SystemInfo
        /\ total' \in INT8U
        /\ profile' \in [SlotIndex -> Profile]
    BY <2>1, InitializeType
  <2>3. initFlag' \in BOOLEAN
    BY <1>1, Zenon DEF StartCycle, FailToInitialize, LoopTypeOK
  <2>4. /\ pc' \in {"idle", "scan", "apply", "undefined"}
        /\ UNCHANGED <<slot, idx, pwmValue, outputPWM, pwm>>
    BY <1>1 DEF StartCycle, FailToInitialize, localVars
  <2> QED BY <2>2, <2>3, <2>4 DEF LoopTypeOK
<1>2. StartCycleUninitialized => LoopTypeOK'
  BY DEF StartCycleUninitialized, LoopTypeOK, configVars, localVars
<1>3. ASSUME NEW r \in Slot, Controlled(r)
      PROVE  LoopTypeOK'
  BY <1>3, ControlledType
<1>4. ASSUME NEW info \in SensorInfo, RejectProfile(info)
      PROVE  LoopTypeOK'
  <2>1. slot' \in [SlotIndex -> Slot]
    BY <1>4, RejectedSlot
  <2> QED BY <1>4, <2>1 DEF RejectProfile, LoopTypeOK, configVars, localVars
<1>5. FinishScan => LoopTypeOK'
  BY DEF FinishScan, LoopTypeOK, configVars
<1>6. OverrunTables => LoopTypeOK'
  BY DEF OverrunTables, LoopTypeOK, configVars, localVars
<1>7. FinishCycle => LoopTypeOK'
  BY DEF FinishCycle, LoopTypeOK, configVars, INT8U
<1>8. UNCHANGED loopVars => LoopTypeOK'
  BY DEF loopVars, configVars, localVars, LoopTypeOK
<1> QED BY <1>1, <1>2, <1>3, <1>4, <1>5, <1>6, <1>7, <1>8, LoopCases

\* The state keeps its types: no partly read file, no reading and no sequence of
\* configurations takes a PWM out of a byte or the loop index out of its range.
THEOREM TypeCorrect == LoopSpec => []LoopTypeOK
<1>1. LoopInit => LoopTypeOK
  BY InitType
<1>2. LoopTypeOK /\ [LoopNext]_loopVars => LoopTypeOK'
  BY NextType
<1> QED BY <1>1, <1>2, PTL DEF LoopSpec

-----------------------------------------------------------------------------
(* The output is the highest demand.  The inductive invariant adds that a  *)
(* cycle starts from zero, and that pwm_value, which a disabled sensor     *)
(* inherits, has already entered the maximum.                              *)

HighestDemandInv ==
    /\ LoopTypeOK
    /\ pc = "idle" => idx = 1 /\ outputPWM = 0 /\ pwmValue = 0 /\ pwm = 0
    /\ pc \in {"scan", "apply"} => pwmValue <= outputPWM
    /\ OutputIsHighestDemand

\* A scan is inside the table, and what it has passed grows by one sensor.
LEMMA IndexInTable ==
    ASSUME LoopTypeOK, Scanning
    PROVE  /\ idx \in SlotIndex
           /\ idx \in Nat
           /\ \A j \in SlotIndex : j < idx + 1 <=> j < idx \/ j = idx
<1>1. idx \in Nat /\ idx >= 1 /\ idx <= FSC_SENSOR_CNT_MAX
  BY TableAssumption DEF Scanning, LoopTypeOK
<1>2. SlotIndex \subseteq Nat
  BY TableAssumption DEF SlotIndex
<1> QED BY <1>1, <1>2, TableAssumption DEF SlotIndex

\* The slots after a pass: the current one is r, the others are as before.
LEMMA ControlledSlots ==
    ASSUME NEW r, LoopTypeOK, Controlled(r)
    PROVE  /\ slot'[idx] = r
           /\ \A j \in SlotIndex : j # idx => slot'[j] = slot[j]
           /\ Scanned \subseteq SlotIndex
           /\ idx \notin Scanned
           /\ Scanned' = Scanned \cup {idx}
<1>1. Scanning /\ idx' = idx + 1 /\ slot' = [slot EXCEPT ![idx] = r]
  BY DEF Controlled, Accumulate
<1>2. slot \in [SlotIndex -> Slot]
  BY DEF LoopTypeOK
<1>3. /\ slot'[idx] = r
      /\ \A j \in SlotIndex : j # idx => slot'[j] = slot[j]
  BY <1>1, <1>2, IndexInTable
<1>4. Scanned \subseteq SlotIndex /\ idx \notin Scanned
  BY <1>1, IndexInTable DEF Scanned
<1>5. Scanned' = Scanned \cup {idx}
  BY <1>1, IndexInTable DEF Scanned
<1> QED BY <1>3, <1>4, <1>5

\* A demand that enters the maximum keeps it the highest of the demands passed.
LEMMA ControlledHighest ==
    ASSUME NEW r \in Slot, HighestDemandInv, Controlled(r)
    PROVE  HighestDemandInv'
<1>1. LoopTypeOK /\ pc = "scan" /\ Scanning
  BY DEF HighestDemandInv, Controlled, Scanning
<1>2. LoopTypeOK'
  BY <1>1, ControlledType
<1>3. /\ pc' = "scan" /\ pwmValue' = r.CurrentPWM
      /\ outputPWM' = AtLeast(outputPWM, r.CurrentPWM)
  BY <1>1 DEF Controlled, Accumulate
<1>4. /\ r.CurrentPWM \in Int /\ outputPWM \in Int
      /\ \A j \in SlotIndex : slot[j].CurrentPWM \in Int
  <2>1. \A q \in INT8U : q \in Int
    BY DEF INT8U
  <2>2. \A s \in Slot : s.CurrentPWM \in INT8U
    BY DEF Slot
  <2>3. outputPWM \in INT8U /\ \A j \in SlotIndex : slot[j] \in Slot
    BY <1>1 DEF LoopTypeOK
  <2> QED BY <2>1, <2>2, <2>3
<1>5. /\ outputPWM' >= outputPWM /\ outputPWM' >= r.CurrentPWM
      /\ outputPWM' = outputPWM \/ (outputPWM' = r.CurrentPWM /\ r.CurrentPWM > outputPWM)
      /\ outputPWM' \in Int
  BY <1>3, <1>4 DEF AtLeast
<1>6. /\ slot'[idx] = r
      /\ \A j \in Scanned : slot'[j] = slot[j]
      /\ Scanned \subseteq SlotIndex
      /\ Scanned' = Scanned \cup {idx}
  BY <1>1, ControlledSlots
<1>7. /\ \A j \in Scanned : slot[j].CurrentPWM <= outputPWM
      /\ outputPWM = 0 \/ \E j \in Scanned : slot[j].Present /\ slot[j].CurrentPWM = outputPWM
      /\ pwmValue <= outputPWM
  BY <1>1 DEF HighestDemandInv, OutputIsHighestDemand
<1>8. \A j \in Scanned' : slot'[j].CurrentPWM <= outputPWM'
  <2>1. ASSUME NEW j \in Scanned PROVE slot'[j].CurrentPWM <= outputPWM'
    BY <1>4, <1>5, <1>6, <1>7
  <2> QED BY <1>5, <1>6, <2>1
<1>9. \/ outputPWM' = 0
      \/ \E j \in Scanned' : slot'[j].Present /\ slot'[j].CurrentPWM = outputPWM'
  <2>1. CASE outputPWM' = outputPWM
    <3>1. CASE outputPWM = 0
      BY <2>1, <3>1
    <3>2. ASSUME NEW j \in Scanned, slot[j].Present, slot[j].CurrentPWM = outputPWM
          PROVE  \E k \in Scanned' : slot'[k].Present /\ slot'[k].CurrentPWM = outputPWM'
      BY <1>6, <2>1, <3>2, Zenon
    <3> QED BY <1>7, <3>1, <3>2
  <2>2. CASE outputPWM' = r.CurrentPWM /\ r.CurrentPWM > outputPWM
    <3>1. r.CurrentPWM # pwmValue
      <4>1. pwmValue \in Int
        BY <1>1 DEF LoopTypeOK, INT8U
      <4> QED BY <1>4, <1>7, <2>2, <4>1
    <3>2. r.Present
      BY <3>1, Zenon DEF Controlled, Inherited
    <3> QED BY <1>6, <2>2, <3>2, Zenon
  <2> QED BY <1>5, <2>1, <2>2
<1>10. OutputIsHighestDemand'
  BY <1>8, <1>9, Zenon DEF OutputIsHighestDemand
<1> QED BY <1>2, <1>3, <1>5, <1>10 DEF HighestDemandInv

\* The maximum is the highest demand before any sensor is read.
LEMMA InitHighest == LoopInit => HighestDemandInv
<1> SUFFICES ASSUME LoopInit PROVE HighestDemandInv
  OBVIOUS
<1>1. LoopTypeOK
  BY InitType
<1>2. /\ pc = "idle" /\ idx = 1 /\ outputPWM = 0 /\ pwmValue = 0 /\ pwm = 0
  BY DEF LoopInit
<1> QED BY <1>1, <1>2 DEF HighestDemandInv, OutputIsHighestDemand

\* A step that changes neither the slots nor the index and output of the scan
\* keeps the part of the invariant that is about the scan.
LEMMA SameScan ==
    ASSUME OutputIsHighestDemand, pc \in {"scan", "apply"},
           UNCHANGED <<slot, idx, outputPWM>>
    PROVE  OutputIsHighestDemand'
<1>1. Scanned' = Scanned
  BY DEF Scanned
<1> QED BY <1>1 DEF OutputIsHighestDemand

\* A cycle starts with nothing scanned.
LEMMA EmptyScan ==
    ASSUME LoopTypeOK, idx' = 1, outputPWM' = 0
    PROVE  OutputIsHighestDemand' /\ Scanned' = {}
<1>1. Scanned' = {}
  BY TableAssumption DEF Scanned, SlotIndex
<1> QED BY <1>1, Zenon DEF OutputIsHighestDemand

\* Every step keeps it the highest of the demands passed.
LEMMA NextHighest == HighestDemandInv /\ [LoopNext]_loopVars => HighestDemandInv'
<1> SUFFICES ASSUME HighestDemandInv, [LoopNext]_loopVars PROVE HighestDemandInv'
  OBVIOUS
<1>1. /\ LoopTypeOK /\ LoopTypeOK' /\ OutputIsHighestDemand
      /\ pc = "idle" => idx = 1 /\ outputPWM = 0 /\ pwmValue = 0 /\ pwm = 0
      /\ pc \in {"scan", "apply"} => pwmValue <= outputPWM
  BY NextType DEF HighestDemandInv
<1> USE DEF configVars, localVars
<1>2. ASSUME pc = "idle", UNCHANGED <<idx, pwmValue, outputPWM, pwm>>
      PROVE  HighestDemandInv'
  BY <1>1, <1>2, EmptyScan DEF HighestDemandInv
<1>3. ASSUME NEW a \in KnownAirflow, NEW r \in FileReads,
             StartCycle(a, r) \/ FailToInitialize(a, r)
      PROVE  HighestDemandInv'
  BY <1>2, <1>3 DEF StartCycle, FailToInitialize
<1>4. StartCycleUninitialized => HighestDemandInv'
  BY <1>2 DEF StartCycleUninitialized
<1>5. ASSUME NEW r \in Slot, Controlled(r)
      PROVE  HighestDemandInv'
  BY <1>5, ControlledHighest
<1>6. ASSUME NEW info \in SensorInfo, RejectProfile(info)
      PROVE  HighestDemandInv'
  <2>1. /\ pc = "scan" /\ pc' = "apply" /\ idx \in SlotIndex /\ idx \notin Scanned
        /\ UNCHANGED <<idx, pwmValue, outputPWM, pwm>>
    BY <1>1, <1>6, IndexInTable DEF RejectProfile, Scanning, Scanned
  <2>2. \A j \in Scanned : j \in SlotIndex /\ slot'[j] = slot[j]
    <3>1. slot' = [slot EXCEPT ![idx] = Sampled(slot[idx], info)]
      BY <1>1, <1>6, RejectedSlot
    <3>2. slot \in [SlotIndex -> Slot]
      BY <1>1 DEF LoopTypeOK
    <3>3. Scanned \subseteq SlotIndex
      BY DEF Scanned
    <3> QED BY <2>1, <3>1, <3>2, <3>3, Zenon
  <2>3. Scanned' = Scanned
    BY <2>1 DEF Scanned
  <2>4. OutputIsHighestDemand'
    BY <1>1, <2>1, <2>2, <2>3, Zenon DEF OutputIsHighestDemand
  <2> QED BY <1>1, <2>1, <2>4 DEF HighestDemandInv
<1>7. FinishScan => HighestDemandInv'
  <2> SUFFICES ASSUME FinishScan PROVE HighestDemandInv'
    OBVIOUS
  <2>1. /\ pc = "scan" /\ pc' = "apply"
        /\ UNCHANGED <<slot, idx, pwmValue, outputPWM>>
    BY DEF FinishScan
  <2>2. OutputIsHighestDemand'
    BY <1>1, <2>1, SameScan
  <2> QED BY <1>1, <2>1, <2>2 DEF HighestDemandInv
<1>8. OverrunTables => HighestDemandInv'
  BY <1>1 DEF OverrunTables, HighestDemandInv, OutputIsHighestDemand
<1>9. FinishCycle => HighestDemandInv'
  BY <1>1, EmptyScan DEF FinishCycle, HighestDemandInv
<1>10. UNCHANGED loopVars => HighestDemandInv'
  <2> SUFFICES ASSUME UNCHANGED loopVars PROVE HighestDemandInv'
    OBVIOUS
  <2>1. UNCHANGED <<slot, pc, idx, pwmValue, outputPWM, pwm>>
    BY DEF loopVars
  <2>2. Scanned' = Scanned
    BY <2>1 DEF Scanned
  <2>3. OutputIsHighestDemand'
    BY <1>1, <2>1, <2>2, Zenon DEF OutputIsHighestDemand
  <2> QED BY <1>1, <2>1, <2>3 DEF HighestDemandInv
<1> QED
  BY <1>1, <1>3, <1>4, <1>5, <1>6, <1>7, <1>8, <1>9, <1>10, LoopCases

\* The output covers the demand of every scanned slot and is the demand of a
\* present one, or zero, although the loop ignores failures of the algorithms
\* and a disabled slot inherits a value.
THEOREM HighestDemandWins == LoopSpec => []OutputIsHighestDemand
<1>1. LoopInit => HighestDemandInv
  BY InitHighest
<1>2. HighestDemandInv /\ [LoopNext]_loopVars => HighestDemandInv'
  BY NextHighest
<1>3. HighestDemandInv => OutputIsHighestDemand
  BY DEF HighestDemandInv
<1> QED BY <1>1, <1>2, <1>3, PTL DEF LoopSpec

-----------------------------------------------------------------------------
(* The command stays within the limits of the files.  The inductive        *)
(* invariant carries the limits through everything a later cycle may use:  *)
(* the parsed limits, also those of a file read in part, the last PWM of   *)
(* every slot, and the value that a disabled sensor inherits.              *)

ScaledWithinLimits(x) == \E l \in Limits : x <= l * SCALE

LimitsInv ==
    /\ LoopTypeOK
    /\ WithinLimits(sysInfo.FanInitialPWM) /\ WithinLimits(sysInfo.FanMaxPWM)
    /\ \A i \in SlotIndex : ScaledWithinLimits(slot[i].LastPWM)
    /\ WithinLimits(pwmValue) /\ WithinLimits(outputPWM) /\ WithinLimits(pwm)

\* The limits of the profiles are numbers.
LEMMA LimitsAreBytes == \A l \in Limits : l \in Nat
<1>1. \A p \in ConfigPath : ConfigFile[p].System \in SystemInfo
  BY ConfigFileAssumption DEF ConfigFileType
<1>2. \A p \in ConfigPath : /\ ConfigFile[p].System.FanInitialPWM \in Nat
                            /\ ConfigFile[p].System.FanMaxPWM \in Nat
  BY <1>1 DEF SystemInfo, INT8U
<1> QED BY <1>2 DEF Limits

\* The demand of a fresh slot is within the limits.
LEMMA ZeroWithinLimits == WithinLimits(0) /\ ScaledWithinLimits(0)
<1>1. 0 \in Limits
  BY DEF Limits
<1>2. 0 <= 0 /\ 0 <= 0 * SCALE
  BY DEF SCALE
<1> QED BY <1>1, <1>2, Zenon DEF WithinLimits, ScaledWithinLimits

\* A demand below a limit is below the limit that the limit itself is below.
LEMMA BelowWithin ==
    ASSUME NEW x \in Int, NEW y \in Int, x <= y, WithinLimits(y)
    PROVE  WithinLimits(x)
BY LimitsAreBytes DEF WithinLimits

\* The same for a last PWM, in thousandths of the limit.
LEMMA BelowScaledWithin ==
    ASSUME NEW x \in Int, NEW y \in Int, x <= y * SCALE, WithinLimits(y)
    PROVE  ScaledWithinLimits(x)
BY LimitsAreBytes DEF WithinLimits, ScaledWithinLimits, SCALE

\* A filtered reading repeats the last PWM, in whole percents.
LEMMA TruncatedWithin ==
    ASSUME NEW x \in Nat, ScaledWithinLimits(x)
    PROVE  WithinLimits(Truncate(x))
<1>1. PICK l \in Limits : x <= l * SCALE
  BY DEF ScaledWithinLimits
<1>2. l \in Nat
  BY LimitsAreBytes
<1>3. Truncate(x) <= l
  BY <1>1, <1>2, TruncateBounds
<1> QED BY <1>3 DEF WithinLimits

\* Whatever FSCInitialize reads, the limits are of some file or as before.
LEMMA InitializedLimits ==
    ASSUME NEW a \in KnownAirflow, NEW r \in FileReads,
           LimitsInv, FSCInitialize(a, r)
    PROVE  WithinLimits(sysInfo'.FanInitialPWM) /\ WithinLimits(sysInfo'.FanMaxPWM)
<1> DEFINE file == ConfigFile[AirflowPath[a]]
           min == file.System.FanInitialPWM
           max == file.System.FanMaxPWM
<1>1. sysInfo' = InitializedSystemInfo(file, r, sysInfo)
  BY DEF FSCInitialize
<1>2. WithinLimits(min) /\ WithinLimits(max)
  <2>1. AirflowPath[a] \in ConfigPath
    BY AirflowPathAssumption DEF KnownAirflow
  <2>2. min \in Limits /\ max \in Limits
    BY <2>1 DEF Limits
  <2>3. min \in Nat /\ max \in Nat
    BY <2>2, LimitsAreBytes
  <2> HIDE DEF min, max
  <2>4. min <= min /\ max <= max
    BY <2>3
  <2> QED BY <2>2, <2>4, Zenon DEF WithinLimits
<1>3. WithinLimits(sysInfo.FanInitialPWM) /\ WithinLimits(sysInfo.FanMaxPWM)
  BY DEF LimitsInv
<1>4. /\ ParseSystemInfo(file, sysInfo).FanInitialPWM \in {min, sysInfo.FanInitialPWM}
      /\ ParseSystemInfo(file, sysInfo).FanMaxPWM \in {max, sysInfo.FanMaxPWM}
  BY DEF ParseSystemInfo
<1> QED BY <1>1, <1>2, <1>3, <1>4, Zenon DEF InitializedSystemInfo

\* A demand that an algorithm stores keeps every demand within the limits.
LEMMA ControlledLimits ==
    ASSUME NEW r \in Slot, LimitsInv, Controlled(r)
    PROVE  LimitsInv'
<1> DEFINE min == sysInfo.FanInitialPWM
           max == sysInfo.FanMaxPWM
           last == slot[idx].LastPWM
<1>1. LoopTypeOK /\ LoopTypeOK' /\ Scanning /\ idx \in SlotIndex
  BY ControlledType, IndexInTable DEF LimitsInv, Controlled
<1>2. /\ min \in Int /\ max \in Int
      /\ WithinLimits(min) /\ WithinLimits(max)
  <2>1. sysInfo \in SystemInfo
    BY <1>1 DEF LoopTypeOK
  <2>2. min \in Int /\ max \in Int
    BY <2>1 DEF SystemInfo, INT8U
  <2> QED BY <2>2 DEF LimitsInv
<1>3. /\ r.CurrentPWM \in Int /\ r.LastPWM \in Nat
  <2>1. r.CurrentPWM \in INT8U /\ r.LastPWM \in ScaledPWM
    BY DEF Slot
  <2> QED BY <2>1, ScaledPWMRange DEF INT8U
<1>4. ScaledWithinLimits(last)
  BY <1>1 DEF LimitsInv
<1>5. WithinLimits(r.CurrentPWM) /\ ScaledWithinLimits(r.LastPWM)
  <2>1. CASE InLimits(r)
    <3>1. \/ r.LastPWM <= max * SCALE
          \/ r.LastPWM <= min * SCALE
      BY <1>2, <1>3, <2>1 DEF InLimits, SCALE
    <3>2. r.CurrentPWM <= max \/ r.CurrentPWM <= min
      BY <1>2, <1>3, <2>1 DEF InLimits
    <3> HIDE DEF min, max
    <3> QED BY <1>2, <1>3, <3>1, <3>2, BelowWithin, BelowScaledWithin
  <2>2. CASE Filtered(r)
    BY <1>3, <1>4, <2>2, TruncatedWithin DEF Filtered
  <2>3. CASE Inherited(r)
    BY <1>4, <2>3 DEF Inherited, LimitsInv
  <2> QED BY <2>1, <2>2, <2>3 DEF Controlled
<1>6. \A i \in SlotIndex : ScaledWithinLimits(slot'[i].LastPWM)
  <2>1. /\ slot'[idx] = r
        /\ \A j \in SlotIndex : j # idx => slot'[j] = slot[j]
    BY <1>1, ControlledSlots
  <2> QED BY <1>5, <2>1, Zenon DEF LimitsInv
<1>7. WithinLimits(pwmValue') /\ WithinLimits(outputPWM')
  <2>1. pwmValue' = r.CurrentPWM /\ outputPWM' = AtLeast(outputPWM, r.CurrentPWM)
    BY DEF Controlled, Accumulate
  <2>2. outputPWM' \in {outputPWM, r.CurrentPWM}
    BY <2>1, Zenon DEF AtLeast
  <2> QED BY <1>5, <2>1, <2>2, Zenon DEF LimitsInv
<1>8. UNCHANGED <<sysInfo, pwm>>
  BY DEF Controlled, Accumulate, configVars
<1> QED BY <1>1, <1>6, <1>7, <1>8, Zenon
        DEF LimitsInv, WithinLimits, ScaledWithinLimits, Limits

\* Demands and output are within the limits when the task starts.
LEMMA InitLimits == LoopInit => LimitsInv
<1> SUFFICES ASSUME LoopInit PROVE LimitsInv
  OBVIOUS
<1>1. LoopTypeOK
  BY InitType
<1>2. /\ sysInfo.FanInitialPWM = 0 /\ sysInfo.FanMaxPWM = 0
      /\ pwmValue = 0 /\ outputPWM = 0 /\ pwm = 0
      /\ \A i \in SlotIndex : slot[i].LastPWM = 0
  BY DEF LoopInit, ZeroSlot
<1> QED BY <1>1, <1>2, ZeroWithinLimits, Zenon DEF LimitsInv

\* And every step keeps them there.
LEMMA NextLimits == LimitsInv /\ [LoopNext]_loopVars => LimitsInv'
<1> SUFFICES ASSUME LimitsInv, [LoopNext]_loopVars PROVE LimitsInv'
  OBVIOUS
<1>1. LoopTypeOK /\ LoopTypeOK'
  BY NextType DEF LimitsInv
<1> USE DEF configVars, localVars
<1>2. ASSUME UNCHANGED sysInfo,
             \A i \in SlotIndex : slot'[i].LastPWM = slot[i].LastPWM,
             /\ pwmValue' \in {0, pwmValue} /\ outputPWM' \in {0, outputPWM}
             /\ pwm' \in {0, pwm, outputPWM}
      PROVE  LimitsInv'
  BY <1>1, <1>2, ZeroWithinLimits, Zenon DEF LimitsInv, WithinLimits, ScaledWithinLimits, Limits
<1>3. ASSUME NEW a \in KnownAirflow, NEW r \in FileReads,
             StartCycle(a, r) \/ FailToInitialize(a, r)
      PROVE  LimitsInv'
  <2>1. FSCInitialize(a, r) /\ UNCHANGED <<slot, localVars>>
    BY <1>3 DEF StartCycle, FailToInitialize
  <2>2. WithinLimits(sysInfo'.FanInitialPWM) /\ WithinLimits(sysInfo'.FanMaxPWM)
    BY <2>1, InitializedLimits
  <2> QED BY <1>1, <2>1, <2>2, Zenon DEF LimitsInv, WithinLimits, ScaledWithinLimits, Limits
<1>4. StartCycleUninitialized => LimitsInv'
  BY <1>2 DEF StartCycleUninitialized
<1>5. ASSUME NEW r \in Slot, Controlled(r)
      PROVE  LimitsInv'
  BY <1>5, ControlledLimits
<1>6. ASSUME NEW info \in SensorInfo, RejectProfile(info)
      PROVE  LimitsInv'
  <2>1. \A i \in SlotIndex : slot'[i].LastPWM = slot[i].LastPWM
    BY <1>1, <1>6, RejectedSlot
  <2> QED BY <1>2, <1>6, <2>1 DEF RejectProfile
<1>7. FinishScan => LimitsInv'
  BY <1>2 DEF FinishScan
<1>8. OverrunTables => LimitsInv'
  BY <1>2 DEF OverrunTables
<1>9. FinishCycle => LimitsInv'
  BY <1>2 DEF FinishCycle
<1>10. UNCHANGED loopVars => LimitsInv'
  BY <1>2 DEF loopVars
<1> QED
  BY <1>1, <1>3, <1>4, <1>5, <1>6, <1>7, <1>8, <1>9, <1>10, LoopCases

\* The task never drives the fans beyond the highest limit that a configuration
\* file states, whatever the sensors read, however the files are switched and
\* wherever a parse of one of them stopped.
THEOREM LimitsHold == LoopSpec => []CommandWithinLimits
<1>1. LoopInit => LimitsInv
  BY InitLimits
<1>2. LimitsInv /\ [LoopNext]_loopVars => LimitsInv'
  BY NextLimits
<1>3. LimitsInv => CommandWithinLimits
  BY DEF LimitsInv, CommandWithinLimits
<1> QED BY <1>1, <1>2, <1>3, PTL DEF LoopSpec

-----------------------------------------------------------------------------
(* Where the scan can leave the tables.                                    *)

OverrunInv ==
    /\ LoopTypeOK
    /\ pc = "scan" /\ ~initFlag => total <= FSC_SENSOR_CNT_MAX
    /\ OverrunNeedsFailure

\* An initialisation that succeeds has stored a number of profiles that fits.
LEMMA AcceptedTotal ==
    ASSUME NEW a \in KnownAirflow, NEW r \in FileReads, StartCycle(a, r)
    PROVE  total' <= FSC_SENSOR_CNT_MAX
<1> DEFINE file == ConfigFile[AirflowPath[a]]
<1>1. /\ total' = InitializedTotal(file, r, total)
      /\ ReachesProfiles(file, r) /\ ProfilesComplete(file)
  BY DEF StartCycle, FSCInitialize, FSCInitializeSucceeds
<1> HIDE DEF file
<1>2. total' = ParsedTotal(file)
  BY <1>1, Zenon DEF InitializedTotal, ProfilesComplete
<1> QED BY <1>1, <1>2, Zenon DEF ProfilesComplete

\* Every step keeps the explanation of an index beyond the table.
LEMMA NextOverrun == OverrunInv /\ [LoopNext]_loopVars => OverrunInv'
<1> SUFFICES ASSUME OverrunInv, [LoopNext]_loopVars PROVE OverrunInv'
  OBVIOUS
<1>1. LoopTypeOK /\ LoopTypeOK'
  BY NextType DEF OverrunInv
<1> USE DEF configVars, localVars, OverrunInv, OverrunNeedsFailure
<1>2. ASSUME NEW a \in KnownAirflow, NEW r \in FileReads,
             StartCycle(a, r) \/ FailToInitialize(a, r)
      PROVE  OverrunInv'
  <2>1. CASE StartCycle(a, r)
    <3>1. pc' = "scan" /\ total' <= FSC_SENSOR_CNT_MAX
      BY <2>1, AcceptedTotal DEF StartCycle
    <3> QED BY <1>1, <3>1
  <2>2. CASE FailToInitialize(a, r)
    BY <1>1, <2>2 DEF FailToInitialize
  <2> QED BY <1>2, <2>1, <2>2
<1>3. StartCycleUninitialized => OverrunInv'
  BY <1>1 DEF StartCycleUninitialized
<1>4. ASSUME NEW r \in Slot, Controlled(r)
      PROVE  OverrunInv'
  BY <1>1, <1>4 DEF Controlled, Accumulate
<1>5. ASSUME NEW info \in SensorInfo, RejectProfile(info)
      PROVE  OverrunInv'
  BY <1>1, <1>5 DEF RejectProfile
<1>6. FinishScan => OverrunInv'
  BY <1>1 DEF FinishScan
<1>7. OverrunTables => OverrunInv'
  <2> SUFFICES ASSUME OverrunTables PROVE OverrunInv'
    OBVIOUS
  <2>1. ~ (total <= FSC_SENSOR_CNT_MAX)
    BY <1>1, TableAssumption DEF OverrunTables, LoopTypeOK, INT8U
  <2> QED BY <1>1, <2>1 DEF OverrunTables
<1>8. FinishCycle => OverrunInv'
  BY <1>1 DEF FinishCycle
<1>9. UNCHANGED loopVars => OverrunInv'
  BY <1>1 DEF loopVars
<1> QED
  BY <1>1, <1>2, <1>3, <1>4, <1>5, <1>6, <1>7, <1>8, <1>9, LoopCases

\* Whatever the files contain, the scan leaves the tables only after an
\* initialisation has failed: the number that is accepted is within them.
THEOREM OverrunsNeedFailure == LoopSpec => []OverrunNeedsFailure
<1>1. LoopInit => OverrunInv
  BY InitType DEF LoopInit, OverrunInv, OverrunNeedsFailure
<1>2. OverrunInv /\ [LoopNext]_loopVars => OverrunInv'
  BY NextOverrun
<1>3. OverrunInv => OverrunNeedsFailure
  BY DEF OverrunInv
<1> QED BY <1>1, <1>2, <1>3, PTL DEF LoopSpec

\* The files of the system fit into its tables.
FilesFit == \A p \in ConfigPath : ParsedTotal(ConfigFile[p]) <= FSC_SENSOR_CNT_MAX

StaysInv ==
    /\ LoopTypeOK
    /\ total <= FSC_SENSOR_CNT_MAX
    /\ ScanStaysInTables

\* With files that fit, every step keeps the scan inside the table.
LEMMA NextStays ==
    ASSUME FilesFit
    PROVE  StaysInv /\ [LoopNext]_loopVars => StaysInv'
<1> SUFFICES ASSUME StaysInv, [LoopNext]_loopVars PROVE StaysInv'
  OBVIOUS
<1>1. LoopTypeOK /\ LoopTypeOK'
  BY NextType DEF StaysInv
<1> USE DEF configVars, localVars, StaysInv, ScanStaysInTables
<1>2. ASSUME NEW a \in KnownAirflow, NEW r \in FileReads,
             StartCycle(a, r) \/ FailToInitialize(a, r)
      PROVE  StaysInv'
  <2> DEFINE file == ConfigFile[AirflowPath[a]]
  <2>1. ParsedTotal(file) <= FSC_SENSOR_CNT_MAX
    BY AirflowPathAssumption DEF FilesFit, KnownAirflow
  <2>2. total' = InitializedTotal(file, r, total)
    BY <1>2 DEF StartCycle, FailToInitialize, FSCInitialize
  <2> HIDE DEF file
  <2>3. total' <= FSC_SENSOR_CNT_MAX
    BY <2>1, <2>2, Zenon DEF InitializedTotal
  <2> QED BY <1>1, <1>2, <2>3 DEF StartCycle, FailToInitialize
<1>3. StartCycleUninitialized => StaysInv'
  BY <1>1 DEF StartCycleUninitialized
<1>4. ASSUME NEW r \in Slot, Controlled(r)
      PROVE  StaysInv'
  BY <1>1, <1>4 DEF Controlled, Accumulate
<1>5. ASSUME NEW info \in SensorInfo, RejectProfile(info)
      PROVE  StaysInv'
  BY <1>1, <1>5 DEF RejectProfile
<1>6. FinishScan => StaysInv'
  BY <1>1 DEF FinishScan
<1>7. OverrunTables => StaysInv'
  BY <1>1, TableAssumption DEF OverrunTables, LoopTypeOK, INT8U
<1>8. FinishCycle => StaysInv'
  BY <1>1 DEF FinishCycle
<1>9. UNCHANGED loopVars => StaysInv'
  BY <1>1 DEF loopVars
<1> QED
  BY <1>1, <1>2, <1>3, <1>4, <1>5, <1>6, <1>7, <1>8, <1>9, LoopCases

\* With files that fit, the scan stays in the tables for ever, also in cycles
\* that run on what a failed initialisation left.
THEOREM TablesSuffice ==
    ASSUME FilesFit
    PROVE  LoopSpec => []ScanStaysInTables
<1>1. LoopInit => StaysInv
  <2>1. LoopInit => total <= FSC_SENSOR_CNT_MAX
    BY TableAssumption DEF LoopInit
  <2> QED BY <2>1, InitType DEF LoopInit, StaysInv, ScanStaysInTables
<1>2. StaysInv /\ [LoopNext]_loopVars => StaysInv'
  BY NextStays
<1>3. StaysInv => ScanStaysInTables
  BY DEF StaysInv
<1> QED BY <1>1, <1>2, <1>3, PTL DEF LoopSpec

-----------------------------------------------------------------------------
(* The floor.                                                              *)

\* A pass that leaves a present sensor under the floor is a filtered reading.
LEMMA ControlledFloor ==
    ASSUME NEW r \in Slot, LoopTypeOK, Controlled(r), r.Present,
           r.CurrentPWM < sysInfo.FanInitialPWM
    PROVE  Filtered(r)
<1>1. ~InLimits(r)
  <2>1. r.CurrentPWM \in Int
    BY DEF Slot, INT8U
  <2>2. sysInfo.FanInitialPWM \in Int
    BY DEF LoopTypeOK, SystemInfo, INT8U
  <2> QED BY <2>1, <2>2 DEF InLimits
<1> QED BY <1>1, Zenon DEF Controlled, Inherited

\* One step of the loop holds the floor.
HoldsFloor(i) ==
    /\ pc = "scan" /\ idx = i /\ idx' = i + 1
    /\ slot'[i].Present
    /\ slot'[i].CurrentPWM < sysInfo.FanInitialPWM
    => /\ profile[i].ProfileType = FSC_CTL_POLYNOMIAL
       /\ Abs(slot'[i].CurrentTemp - slot[i].LastTemp) > TEMP_READING_RANGE
       /\ slot'[i].LastPWM = slot[i].LastPWM

\* Every step holds the floor of a sensor, except on a distrusted reading.
LEMMA NextFloor ==
    ASSUME LoopTypeOK, [LoopNext]_loopVars, NEW i \in SlotIndex
    PROVE  HoldsFloor(i)
<1> USE DEF configVars, localVars
<1>1. i \in Int /\ i + 1 # i
  <2>1. i \in Int
    BY TableAssumption DEF SlotIndex
  <2> QED BY <2>1
<1>2. idx' = idx \/ pc # "scan" => HoldsFloor(i)
  BY <1>1, Zenon DEF HoldsFloor
<1>3. ASSUME NEW a \in KnownAirflow, NEW r \in FileReads,
             StartCycle(a, r) \/ FailToInitialize(a, r)
      PROVE  HoldsFloor(i)
  BY <1>2, <1>3 DEF StartCycle, FailToInitialize
<1>4. StartCycleUninitialized => HoldsFloor(i)
  BY <1>2 DEF StartCycleUninitialized
<1>5. ASSUME NEW r \in Slot, Controlled(r)
      PROVE  HoldsFloor(i)
  <2>1. slot'[idx] = r
    BY <1>5, ControlledSlots
  <2>2. r.Present /\ r.CurrentPWM < sysInfo.FanInitialPWM => Filtered(r)
    BY <1>5, ControlledFloor
  <2> QED BY <2>1, <2>2, Zenon DEF HoldsFloor, Filtered
<1>6. ASSUME NEW info \in SensorInfo, RejectProfile(info)
      PROVE  HoldsFloor(i)
  BY <1>2, <1>6 DEF RejectProfile
<1>7. FinishScan => HoldsFloor(i)
  BY <1>2 DEF FinishScan
<1>8. OverrunTables => HoldsFloor(i)
  BY <1>2 DEF OverrunTables
<1>9. FinishCycle => HoldsFloor(i)
  BY <1>2 DEF FinishCycle
<1>10. UNCHANGED loopVars => HoldsFloor(i)
  BY <1>2 DEF loopVars
<1> QED
  BY <1>3, <1>4, <1>5, <1>6, <1>7, <1>8, <1>9, <1>10, LoopCases

\* A present sensor is driven under the floor of the running configuration only
\* by a polynomial profile whose reading jumped: no history of a slot, no curve
\* and no rate limit does.
THEOREM FloorIsHeld == LoopSpec => FloorHeld
<1> DEFINE Floor ==
      \A i \in SlotIndex :
        /\ pc = "scan" /\ idx = i /\ idx' = i + 1
        /\ slot'[i].Present
        /\ slot'[i].CurrentPWM < sysInfo.FanInitialPWM
        => /\ profile[i].ProfileType = FSC_CTL_POLYNOMIAL
           /\ Abs(slot'[i].CurrentTemp - slot[i].LastTemp) > TEMP_READING_RANGE
           /\ slot'[i].LastPWM = slot[i].LastPWM
<1>1. LoopTypeOK /\ [LoopNext]_loopVars => Floor
  BY NextFloor, Zenon DEF HoldsFloor
<1>2. LoopSpec => []LoopTypeOK
  BY TypeCorrect
<1> HIDE DEF Floor
<1>3. LoopSpec => [][Floor]_loopVars
  BY <1>1, <1>2, PTL DEF LoopSpec
<1> QED BY <1>3 DEF Floor, FloorHeld

-----------------------------------------------------------------------------
(* The configuration of one file.                                          *)

\* The parameters of a curve are counted by a natural number.
LEMMA CurveFieldsCount ==
    ASSUME NEW par \in PolyParam
    PROVE  /\ CurveFields(par) \in Nat
           /\ par.CoeffCount \in Nat /\ par.PointCount \in Nat
<1>1. par.CoeffCount \in Nat /\ par.PointCount \in Nat
  BY CurveParts
<1> QED BY <1>1
      DEF CurveFields, AtMost, MAX_POLYNOMIAL_COEFFS, MAX_PIECEWISE_POINTS

\* All coefficients that are counted and that the table holds are read.
LEMMA CompleteCoefficients ==
    ASSUME NEW old \in PolyParam, NEW new \in PolyParam, NEW n \in Nat,
           n >= 6 + CurveFields(new), new.CurveType = FSC_AMBIENT_CAL_POLYNOMIAL
    PROVE  \A j \in 1 .. MAX_POLYNOMIAL_COEFFS :
              j <= new.CoeffCount =>
                 ParseCoefficients(old, new, n)[j] = new.Coefficients[j]
<1> SUFFICES ASSUME NEW j \in 1 .. MAX_POLYNOMIAL_COEFFS, j <= new.CoeffCount
             PROVE  ParseCoefficients(old, new, n)[j] = new.Coefficients[j]
  OBVIOUS
<1>1. CurveFields(new) = 1 + AtMost(new.CoeffCount, MAX_POLYNOMIAL_COEFFS)
  BY DEF CurveFields, FSC_AMBIENT_CAL_PIECEWISE, FSC_AMBIENT_CAL_POLYNOMIAL
<1>2. n >= 4 + j
  BY <1>1, CurveFieldsCount DEF AtMost, MAX_POLYNOMIAL_COEFFS
<1> QED BY <1>2 DEF ParseCoefficients

\* All points that are counted and that the table holds are read.
LEMMA CompletePoints ==
    ASSUME NEW old \in PolyParam, NEW new \in PolyParam, NEW n \in Nat,
           n >= 6 + CurveFields(new), new.CurveType = FSC_AMBIENT_CAL_PIECEWISE
    PROVE  \A j \in 1 .. MAX_PIECEWISE_POINTS :
              j <= new.PointCount =>
                 ParsePoints(old, new, n)[j] = new.PiecewisePoints[j]
<1> SUFFICES ASSUME NEW j \in 1 .. MAX_PIECEWISE_POINTS, j <= new.PointCount
             PROVE  ParsePoints(old, new, n)[j] = new.PiecewisePoints[j]
  OBVIOUS
<1>1. CurveFields(new) = 1 + 2 * AtMost(new.PointCount, MAX_PIECEWISE_POINTS)
  BY DEF CurveFields, FSC_AMBIENT_CAL_PIECEWISE, FSC_AMBIENT_CAL_POLYNOMIAL
<1>2. n >= 3 + 2 * j /\ n >= 4 + 2 * j
  BY <1>1, CurveFieldsCount DEF AtMost, MAX_PIECEWISE_POINTS
<1>3. ParsePoints(old, new, n)[j] =
        [temp |-> new.PiecewisePoints[j].temp, pwm |-> new.PiecewisePoints[j].pwm]
  BY <1>2, Zenon DEF ParsePoints
<1>4. new.PiecewisePoints[j] \in CurvePoint
  BY DEF PolyParam, CurveTable
<1> QED BY <1>3, <1>4 DEF CurvePoint

\* A polynomial profile without an error has the curve of its file.
LEMMA CompletePoly ==
    ASSUME NEW old \in PolyParam, NEW new \in PolyParam, NEW n \in Nat,
           n >= 6 + CurveFields(new)
    PROVE  LET poly == ParsePoly(old, new, n)
           IN  /\ poly.CurveType = new.CurveType
               /\ SameCurve(poly, new)
               /\ poly.FallingHyst = new.FallingHyst
               /\ poly.MaxRisingRate = new.MaxRisingRate
               /\ poly.MaxFallingRate = new.MaxFallingRate
<1> DEFINE poly == ParsePoly(old, new, n)
<1>1. /\ n >= 3 /\ n >= 4
      /\ n >= 3 + CurveFields(new) + 1
      /\ n >= 3 + CurveFields(new) + 2
      /\ n >= 3 + CurveFields(new) + 3
  BY CurveFieldsCount
<1>2. /\ poly.CurveType = new.CurveType
      /\ poly.FallingHyst = new.FallingHyst
      /\ poly.MaxRisingRate = new.MaxRisingRate
      /\ poly.MaxFallingRate = new.MaxFallingRate
  BY <1>1, Zenon DEF ParsePoly
<1>3. new.CurveType = FSC_AMBIENT_CAL_POLYNOMIAL =>
        /\ poly.CoeffCount = new.CoeffCount
        /\ poly.Coefficients = ParseCoefficients(old, new, n)
  BY <1>1, Zenon DEF ParsePoly
<1>4. new.CurveType = FSC_AMBIENT_CAL_PIECEWISE =>
        /\ poly.PointCount = new.PointCount
        /\ poly.PiecewisePoints = ParsePoints(old, new, n)
  BY <1>1, Zenon DEF ParsePoly
<1> HIDE DEF poly
<1>5. new.CurveType = FSC_AMBIENT_CAL_POLYNOMIAL =>
        \A j \in 1 .. MAX_POLYNOMIAL_COEFFS :
           j <= new.CoeffCount => poly.Coefficients[j] = new.Coefficients[j]
  BY <1>3, CompleteCoefficients
<1>6. new.CurveType = FSC_AMBIENT_CAL_PIECEWISE =>
        \A j \in 1 .. MAX_PIECEWISE_POINTS :
           j <= new.PointCount => poly.PiecewisePoints[j] = new.PiecewisePoints[j]
  BY <1>4, CompletePoints
<1>7. SameCurve(poly, new)
  BY <1>3, <1>4, <1>5, <1>6, Zenon DEF SameCurve
<1> QED BY <1>2, <1>7, Zenon DEF poly

\* An item without an error writes all that its type has, whatever was there.
LEMMA CompleteItem ==
    ASSUME NEW old \in Profile, NEW item \in ProfileItem, ItemComplete(item)
    PROVE  LET new == item.Value
               out == ParseItem(old, item)
           IN  /\ out.SensorNum = new.SensorNum
               /\ new.ProfileType = FSC_CTL_PID =>
                    out.ProfileType = FSC_CTL_PID /\ out.Pid = new.Pid
               /\ new.ProfileType = FSC_CTL_POLYNOMIAL =>
                    /\ out.ProfileType = FSC_CTL_POLYNOMIAL
                    /\ out.Poly.CurveType = new.Poly.CurveType
                    /\ SameCurve(out.Poly, new.Poly)
                    /\ out.Poly.FallingHyst = new.Poly.FallingHyst
                    /\ out.Poly.MaxRisingRate = new.Poly.MaxRisingRate
                    /\ out.Poly.MaxFallingRate = new.Poly.MaxFallingRate
<1> DEFINE new == item.Value
           n == item.Writes
<1> USE DEF FSC_CTL_PID, FSC_CTL_POLYNOMIAL, FSC_CTL_INVALID
<1>1. /\ new \in Profile /\ n \in Nat
      /\ new.Pid \in PidParam /\ new.Poly \in PolyParam /\ old.Poly \in PolyParam
  BY DEF ProfileItem, Profile
<1>2. /\ n >= 1
      /\ new.ProfileType = FSC_CTL_PID => n >= 6
      /\ new.ProfileType = FSC_CTL_POLYNOMIAL => n >= 6 + CurveFields(new.Poly) /\ n >= 6
  <2>1. CurveFields(new.Poly) \in Nat
    BY <1>1, CurveFieldsCount
  <2>2. n >= ItemFields(item)
    BY DEF ItemComplete
  <2> HIDE DEF n
  <2>3. new.ProfileType = FSC_CTL_PID => n >= 6
    BY <2>2 DEF ItemFields
  <2>4. new.ProfileType = FSC_CTL_POLYNOMIAL => n >= 6 + CurveFields(new.Poly)
    BY <2>2 DEF ItemFields
  <2>5. new.ProfileType \notin {FSC_CTL_PID, FSC_CTL_POLYNOMIAL} => n >= 1
    BY <2>2 DEF ItemFields
  <2> QED BY <1>1, <2>1, <2>3, <2>4, <2>5
<1>3. new.ProfileType = FSC_CTL_PID => ParsePid(old.Pid, new.Pid, n) = new.Pid
  BY <1>1, <1>2 DEF ParsePid, PidParam
<1>4. new.ProfileType = FSC_CTL_POLYNOMIAL =>
        LET poly == ParsePoly(old.Poly, new.Poly, n)
        IN  /\ poly.CurveType = new.Poly.CurveType
            /\ SameCurve(poly, new.Poly)
            /\ poly.FallingHyst = new.Poly.FallingHyst
            /\ poly.MaxRisingRate = new.Poly.MaxRisingRate
            /\ poly.MaxFallingRate = new.Poly.MaxFallingRate
  BY <1>1, <1>2, CompletePoly
<1>5. new.ProfileType \in {FSC_CTL_PID, FSC_CTL_POLYNOMIAL} =>
        n >= 2 /\ new.ProfileType # FSC_CTL_INVALID
  BY <1>1, <1>2
<1> HIDE DEF n, new
<1>6. ParseItem(old, item).SensorNum = new.SensorNum
  BY <1>2, Zenon DEF ParseItem, new, n
<1>7. new.ProfileType = FSC_CTL_PID =>
        /\ ParseItem(old, item).ProfileType = new.ProfileType
        /\ ParseItem(old, item).Pid = new.Pid
  BY <1>3, <1>5 DEF ParseItem, new, n
<1>8. new.ProfileType = FSC_CTL_POLYNOMIAL =>
        /\ ParseItem(old, item).ProfileType = new.ProfileType
        /\ ParseItem(old, item).Poly = ParsePoly(old.Poly, new.Poly, n)
  BY <1>5 DEF ParseItem, new, n
<1> QED BY <1>4, <1>6, <1>7, <1>8, Zenon DEF new

\* The number of profiles of a file fits in TotalProfileNum.
FilesCountable == \A p \in ConfigPath : Len(ConfigFile[p].Items) < 256

\* An initialisation that succeeds has replaced what earlier files wrote.
LEMMA AcceptedFile ==
    ASSUME FilesCountable, LoopTypeOK,
           NEW a \in KnownAirflow, NEW r \in FileReads, StartCycle(a, r)
    PROVE  Configured(AirflowPath[a])'
<1> DEFINE file == ConfigFile[AirflowPath[a]]
<1>1. /\ ReachesProfiles(file, r) /\ ProfilesComplete(file)
      /\ sysInfo' = InitializedSystemInfo(file, r, sysInfo)
      /\ total' = InitializedTotal(file, r, total)
      /\ profile' = InitializedProfiles(file, r, profile)
  BY DEF StartCycle, FSCInitialize, FSCInitializeSucceeds
<1>2. file \in ConfigFileType /\ Len(file.Items) < 256
  BY AirflowPathAssumption, ConfigFileAssumption DEF KnownAirflow, FilesCountable
<1> HIDE DEF file
<1>3. file.System \in SystemInfo /\ file.Items \in Seq(ProfileItem)
  BY <1>2 DEF ConfigFileType
<1>4. ParsedTotal(file) = Len(file.Items) /\ Len(file.Items) \in Nat
  <2>1. Len(file.Items) \in Nat
    BY <1>3
  <2>2. \A n \in Nat : n < 256 => n % 256 = n
    OBVIOUS
  <2> QED BY <1>2, <2>1, <2>2, Zenon DEF ParsedTotal
<1>5. sysInfo' = file.System
  <2>1. ReachesSystemInfo(file, r) /\ file.SystemWrites = 2
    BY <1>1 DEF ReachesProfiles, SystemInfoComplete, SystemFields
  <2>2. sysInfo' = ParseSystemInfo(file, sysInfo)
    BY <1>1, <2>1, Zenon DEF InitializedSystemInfo
  <2> QED BY <1>3, <2>1, <2>2 DEF ParseSystemInfo, SystemInfo
<1>6. /\ total' = Len(file.Items)
      /\ Len(file.Items) <= FSC_SENSOR_CNT_MAX
      /\ \A j \in 1 .. Len(file.Items) : ItemComplete(file.Items[j])
  BY <1>1, <1>4, Zenon DEF InitializedTotal, ProfilesComplete
<1>7. ASSUME NEW i \in 1 .. Len(file.Items)
      PROVE  /\ file.Items[i] \in ProfileItem /\ ItemComplete(file.Items[i])
             /\ profile[i] \in Profile
             /\ profile'[i] = ParseItem(profile[i], file.Items[i])
  <2>1. i \in 1 .. FSC_SENSOR_CNT_MAX
    <3>1. \A n \in Nat : n <= FSC_SENSOR_CNT_MAX => 1 .. n \subseteq 1 .. FSC_SENSOR_CNT_MAX
      BY TableAssumption
    <3> QED BY <1>4, <1>6, <3>1, Zenon
  <2>2. \A j \in 1 .. i - 1 : j \in 1 .. Len(file.Items)
    BY <1>4
  <2>3. ReachesItem(file, i)
    BY <1>4, <1>6, <2>2 DEF ReachesItem
  <2>4. ~ (ParsedTotal(file) > FSC_SENSOR_CNT_MAX)
    <3>1. \A n \in Nat : n <= FSC_SENSOR_CNT_MAX => ~ (n > FSC_SENSOR_CNT_MAX)
      BY TableAssumption
    <3> QED BY <1>4, <1>6, <3>1, Zenon
  <2>5. profile' = ParseProfiles(file, profile)
    BY <1>1, Zenon DEF InitializedProfiles, ProfilesComplete
  <2>6. ParseProfiles(file, profile) =
            [k \in 1 .. FSC_SENSOR_CNT_MAX |->
                IF ReachesItem(file, k) THEN ParseItem(profile[k], file.Items[k])
                ELSE profile[k]]
    BY <2>4, Zenon DEF ParseProfiles
  <2>7. profile'[i] = ParseItem(profile[i], file.Items[i])
    BY <2>1, <2>3, <2>5, <2>6, Zenon
  <2>8. profile[i] \in Profile
    BY <2>1 DEF LoopTypeOK, SlotIndex
  <2>9. file.Items[i] \in ProfileItem
    BY <1>3
  <2> QED BY <1>6, <2>7, <2>8, <2>9
<1>8. ASSUME NEW i \in 1 .. Len(file.Items)
      PROVE  LET item == file.Items[i].Value
             IN  /\ profile'[i].SensorNum = item.SensorNum
                 /\ item.ProfileType = FSC_CTL_PID =>
                     /\ profile'[i].ProfileType = FSC_CTL_PID
                     /\ profile'[i].Pid = item.Pid
                 /\ item.ProfileType = FSC_CTL_POLYNOMIAL =>
                     /\ profile'[i].ProfileType = FSC_CTL_POLYNOMIAL
                     /\ profile'[i].Poly.CurveType = item.Poly.CurveType
                     /\ SameCurve(profile'[i].Poly, item.Poly)
                     /\ profile'[i].Poly.FallingHyst = item.Poly.FallingHyst
                     /\ profile'[i].Poly.MaxRisingRate = item.Poly.MaxRisingRate
                     /\ profile'[i].Poly.MaxFallingRate = item.Poly.MaxFallingRate
  BY <1>7, CompleteItem
<1> QED BY <1>5, <1>6, <1>8 DEF Configured, file

OneFileInv == LoopTypeOK /\ ConfigurationOfOneFile

\* A step that leaves configuration and profiles alone keeps them of one file.
LEMMA SameFile ==
    ASSUME OneFileInv, LoopTypeOK', UNCHANGED <<initFlag, sysInfo, total, profile>>,
           pc' \in {"scan", "apply"} /\ ~initFlag => pc \in {"scan", "apply"}
    PROVE  OneFileInv'
BY DEF OneFileInv, ConfigurationOfOneFile, Configured

\* Every step keeps sensors and profiles of one file.
LEMMA NextOneFile ==
    ASSUME FilesCountable
    PROVE  OneFileInv /\ [LoopNext]_loopVars => OneFileInv'
<1> SUFFICES ASSUME OneFileInv, [LoopNext]_loopVars PROVE OneFileInv'
  OBVIOUS
<1>1. LoopTypeOK /\ LoopTypeOK'
  BY NextType DEF OneFileInv
<1> USE DEF configVars, localVars
<1>2. ASSUME NEW a \in KnownAirflow, NEW r \in FileReads,
             StartCycle(a, r) \/ FailToInitialize(a, r)
      PROVE  OneFileInv'
  <2>1. CASE StartCycle(a, r)
    <3>1. Configured(AirflowPath[a])'
      BY <1>1, <2>1, AcceptedFile
    <3>2. AirflowPath[a] \in ConfigPath
      BY AirflowPathAssumption DEF KnownAirflow
    <3> QED BY <1>1, <3>1, <3>2, Zenon DEF OneFileInv, ConfigurationOfOneFile
  <2>2. CASE FailToInitialize(a, r)
    BY <1>1, <2>2 DEF FailToInitialize, OneFileInv, ConfigurationOfOneFile
  <2> QED BY <1>2, <2>1, <2>2
<1>3. StartCycleUninitialized => OneFileInv'
  BY <1>1, SameFile DEF StartCycleUninitialized
<1>4. ASSUME NEW r \in Slot, Controlled(r)
      PROVE  OneFileInv'
  BY <1>1, <1>4, SameFile DEF Controlled, Accumulate
<1>5. ASSUME NEW info \in SensorInfo, RejectProfile(info)
      PROVE  OneFileInv'
  BY <1>1, <1>5, SameFile DEF RejectProfile, Scanning
<1>6. FinishScan => OneFileInv'
  BY <1>1, SameFile DEF FinishScan
<1>7. OverrunTables => OneFileInv'
  BY <1>1, SameFile DEF OverrunTables
<1>8. FinishCycle => OneFileInv'
  BY <1>1, SameFile DEF FinishCycle
<1>9. UNCHANGED loopVars => OneFileInv'
  BY <1>1, SameFile DEF loopVars
<1> QED
  BY <1>1, <1>2, <1>3, <1>4, <1>5, <1>6, <1>7, <1>8, <1>9, LoopCases

\* With fewer than 256 profiles in every file, a cycle that initialised runs on
\* one file alone, however many others were read, wholly or in part, before it.
THEOREM OneFileAtATime ==
    ASSUME FilesCountable
    PROVE  LoopSpec => []ConfigurationOfOneFile
<1>1. LoopInit => OneFileInv
  BY InitType DEF LoopInit, OneFileInv, ConfigurationOfOneFile
<1>2. OneFileInv /\ [LoopNext]_loopVars => OneFileInv'
  BY NextOneFile
<1>3. OneFileInv => ConfigurationOfOneFile
  BY DEF OneFileInv
<1> QED BY <1>1, <1>2, <1>3, PTL DEF LoopSpec

-----------------------------------------------------------------------------
(* The rates.                                                              *)

\* No step moves a demand faster than its rates, except to reach a limit.
LEMMA NextRate ==
    ASSUME LoopTypeOK, [LoopNext]_loopVars, NEW i \in SlotIndex
    PROVE  RateKept(i, slot'[i])
<1> USE DEF configVars, localVars
<1>1. slot'[i].LastPWM = slot[i].LastPWM => RateKept(i, slot'[i])
  BY SameRate
<1>2. ASSUME NEW a \in KnownAirflow, NEW r \in FileReads,
             StartCycle(a, r) \/ FailToInitialize(a, r)
      PROVE  RateKept(i, slot'[i])
  BY <1>1, <1>2 DEF StartCycle, FailToInitialize
<1>3. StartCycleUninitialized => RateKept(i, slot'[i])
  BY <1>1 DEF StartCycleUninitialized
<1>4. ASSUME NEW r \in Slot, Controlled(r)
      PROVE  RateKept(i, slot'[i])
  <2>1. /\ slot'[idx] = r
        /\ i # idx => slot'[i] = slot[i]
        /\ RateKept(idx, r)
    BY <1>4, ControlledSlots DEF Controlled
  <2> QED BY <1>1, <2>1, Zenon
<1>5. ASSUME NEW info \in SensorInfo, RejectProfile(info)
      PROVE  RateKept(i, slot'[i])
  BY <1>1, <1>5, RejectedSlot
<1>6. FinishScan => RateKept(i, slot'[i])
  BY <1>1 DEF FinishScan
<1>7. OverrunTables => RateKept(i, slot'[i])
  BY <1>1 DEF OverrunTables
<1>8. FinishCycle => RateKept(i, slot'[i])
  BY <1>1 DEF FinishCycle
<1>9. UNCHANGED loopVars => RateKept(i, slot'[i])
  BY <1>1 DEF loopVars
<1> QED
  BY <1>2, <1>3, <1>4, <1>5, <1>6, <1>7, <1>8, <1>9, LoopCases

\* A polynomial sensor moves by less than its rates and one percent per cycle,
\* unless it has to reach a limit or falls to a target that INT16S does not reach,
\* whatever its slot comes from.
THEOREM RatesHold == LoopSpec => RateRespected
<1> DEFINE Rates ==
      \A i \in SlotIndex :
        LET rise == slot'[i].LastPWM - slot[i].LastPWM
            par == profile[i].Poly
            floor == sysInfo.FanInitialPWM
        IN  profile[i].ProfileType = FSC_CTL_POLYNOMIAL =>
            /\ \/ rise < (par.MaxRisingRate + 1) * SCALE
               \/ slot'[i].LastPWM = floor * SCALE
            /\ \/ rise > -((par.MaxFallingRate + 1) * SCALE)
               \/ slot'[i].LastPWM = AtLeast(sysInfo.FanMaxPWM, floor) * SCALE
               \/ TooFarToLimit(i)
<1>1. LoopTypeOK /\ [LoopNext]_loopVars => Rates
  <2>1. \A i \in SlotIndex : TooFar(i, slot'[i]) => TooFarToLimit(i)
    <3> SUFFICES ASSUME NEW i \in SlotIndex, TooFar(i, slot'[i])
                 PROVE  TooFarToLimit(i)
      OBVIOUS
    <3> DEFINE seen == [slot[i] EXCEPT !.CurrentTemp = slot'[i].CurrentTemp]
    <3>1. TooFarToFall(seen, profile[i].Poly)
      BY Zenon DEF TooFar
    <3> SUFFICES /\ profile[i].Poly.CurveType = FSC_AMBIENT_CAL_POLYNOMIAL
                 /\ Truncate(HysteresisTarget(seen, profile[i].Poly, 0) * SCALE
                               - slot[i].LastPWM) < -32767
      BY DEF TooFarToLimit
    <3>2. seen.LastPWM = slot[i].LastPWM
      OBVIOUS
    <3> HIDE DEF seen
    <3> QED BY <3>1, <3>2 DEF TooFarToFall
  <2>2. LoopTypeOK /\ [LoopNext]_loopVars => \A i \in SlotIndex : RateKept(i, slot'[i])
    BY NextRate, Zenon
  <2> QED BY <2>1, <2>2, Zenon DEF RateKept
<1>2. LoopSpec => []LoopTypeOK
  BY TypeCorrect
<1> HIDE DEF Rates
<1>3. LoopSpec => [][Rates]_loopVars
  BY <1>1, <1>2, PTL DEF LoopSpec
<1> QED BY <1>3 DEF Rates, RateRespected

-----------------------------------------------------------------------------
(* The refinement of MaxDemand.  Demands collects what the present slots   *)
(* that have been scanned ask for.                                         *)

Collected == IF pc = "idle" THEN {} ELSE Demands

\* A step that changes no scanned slot and not the index collects nothing.
LEMMA SameDemands ==
    ASSUME Scanned' = Scanned,
           \A j \in Scanned : slot'[j] = slot[j]
    PROVE  Demands' = Demands
BY DEF Demands

\* A pass over a present sensor collects its demand, and one over a disabled
\* sensor nothing.
LEMMA ControlledDemands ==
    ASSUME NEW r \in Slot, LoopTypeOK, Controlled(r)
    PROVE  Demands' = IF r.Present THEN Demands \cup {r.CurrentPWM} ELSE Demands
<1>1. /\ slot'[idx] = r
      /\ \A j \in Scanned : slot'[j] = slot[j]
      /\ Scanned' = Scanned \cup {idx}
  BY ControlledSlots
<1>2. Demands' = {slot'[j].CurrentPWM : j \in {k \in Scanned' : slot'[k].Present}}
  BY DEF Demands
<1> QED BY <1>1, <1>2 DEF Demands

MapsStep == [Promise!DemandNext]_(Promise!demandVars)

\* A step that leaves mode, demands and output alone is a stutter of the promise.
LEMMA PromiseStutter ==
    ASSUME pc' = pc, Collected' = Collected, pwm' = pwm
    PROVE  MapsStep
BY DEF MapsStep, Promise!demandVars, Collected

\* Every step of the task is a step or a stutter of the promise.
LEMMA StepPromise ==
    ASSUME HighestDemandInv, ScanStaysInTables', [LoopNext]_loopVars
    PROVE  MapsStep
<1>1. LoopTypeOK /\ (pc = "idle" => idx = 1)
  BY DEF HighestDemandInv
<1> USE DEF configVars, localVars
<1>2. ASSUME pc = "idle", pc' = "scan", UNCHANGED <<idx, pwm>>
      PROVE  MapsStep
  <2>1. Scanned' = {}
    BY <1>1, <1>2, TableAssumption DEF Scanned, SlotIndex
  <2>2. Demands' = {}
    BY <2>1 DEF Demands
  <2>3. Promise!Begin
    BY <1>2, <2>2 DEF Promise!Begin
  <2> QED BY <2>3 DEF MapsStep, Promise!DemandNext
<1>3. ASSUME NEW a \in KnownAirflow, NEW r \in FileReads,
             StartCycle(a, r) \/ FailToInitialize(a, r)
      PROVE  MapsStep
  <2>1. CASE StartCycle(a, r)
    BY <1>2, <2>1 DEF StartCycle
  <2>2. CASE FailToInitialize(a, r)
    BY <2>2, PromiseStutter DEF FailToInitialize, Collected
  <2> QED BY <1>3, <2>1, <2>2
<1>4. StartCycleUninitialized => MapsStep
  BY <1>2 DEF StartCycleUninitialized
<1>5. ASSUME NEW r \in Slot, Controlled(r)
      PROVE  MapsStep
  <2>1. pc = "scan" /\ pc' = "scan" /\ pwm' = pwm
    BY <1>5 DEF Controlled, Accumulate, Scanning
  <2>2. CASE r.Present
    <3>1. Demands' = Demands \cup {r.CurrentPWM} /\ r.CurrentPWM \in INT8U
      BY <1>1, <1>5, <2>2, ControlledDemands DEF Slot
    <3>2. Promise!Collect
      BY <2>1, <3>1 DEF Promise!Collect
    <3> QED BY <3>2 DEF MapsStep, Promise!DemandNext
  <2>3. CASE ~r.Present
    <3>1. Demands' = Demands
      BY <1>1, <1>5, <2>3, ControlledDemands
    <3> QED BY <2>1, <3>1, PromiseStutter DEF Collected
  <2> QED BY <2>2, <2>3
<1>6. ASSUME NEW info \in SensorInfo, RejectProfile(info)
      PROVE  MapsStep
  <2>1. /\ pc = "scan" /\ pc' = "apply" /\ pwm' = pwm /\ idx' = idx
        /\ idx \notin Scanned
    BY <1>1, <1>6, IndexInTable DEF RejectProfile, Scanning, Scanned
  <2>2. /\ Scanned' = Scanned
        /\ Scanned \subseteq SlotIndex
    BY <2>1 DEF Scanned
  <2>3. \A j \in Scanned : slot'[j] = slot[j]
    <3>1. slot' = [slot EXCEPT ![idx] = Sampled(slot[idx], info)]
      BY <1>1, <1>6, RejectedSlot
    <3>2. slot \in [SlotIndex -> Slot]
      BY <1>1 DEF LoopTypeOK
    <3> QED BY <2>1, <2>2, <3>1, <3>2, Zenon
  <2>4. Promise!Abandon
    BY <2>1, <2>2, <2>3, SameDemands DEF Promise!Abandon
  <2> QED BY <2>4 DEF MapsStep, Promise!DemandNext
<1>7. FinishScan => MapsStep
  <2> SUFFICES ASSUME FinishScan PROVE MapsStep
    OBVIOUS
  <2>1. /\ pc = "scan" /\ pc' = "apply" /\ pwm' = outputPWM
        /\ UNCHANGED <<slot, idx>>
    BY DEF FinishScan
  <2>2. Demands' = Demands
    BY <2>1 DEF Demands, Scanned
  <2>3. outputPWM \in Demands \cup {0} /\ \A d \in Demands : d <= outputPWM
    BY <2>1 DEF HighestDemandInv, OutputIsHighestDemand, Demands
  <2>4. Promise!Decide
    BY <2>1, <2>2, <2>3 DEF Promise!Decide
  <2> QED BY <2>4 DEF MapsStep, Promise!DemandNext
<1>8. OverrunTables => MapsStep
  BY DEF OverrunTables, ScanStaysInTables
<1>9. FinishCycle => MapsStep
  <2> SUFFICES ASSUME FinishCycle PROVE MapsStep
    OBVIOUS
  <2>1. Promise!Complete
    BY DEF FinishCycle, Promise!Complete
  <2> QED BY <2>1 DEF MapsStep, Promise!DemandNext
<1>10. UNCHANGED loopVars => MapsStep
  <2> SUFFICES ASSUME UNCHANGED loopVars PROVE MapsStep
    OBVIOUS
  <2>1. UNCHANGED <<slot, idx, pc, pwm>>
    BY DEF loopVars
  <2>2. Demands' = Demands
    BY <2>1 DEF Demands, Scanned
  <2> QED BY <2>1, <2>2, PromiseStutter DEF Collected
<1> QED
  BY <1>1, <1>3, <1>4, <1>5, <1>6, <1>7, <1>8, <1>9, <1>10, LoopCases

\* With files that fit the tables, a fan control cycle is a MaxDemand: whatever
\* the order of the profiles, the disabled sensors and the stale slots, it
\* collects the demands of the present sensors and commands the highest.
THEOREM LoopImplementsMaxDemand ==
    ASSUME FilesFit
    PROVE  LoopSpec => ImplementsMaxDemand
<1>1. LoopInit => Promise!DemandInit
  BY DEF LoopInit, Promise!DemandInit
<1>2. LoopInit => HighestDemandInv
  BY InitHighest
<1>3. HighestDemandInv /\ [LoopNext]_loopVars => HighestDemandInv'
  BY NextHighest
<1>4. LoopSpec => []ScanStaysInTables
  BY TablesSuffice
<1>5. HighestDemandInv /\ ScanStaysInTables' /\ [LoopNext]_loopVars
        => [Promise!DemandNext]_(Promise!demandVars)
  BY StepPromise DEF MapsStep
<1> QED BY <1>1, <1>2, <1>3, <1>4, <1>5, PTL DEF LoopSpec, ImplementsMaxDemand
=============================================================================
