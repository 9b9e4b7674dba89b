---------------------------- MODULE MCBoardProofs ----------------------------
(***************************************************************************)
(* Theorems about the ambient calibration, the averaged sensors and the    *)
(* composition of the board: every behaviour of the board is one of each   *)
(* of its components, so that what is proved about a component holds of    *)
(* the board.                                                              *)
(***************************************************************************)
EXTENDS MCBoard, BoardProofs, FruAccessProofs, WellFoundedInduction,
        SequenceTheorems

-----------------------------------------------------------------------------
(* The ambient calibration.  While a file is read, dTmp holds the last key *)
(* that was there, the number of keys read tells the item that is next,    *)
(* and what was read of the items before stays.                            *)

CalRange == CalValue \cup CalCount \cup 0 .. 2
CalKey == Entry(CalRange)

CalibrationRecord ==
    [CalType : Nat, CoeffCount : Nat, PointCount : Nat,
     Coefficients : [1 .. MAX_COEFFS -> Nat],
     Points : [1 .. MAX_POINTS -> [pwm : Nat, delta_temp : Nat]]]

\* What is known at each key: how many were read before it, and for which item.
KeysBefore ==
    CASE calPc = "cal_type" -> Len(keysRead) = 0 /\ calItem = 1
      [] calPc = "count" ->
            /\ Len(keysRead) = 1 /\ calItem = 1
            /\ calibration.CalType \in {POLYNOMIAL, PIECEWISE}
      [] calPc = "array" ->
            /\ Len(keysRead) = 2 /\ calItem = 1
            /\ calibration.CalType \in {POLYNOMIAL, PIECEWISE}
      [] calPc = "coefficient" ->
            /\ Len(keysRead) = 2 /\ calibration.CalType = POLYNOMIAL
            /\ calItem <= MAX_COEFFS
      [] calPc = "pwm" ->
            /\ Len(keysRead) = 2 * calItem /\ calibration.CalType = PIECEWISE
            /\ calItem <= MAX_POINTS
      [] calPc = "delta_temp" ->
            /\ Len(keysRead) = 2 * calItem + 1 /\ calibration.CalType = PIECEWISE
            /\ calItem <= MAX_POINTS
      [] OTHER -> TRUE

CalInv ==
    /\ CalTypeOK
    /\ calibration \in CalibrationRecord
    /\ keysRead \in Seq(CalKey)
    /\ calPc = "idle" => keysRead = <<>>
    /\ calPc \notin {"idle", "done"} => IsLastPresent(Len(keysRead), dTmp)
    /\ KeysBefore
    /\ MissingKeysRepeatTheLast

\* The last key of the first k of a sequence of keys, as IsLastPresent says it of
\* the keys that were read.
PresentIn(s, k) == {i \in 1 .. k : s[i] # MISSING}
IsLastIn(s, k, v) ==
    PresentIn(s, k) # {} =>
        \E i \in PresentIn(s, k) : v = s[i][1] /\ \A j \in PresentIn(s, k) : j <= i

\* What the keys up to k say does not change when another is read, and a key that
\* is there is the last one of all.
LEMMA LastKey ==
    ASSUME NEW s \in Seq(CalKey), NEW e \in CalKey, NEW d,
           IsLastIn(s, Len(s), d)
    PROVE  /\ Append(s, e) \in Seq(CalKey) /\ Len(Append(s, e)) = Len(s) + 1
           /\ IsLastIn(Append(s, e), Len(s) + 1, IF e = MISSING THEN d ELSE e[1])
           /\ \A k \in 0 .. Len(s) : \A v :
                 IsLastIn(s, k, v) => IsLastIn(Append(s, e), k, v)
<1> DEFINE t == Append(s, e)
           n == Len(s)
<1>1. /\ t \in Seq(CalKey) /\ Len(t) = n + 1 /\ n \in Nat
      /\ \A i \in 1 .. n : t[i] = s[i]
      /\ t[n + 1] = e
  OBVIOUS
<1> HIDE DEF t, n
<1>2. \A k \in 0 .. n : PresentIn(t, k) = PresentIn(s, k)
  BY <1>1 DEF PresentIn
<1>3. ASSUME NEW k \in 0 .. n, NEW v, IsLastIn(s, k, v)
      PROVE  IsLastIn(t, k, v)
  <2>1. \A i \in PresentIn(s, k) : t[i] = s[i]
    BY <1>1 DEF PresentIn
  <2> QED BY <1>2, <1>3, <2>1 DEF IsLastIn
<1>4. CASE e = MISSING
  <2>1. PresentIn(t, n + 1) = PresentIn(t, n)
    BY <1>1, <1>4 DEF PresentIn
  <2>2. IsLastIn(t, n, d)
    BY <1>1, <1>3 DEF n
  <2> QED BY <1>1, <1>3, <1>4, <2>1, <2>2 DEF IsLastIn, t, n
<1>5. CASE e # MISSING
  <2>1. n + 1 \in PresentIn(t, n + 1) /\ \A j \in PresentIn(t, n + 1) : j <= n + 1
    BY <1>1, <1>5 DEF PresentIn
  <2>2. IsLastIn(t, n + 1, e[1])
    BY <1>1, <2>1 DEF IsLastIn
  <2> QED BY <1>1, <1>3, <1>5, <2>2 DEF t, n
<1> QED BY <1>4, <1>5

\* The same of the keys that were read.
LEMMA IsLastMeans == \A k, v : IsLastPresent(k, v) <=> IsLastIn(keysRead, k, v)
BY DEF IsLastPresent, IsLastIn, PresentUpTo, PresentIn

\* And of the keys that will have been read after a step.
LEMMA IsLastMeansNext ==
    /\ \A k, v : IsLastPresent(k, v)' <=> IsLastIn(keysRead', k, v)
    /\ IsLastPresent(Len(keysRead), dTmp)' <=> IsLastIn(keysRead', Len(keysRead'), dTmp')
    /\ MissingKeysRepeatTheLast' <=>
          /\ Len(keysRead') >= 1 => IsLastIn(keysRead', 1, calibration'.CalType)
          /\ Len(keysRead') >= 2 /\ calibration'.CalType = PIECEWISE =>
                IsLastIn(keysRead', 2, calibration'.PointCount)
          /\ \A i \in 1 .. MAX_POINTS :
                /\ Len(keysRead') >= 2 * i + 1 =>
                      IsLastIn(keysRead', 2 * i + 1, calibration'.Points[i].pwm)
                /\ Len(keysRead') >= 2 * i + 2 =>
                      IsLastIn(keysRead', 2 * i + 2, calibration'.Points[i].delta_temp)
<1>1. \A k, v : IsLastPresent(k, v)' <=> IsLastIn(keysRead', k, v)
  BY DEF IsLastPresent, IsLastIn, PresentUpTo, PresentIn
<1>2. IsLastPresent(Len(keysRead), dTmp)' <=> IsLastIn(keysRead', Len(keysRead'), dTmp')
  BY DEF IsLastPresent, IsLastIn, PresentUpTo, PresentIn
<1>3. MissingKeysRepeatTheLast' <=>
          /\ Len(keysRead') >= 1 => IsLastIn(keysRead', 1, calibration'.CalType)
          /\ Len(keysRead') >= 2 /\ calibration'.CalType = PIECEWISE =>
                IsLastIn(keysRead', 2, calibration'.PointCount)
          /\ \A i \in 1 .. MAX_POINTS :
                /\ Len(keysRead') >= 2 * i + 1 =>
                      IsLastIn(keysRead', 2 * i + 1, calibration'.Points[i].pwm)
                /\ Len(keysRead') >= 2 * i + 2 =>
                      IsLastIn(keysRead', 2 * i + 2, calibration'.Points[i].delta_temp)
  BY Zenon DEF MissingKeysRepeatTheLast, IsLastPresent, IsLastIn, PresentUpTo, PresentIn
<1> QED BY <1>1, <1>2, <1>3, Zenon

\* What a key that is read leaves: the local, the history, and all that was known
\* of the keys before.
LEMMA KeyIsRead ==
    ASSUME NEW S, S \subseteq CalRange, ReadKey(S), keysRead \in Seq(CalKey),
           dTmp \in CalRange, IsLastPresent(Len(keysRead), dTmp)
    PROVE  /\ dTmp' \in CalRange
           /\ keysRead' \in Seq(CalKey) /\ Len(keysRead') = Len(keysRead) + 1
           /\ IsLastIn(keysRead', Len(keysRead'), dTmp')
           /\ \A k \in 0 .. Len(keysRead) : \A v :
                 IsLastIn(keysRead, k, v) => IsLastIn(keysRead', k, v)
<1>1. PICK e \in Entry(S) : /\ dTmp' = ConvertcJSONToValue(e)
                            /\ keysRead' = Append(keysRead, e)
  BY DEF ReadKey
<1>2. dTmp' = IF e = MISSING THEN dTmp ELSE e[1]
  BY <1>1 DEF ConvertcJSONToValue
<1>3. CalRange \subseteq Nat
  BY CalibrationAssumption DEF CalRange
<1>4. e \in CalKey
  BY <1>1, <1>3 DEF CalKey, Entry
<1>5. dTmp' \in CalRange
  BY <1>2 DEF Entry
<1> QED BY <1>1, <1>2, <1>4, <1>5, LastKey, IsLastMeans

\* What the fields of a record of points are, after a PWM of it was written.
LEMMA PwmWritten ==
    ASSUME NEW c \in CalibrationRecord, NEW i \in 1 .. MAX_POINTS, NEW v \in Nat,
           NEW d, d = [c EXCEPT !.Points[i].pwm = v]
    PROVE  /\ d \in CalibrationRecord
           /\ d.Points[i].pwm = v
           /\ d.CalType = c.CalType /\ d.PointCount = c.PointCount
           /\ \A j \in (1 .. MAX_POINTS) \ {i} : d.Points[j] = c.Points[j]
BY DEF CalibrationRecord

\* The same after a temperature was written.
LEMMA DeltaTempWritten ==
    ASSUME NEW c \in CalibrationRecord, NEW i \in 1 .. MAX_POINTS, NEW v \in Nat,
           NEW d, d = [c EXCEPT !.Points[i].delta_temp = v]
    PROVE  /\ d \in CalibrationRecord
           /\ d.Points[i].delta_temp = v
           /\ d.Points[i].pwm = c.Points[i].pwm
           /\ d.CalType = c.CalType /\ d.PointCount = c.PointCount
           /\ \A j \in (1 .. MAX_POINTS) \ {i} : d.Points[j] = c.Points[j]
BY DEF CalibrationRecord

\* Before the first file nothing is read.
LEMMA CalStart == CalInit => CalInv
<1> SUFFICES ASSUME CalInit PROVE CalInv
  OBVIOUS
<1>1. CalTypeOK
  BY CalibrationAssumption DEF CalInit, CalTypeOK, ZeroCalibration
<1>2. calibration \in CalibrationRecord
  BY CalibrationAssumption DEF CalInit, CalibrationRecord, ZeroCalibration
<1>3. keysRead \in Seq(CalKey) /\ keysRead = <<>> /\ Len(keysRead) = 0 /\ calPc = "idle"
  BY DEF CalInit
<1>4. KeysBefore
  BY <1>3 DEF KeysBefore
<1>5. MissingKeysRepeatTheLast
  BY <1>3, CalibrationAssumption DEF MissingKeysRepeatTheLast
<1> QED BY <1>1, <1>2, <1>3, <1>4, <1>5 DEF CalInv

\* Every step of the parser keeps the invariant.
LEMMA CalStep ==
    ASSUME CalInv, [CalNext]_calVars
    PROVE  CalInv'
<1> USE DEF CalInv
<1>0. CalRange \subseteq Nat /\ dTmp \in CalRange /\ Len(keysRead) \in Nat
  BY CalibrationAssumption DEF CalRange, CalTypeOK
<1>1. CASE UNCHANGED calVars
  <2>1. CalTypeOK' = CalTypeOK /\ KeysBefore' = KeysBefore
    BY <1>1 DEF calVars, CalTypeOK, KeysBefore
  <2>2. MissingKeysRepeatTheLast'
    BY <1>1 DEF calVars, MissingKeysRepeatTheLast, IsLastPresent, PresentUpTo
  <2>3. calPc \notin {"idle", "done"} => IsLastPresent(Len(keysRead), dTmp)'
    BY <1>1 DEF calVars, IsLastPresent, PresentUpTo
  <2> QED BY <1>1, <2>1, <2>2, <2>3 DEF calVars
<1>2. CASE ParseAmbientCalibrationFromJson
  <2>1. CalTypeOK' /\ KeysBefore'
    BY <1>2, CalibrationAssumption
    DEF ParseAmbientCalibrationFromJson, CalTypeOK, KeysBefore
  <2>2. keysRead' = <<>> /\ Len(keysRead') = 0 /\ calPc' = "cal_type"
    BY <1>2 DEF ParseAmbientCalibrationFromJson
  <2>3. MissingKeysRepeatTheLast' /\ IsLastPresent(Len(keysRead), dTmp)'
    BY <2>2, CalibrationAssumption
    DEF MissingKeysRepeatTheLast, IsLastPresent, PresentUpTo
  <2> QED BY <1>2, <2>1, <2>2, <2>3 DEF ParseAmbientCalibrationFromJson
<1>3. CASE ParseDefaults
  <2>1. CalTypeOK' /\ KeysBefore'
    BY <1>3, CalibrationAssumption DEF ParseDefaults, CalTypeOK, KeysBefore
  <2>2. keysRead' = <<>> /\ Len(keysRead') = 0 /\ calPc' = "done"
    BY <1>3 DEF ParseDefaults
  <2>3. MissingKeysRepeatTheLast'
    BY <2>2, CalibrationAssumption DEF MissingKeysRepeatTheLast
  <2>4. calibration' \in CalibrationRecord
    BY <1>3, CalibrationAssumption DEF ParseDefaults, CalibrationRecord, POLYNOMIAL
  <2> QED BY <2>1, <2>2, <2>3, <2>4
<1>4. CASE FailToParse
  <2>1. CalTypeOK' /\ KeysBefore'
    BY <1>4 DEF FailToParse, CalTypeOK, KeysBefore
  <2>2. MissingKeysRepeatTheLast'
    BY <1>4 DEF FailToParse, MissingKeysRepeatTheLast, IsLastPresent, PresentUpTo
  <2> QED BY <1>4, <2>1, <2>2 DEF FailToParse
<1>5. CASE ReadType
  <2>1. calPc = "cal_type" /\ Len(keysRead) = 0 /\ IsLastPresent(Len(keysRead), dTmp)
    BY <1>5 DEF ReadType, KeysBefore
  <2>2. ReadKey({POLYNOMIAL, PIECEWISE, 2})
    BY <1>5 DEF ReadType
  <2>3. {POLYNOMIAL, PIECEWISE, 2} \subseteq CalRange
    BY DEF CalRange, POLYNOMIAL, PIECEWISE
  <2>3a. /\ dTmp' \in CalRange
         /\ keysRead' \in Seq(CalKey) /\ Len(keysRead') = Len(keysRead) + 1
         /\ IsLastIn(keysRead', Len(keysRead'), dTmp')
    BY <1>0, <2>1, <2>2, <2>3, KeyIsRead, Zenon
  <2>4. /\ dTmp' \in CalRange /\ dTmp' \in Nat
        /\ keysRead' \in Seq(CalKey) /\ Len(keysRead') = 1
        /\ IsLastIn(keysRead', 1, dTmp')
    BY <1>0, <2>1, <2>3a
  <2>5. /\ calibration' = [calibration EXCEPT !.CalType = dTmp']
        /\ calItem' = calItem
        /\ \/ calPc' = "done" /\ calRet' = 0
           \/ /\ calPc' = "count" /\ calRet' = calRet
              /\ dTmp' \in {POLYNOMIAL, PIECEWISE}
    BY <1>5 DEF ReadType, ReadOn, Finished
  <2>6. /\ calibration' \in CalibrationRecord /\ calibration'.CalType = dTmp'
    BY <2>4, <2>5 DEF CalibrationRecord
  <2>7. CalTypeOK'
    BY <2>4, <2>5 DEF CalTypeOK, CalRange
  <2>8. MissingKeysRepeatTheLast'
    BY <2>4, <2>6, IsLastMeans, CalibrationAssumption
    DEF MissingKeysRepeatTheLast, IsLastPresent, IsLastIn, PresentUpTo, PresentIn
  <2>9. IsLastPresent(Len(keysRead), dTmp)'
    BY <2>4 DEF IsLastPresent, IsLastIn, PresentUpTo, PresentIn
  <2>10. KeysBefore'
    BY <2>1, <2>4, <2>5, <2>6 DEF KeysBefore
  <2> QED BY <2>4, <2>5, <2>6, <2>7, <2>8, <2>9, <2>10
<1>6. CASE ReadCount
  <2>1. /\ calPc = "count" /\ Len(keysRead) = 1 /\ calItem = 1
        /\ calibration.CalType \in {POLYNOMIAL, PIECEWISE}
        /\ IsLastPresent(Len(keysRead), dTmp)
    BY <1>6 DEF ReadCount, KeysBefore
  <2>2. ReadKey(CalCount) /\ CalCount \subseteq CalRange
    BY <1>6 DEF ReadCount, CalRange
  <2>3. /\ dTmp' \in CalRange
        /\ keysRead' \in Seq(CalKey) /\ Len(keysRead') = Len(keysRead) + 1
        /\ IsLastIn(keysRead', Len(keysRead'), dTmp')
        /\ \A k \in 0 .. Len(keysRead) : \A v :
              IsLastIn(keysRead, k, v) => IsLastIn(keysRead', k, v)
    BY <1>0, <2>1, <2>2, KeyIsRead, Zenon
  <2>4. /\ dTmp' \in Nat /\ Len(keysRead') = 2
        /\ IsLastIn(keysRead', 2, dTmp')
        /\ \A v : IsLastIn(keysRead, 1, v) => IsLastIn(keysRead', 1, v)
    BY <1>0, <2>1, <2>3
  <2>5. /\ \/ /\ calibration.CalType = POLYNOMIAL
              /\ calibration' = [calibration EXCEPT !.CoeffCount = dTmp']
           \/ /\ calibration.CalType # POLYNOMIAL
              /\ calibration' = [calibration EXCEPT !.PointCount = dTmp']
        /\ calItem' = calItem /\ calPc' = "array" /\ calRet' = calRet
    BY <1>6 DEF ReadCount, ReadOn
  <2>6. /\ calibration' \in CalibrationRecord /\ calibration'.CalType = calibration.CalType
        /\ calibration.CalType # POLYNOMIAL => calibration'.PointCount = dTmp'
    BY <2>4, <2>5 DEF CalibrationRecord
  <2>7. CalTypeOK'
    BY <2>3, <2>5, <2>6 DEF CalTypeOK, CalRange, CalibrationRecord
  <2>8a. IsLastIn(keysRead, 1, calibration.CalType)
    BY <2>1, IsLastMeans DEF MissingKeysRepeatTheLast
  <2>8b. IsLastIn(keysRead', 1, calibration'.CalType)
    BY <2>4, <2>6, <2>8a
  <2>8. IsLastPresent(1, calibration.CalType)'
    BY <2>8b DEF IsLastPresent, IsLastIn, PresentUpTo, PresentIn
  <2>9. IsLastPresent(2, dTmp)'
    BY <2>4 DEF IsLastPresent, IsLastIn, PresentUpTo, PresentIn
  <2>10. MissingKeysRepeatTheLast'
    BY <2>4, <2>6, <2>8, <2>9, CalibrationAssumption
    DEF MissingKeysRepeatTheLast, PIECEWISE, POLYNOMIAL
  <2>11. KeysBefore'
    BY <2>1, <2>4, <2>5, <2>6, CalibrationAssumption
    DEF KeysBefore, PIECEWISE, POLYNOMIAL
  <2> QED BY <2>3, <2>4, <2>5, <2>6, <2>7, <2>9, <2>10, <2>11
<1>10. CASE FindArray
  <2>1. /\ calPc = "array" /\ Len(keysRead) = 2 /\ calItem = 1
        /\ calibration.CalType \in {POLYNOMIAL, PIECEWISE}
        /\ IsLastPresent(Len(keysRead), dTmp)
    BY <1>10 DEF FindArray, KeysBefore
  <2>2. /\ calItem' = calItem /\ dTmp' = dTmp
        /\ calibration' = calibration /\ keysRead' = keysRead
    BY <1>10 DEF FindArray
  <2>3. \/ calPc' = "done" /\ calRet' = 0
        \/ /\ calPc' = "coefficient" /\ calRet' = calRet
           /\ calibration.CalType = POLYNOMIAL
        \/ /\ calPc' = "pwm" /\ calRet' = calRet
           /\ calibration.CalType = PIECEWISE
    BY <1>10, <2>1 DEF FindArray, ReadOn, Finished
  <2>4. CalTypeOK'
    BY <2>2, <2>3 DEF CalTypeOK
  <2>5. KeysBefore'
    BY <2>1, <2>2, <2>3, CalibrationAssumption DEF KeysBefore
  <2>6. MissingKeysRepeatTheLast' /\ IsLastPresent(Len(keysRead), dTmp)'
    BY <2>1, <2>2 DEF MissingKeysRepeatTheLast, IsLastPresent, PresentUpTo
  <2> QED BY <2>2, <2>3, <2>4, <2>5, <2>6
<1>7. CASE ReadCoefficient
  <2>1. /\ calPc = "coefficient" /\ Len(keysRead) = 2 /\ calItem \in 1 .. MAX_COEFFS
        /\ IsLastPresent(Len(keysRead), dTmp) /\ calibration.CalType = POLYNOMIAL
    BY <1>7, CalibrationAssumption DEF ReadCoefficient, KeysBefore, CalTypeOK
  <2>2. /\ \E v \in CalValue :
              calibration' = [calibration EXCEPT !.Coefficients[calItem] = v]
        /\ dTmp' = dTmp /\ keysRead' = keysRead /\ calItem' = calItem + 1
    BY <1>7 DEF ReadCoefficient
  <2>3. \/ calPc' = "done" /\ calRet' = 0
        \/ calPc' = "coefficient" /\ calRet' = calRet /\ calItem < MAX_COEFFS
    BY <1>7 DEF ReadCoefficient, ReadOn, Finished
  <2>4. /\ calibration' \in CalibrationRecord /\ calibration'.CalType = POLYNOMIAL
        /\ calibration'.PointCount = calibration.PointCount
        /\ calibration'.Points = calibration.Points
    <3>1. PICK v \in CalValue :
             calibration' = [calibration EXCEPT !.Coefficients[calItem] = v]
      BY <2>2
    <3>2. v \in Nat /\ calItem \in 1 .. MAX_COEFFS
      BY <2>1, CalibrationAssumption
    <3> QED BY <2>1, <3>1, <3>2 DEF CalibrationRecord
  <2>5. calItem' \in 1 .. (MAX_COEFFS + MAX_POINTS + 1)
    BY <2>1, <2>2, CalibrationAssumption
  <2>6. CalTypeOK'
    BY <2>2, <2>3, <2>4, <2>5 DEF CalTypeOK, CalibrationRecord
  <2>7. KeysBefore'
    BY <2>1, <2>2, <2>3, <2>4, CalibrationAssumption DEF KeysBefore
  <2>9. IsLastPresent(1, calibration.CalType)
    BY <2>1 DEF MissingKeysRepeatTheLast
  <2>11. MissingKeysRepeatTheLast'
    <3>1. \A i \in 1 .. MAX_POINTS : ~ (2 >= 2 * i + 1) /\ ~ (2 >= 2 * i + 2)
      BY CalibrationAssumption
    <3>2. IsLastIn(keysRead', 1, calibration'.CalType) /\ Len(keysRead') = 2
      BY <2>1, <2>2, <2>4, <2>9, IsLastMeans
    <3>3. calibration'.CalType # PIECEWISE
      BY <2>4 DEF POLYNOMIAL, PIECEWISE
    <3> QED BY <3>1, <3>2, <3>3, IsLastMeansNext
  <2>12. IsLastPresent(Len(keysRead), dTmp)'
    BY <2>1, <2>2 DEF IsLastPresent, PresentUpTo
  <2> QED BY <2>2, <2>3, <2>4, <2>6, <2>7, <2>11, <2>12
<1>8. CASE ReadPwm
  <2>1. /\ calPc = "pwm" /\ Len(keysRead) = 2 * calItem /\ calItem \in 1 .. MAX_POINTS
        /\ IsLastPresent(Len(keysRead), dTmp) /\ calibration.CalType = PIECEWISE
    BY <1>8, CalibrationAssumption DEF ReadPwm, KeysBefore, CalTypeOK
  <2>2. ReadKey(CalValue) /\ CalValue \subseteq CalRange
    BY <1>8 DEF ReadPwm, CalRange
  <2>3. /\ dTmp' \in CalRange
        /\ keysRead' \in Seq(CalKey) /\ Len(keysRead') = Len(keysRead) + 1
        /\ IsLastIn(keysRead', Len(keysRead'), dTmp')
        /\ \A k \in 0 .. Len(keysRead) : \A v :
              IsLastIn(keysRead, k, v) => IsLastIn(keysRead', k, v)
    BY <1>0, <2>1, <2>2, KeyIsRead, Zenon
  <2>4. /\ calibration' = [calibration EXCEPT !.Points[calItem].pwm = dTmp']
        /\ calItem' = calItem /\ calPc' = "delta_temp" /\ calRet' = calRet
    BY <1>8 DEF ReadPwm, ReadOn
  <2>5. dTmp' \in Nat /\ calItem \in Nat
    BY <1>0, <2>1, <2>3
  <2>6. /\ calibration' \in CalibrationRecord
        /\ calibration'.Points[calItem].pwm = dTmp'
        /\ calibration'.CalType = calibration.CalType
        /\ calibration'.PointCount = calibration.PointCount
        /\ \A j \in (1 .. MAX_POINTS) \ {calItem} :
              calibration'.Points[j] = calibration.Points[j]
    <3>1. calibration \in CalibrationRecord
      OBVIOUS
    <3> QED BY <2>1, <2>4, <2>5, <3>1, PwmWritten
  <2>7. CalTypeOK'
    BY <2>3, <2>4, <2>6 DEF CalTypeOK, CalRange, CalibrationRecord
  <2>8. KeysBefore'
    BY <2>1, <2>3, <2>4, <2>6 DEF KeysBefore
  <2>9. MissingKeysRepeatTheLast'
    <3>1. /\ Len(keysRead') = 2 * calItem + 1
          /\ IsLastIn(keysRead', 2 * calItem + 1, dTmp')
      BY <2>1, <2>3
    <3>2. /\ IsLastIn(keysRead, 1, calibration.CalType)
          /\ IsLastIn(keysRead, 2, calibration.PointCount)
      BY <2>1, <2>5, IsLastMeans DEF MissingKeysRepeatTheLast
    <3>3. /\ IsLastIn(keysRead', 1, calibration'.CalType)
          /\ IsLastIn(keysRead', 2, calibration'.PointCount)
      BY <2>1, <2>3, <2>5, <2>6, <3>2
    <3>4. ASSUME NEW i \in 1 .. MAX_POINTS
          PROVE  /\ Len(keysRead') >= 2 * i + 1 =>
                       IsLastIn(keysRead', 2 * i + 1, calibration'.Points[i].pwm)
                 /\ Len(keysRead') >= 2 * i + 2 =>
                       IsLastIn(keysRead', 2 * i + 2, calibration'.Points[i].delta_temp)
      <4>1. CASE i = calItem
        BY <2>5, <2>6, <3>1, <4>1
      <4>2. CASE i > calItem
        BY <2>5, <3>1, <4>2, CalibrationAssumption
      <4>3. CASE i < calItem
        <5>1. /\ i \in Nat /\ i # calItem /\ Len(keysRead) >= 2 * i + 2
              /\ 2 * i + 1 \in 0 .. Len(keysRead) /\ 2 * i + 2 \in 0 .. Len(keysRead)
          BY <2>1, <2>5, <4>3, CalibrationAssumption
        <5>2. Len(keysRead) >= 2 * i + 1
          BY <5>1
        <5>3. /\ IsLastPresent(2 * i + 1, calibration.Points[i].pwm)
              /\ IsLastPresent(2 * i + 2, calibration.Points[i].delta_temp)
          BY <5>1, <5>2 DEF MissingKeysRepeatTheLast
        <5>4. calibration'.Points[i] = calibration.Points[i]
          BY <2>6, <5>1
        <5> QED BY <2>3, <5>1, <5>3, <5>4, IsLastMeans, Zenon
      <4> QED BY <2>5, <4>1, <4>2, <4>3, CalibrationAssumption
    <3> QED BY <3>3, <3>4, IsLastMeansNext DEF MissingKeysRepeatTheLast
  <2>10. IsLastPresent(Len(keysRead), dTmp)'
    BY <2>3, IsLastMeansNext
  <2> QED BY <2>3, <2>4, <2>6, <2>7, <2>8, <2>9, <2>10
<1>9. CASE ReadDeltaTemp
  <2>1. /\ calPc = "delta_temp" /\ Len(keysRead) = 2 * calItem + 1
        /\ calItem \in 1 .. MAX_POINTS
        /\ IsLastPresent(Len(keysRead), dTmp) /\ calibration.CalType = PIECEWISE
    BY <1>9, CalibrationAssumption DEF ReadDeltaTemp, KeysBefore, CalTypeOK
  <2>2. ReadKey(CalValue) /\ CalValue \subseteq CalRange
    BY <1>9 DEF ReadDeltaTemp, CalRange
  <2>3. /\ dTmp' \in CalRange
        /\ keysRead' \in Seq(CalKey) /\ Len(keysRead') = Len(keysRead) + 1
        /\ IsLastIn(keysRead', Len(keysRead'), dTmp')
        /\ \A k \in 0 .. Len(keysRead) : \A v :
              IsLastIn(keysRead, k, v) => IsLastIn(keysRead', k, v)
    BY <1>0, <2>1, <2>2, KeyIsRead, Zenon
  <2>4. /\ calibration' = [calibration EXCEPT !.Points[calItem].delta_temp = dTmp']
        /\ calItem' = calItem + 1
        /\ \/ calPc' = "done" /\ calRet' = 0
           \/ calPc' = "pwm" /\ calRet' = calRet /\ calItem < MAX_POINTS
    BY <1>9 DEF ReadDeltaTemp, ReadOn, Finished
  <2>5. dTmp' \in Nat /\ calItem \in Nat
    BY <1>0, <2>1, <2>3
  <2>6. /\ calibration' \in CalibrationRecord
        /\ calibration'.Points[calItem].delta_temp = dTmp'
        /\ calibration'.Points[calItem].pwm = calibration.Points[calItem].pwm
        /\ calibration'.CalType = calibration.CalType
        /\ calibration'.PointCount = calibration.PointCount
        /\ \A j \in (1 .. MAX_POINTS) \ {calItem} :
              calibration'.Points[j] = calibration.Points[j]
    <3>1. calibration \in CalibrationRecord
      OBVIOUS
    <3> QED BY <2>1, <2>4, <2>5, <3>1, DeltaTempWritten
  <2>7a. calItem' \in 1 .. (MAX_COEFFS + MAX_POINTS + 1)
    BY <2>1, <2>4, CalibrationAssumption
  <2>7. CalTypeOK'
    BY <2>3, <2>4, <2>6, <2>7a DEF CalTypeOK, CalRange, CalibrationRecord
  <2>8. KeysBefore'
    <3>1. Len(keysRead') = 2 * calItem'
      BY <2>1, <2>3, <2>4, <2>5
    <3>2. calItem < MAX_POINTS => calItem' <= MAX_POINTS
      BY <2>4, <2>5, CalibrationAssumption
    <3> QED BY <2>1, <2>4, <2>6, <3>1, <3>2 DEF KeysBefore
  <2>9. MissingKeysRepeatTheLast'
    <3>1. /\ Len(keysRead') = 2 * calItem + 2
          /\ IsLastIn(keysRead', 2 * calItem + 2, dTmp')
      BY <2>1, <2>3, <2>5
    <3>2. /\ IsLastIn(keysRead, 1, calibration.CalType)
          /\ IsLastIn(keysRead, 2, calibration.PointCount)
      BY <2>1, <2>5, IsLastMeans DEF MissingKeysRepeatTheLast
    <3>3. /\ IsLastIn(keysRead', 1, calibration'.CalType)
          /\ IsLastIn(keysRead', 2, calibration'.PointCount)
      BY <2>1, <2>3, <2>5, <2>6, <3>2
    <3>4. ASSUME NEW i \in 1 .. MAX_POINTS
          PROVE  /\ Len(keysRead') >= 2 * i + 1 =>
                       IsLastIn(keysRead', 2 * i + 1, calibration'.Points[i].pwm)
                 /\ Len(keysRead') >= 2 * i + 2 =>
                       IsLastIn(keysRead', 2 * i + 2, calibration'.Points[i].delta_temp)
      <4>1. CASE i = calItem
        <5>1. IsLastIn(keysRead, 2 * calItem + 1, calibration.Points[calItem].pwm)
          BY <2>1, <2>5, IsLastMeans DEF MissingKeysRepeatTheLast
        <5>2. IsLastIn(keysRead', 2 * calItem + 1, calibration.Points[calItem].pwm)
          BY <2>1, <2>3, <2>5, <5>1
        <5> QED BY <2>6, <3>1, <4>1, <5>2
      <4>2. CASE i > calItem
        BY <2>5, <3>1, <4>2, CalibrationAssumption
      <4>3. CASE i < calItem
        <5>1. /\ i \in Nat /\ i # calItem /\ Len(keysRead) >= 2 * i + 2
              /\ 2 * i + 1 \in 0 .. Len(keysRead) /\ 2 * i + 2 \in 0 .. Len(keysRead)
          BY <2>1, <2>5, <4>3, CalibrationAssumption
        <5>2. Len(keysRead) >= 2 * i + 1
          BY <5>1
        <5>3. /\ IsLastPresent(2 * i + 1, calibration.Points[i].pwm)
              /\ IsLastPresent(2 * i + 2, calibration.Points[i].delta_temp)
          BY <5>1, <5>2 DEF MissingKeysRepeatTheLast
        <5>4. calibration'.Points[i] = calibration.Points[i]
          BY <2>6, <5>1
        <5> QED BY <2>3, <5>1, <5>3, <5>4, IsLastMeans, Zenon
      <4> QED BY <2>5, <4>1, <4>2, <4>3, CalibrationAssumption
    <3> QED BY <3>3, <3>4, IsLastMeansNext DEF MissingKeysRepeatTheLast
  <2>10. IsLastPresent(Len(keysRead), dTmp)'
    BY <2>3, IsLastMeansNext
  <2> QED BY <2>3, <2>4, <2>6, <2>7, <2>8, <2>9, <2>10
<1> QED
  BY <1>1, <1>2, <1>3, <1>4, <1>5, <1>6, <1>7, <1>8, <1>9, <1>10
  DEF CalNext

\* The parser of the calibration keeps the invariant.
LEMMA CalInvariant == CalSpec => []CalInv
<1>1. CalInv /\ [CalNext]_calVars => CalInv'
  BY CalStep
<1> QED BY CalStart, <1>1, PTL DEF CalSpec

\* ParseAmbientCalibrationFromJson, against the comment over ConvertcJSONToValue: a key
\* that a file leaves out takes the value of the last key before it that was there,
\* for all tables, files and counts.
THEOREM MissingKeysRepeat == CalSpec => []MissingKeysRepeatTheLast
<1>1. CalInv => MissingKeysRepeatTheLast
  BY DEF CalInv
<1> QED BY <1>1, CalInvariant, PTL

-----------------------------------------------------------------------------
(* The interpolation.  The segments before the point that is first beyond  *)
(* x lie below x, so that the first segment that encloses x rises.         *)

\* A set of numbers that is not empty has a least one.
LEMMA LeastOf ==
    ASSUME NEW T, T \subseteq Nat, T # {}
    PROVE  \E m \in T : \A n \in T : m <= n
<1> DEFINE Below == {p \in Nat \X Nat : p[1] < p[2]}
<1>1. IsWellFoundedOn(OpToRel(<, Nat), Nat)
  BY NatLessThanWellFounded, Zenon
<1>2. IsWellFoundedOn(Below, Nat)
  BY <1>1, Zenon DEF OpToRel
<1>3. \A n, m \in Nat : n < m => <<n, m>> \in Below
  OBVIOUS
<1> HIDE DEF Below
<1>4. PICK m \in T : \A n \in T : ~ (<<n, m>> \in Below)
  BY <1>2, WFMin, Zenon
<1>5. ASSUME NEW n \in T
      PROVE  m <= n
  <2>1. n \in Nat /\ m \in Nat
    OBVIOUS
  <2>2. ~ (n < m)
    BY <1>3, <1>4, <2>1, Zenon
  <2> QED BY <2>1, <2>2
<1> QED BY <1>5

\* Between a point below x and one that is not, some segment encloses x.
LEMMA SegmentFound ==
    ASSUME NEW n \in Nat, NEW xs \in [1 .. n -> Nat], NEW x \in Nat,
           NEW j \in 2 .. n, xs[1] < x, x <= xs[j]
    PROVE  \E i \in 1 .. j - 1 : Encloses(xs, i, x)
<1> DEFINE T == {k \in 2 .. n : x <= xs[k]}
<1>1. T \subseteq Nat /\ j \in T
  OBVIOUS
<1>2. PICK m \in T : \A k \in T : m <= k
  BY <1>1, LeastOf
<1>3. m \in 2 .. j /\ m - 1 \in 1 .. j - 1 /\ m - 1 \in 1 .. n /\ x <= xs[m]
  BY <1>1, <1>2
<1>4. xs[m - 1] \in Nat
  BY <1>3
<1>5. xs[m - 1] <= x
  <2>1. CASE m = 2
    BY <2>1, <1>3, <1>4
  <2>2. CASE m # 2
    <3>1. m - 1 \in 2 .. n /\ ~ (m <= m - 1)
      BY <1>3, <2>2
    <3>2. ~ (x <= xs[m - 1])
      BY <1>2, <3>1
    <3> QED BY <1>4, <3>2
  <2> QED BY <2>1, <2>2
<1>6. (m - 1) + 1 = m
  BY <1>3
<1> QED BY <1>3, <1>5, <1>6 DEF Encloses

\* The first segment that encloses x is one, and it rises, also where points are
\* at one place.
LEMMA FirstSegmentRises ==
    ASSUME NEW n \in Nat, n >= 2, NEW xs \in [1 .. n -> Nat], Len(xs) = n,
           NEW x \in Nat, xs[1] < x, x < xs[n]
    PROVE  \E i \in 1 .. n - 1 :
              /\ FirstSegment(xs, x) = {i}
              /\ Encloses(xs, i, x) /\ xs[i] < xs[i + 1]
<1> DEFINE T == {i \in 1 .. n - 1 : Encloses(xs, i, x)}
<1>1. T \subseteq Nat /\ T # {}
  <2>1. n \in 2 .. n /\ x <= xs[n]
    OBVIOUS
  <2>2. \E i \in 1 .. n - 1 : Encloses(xs, i, x)
    BY <2>1, SegmentFound
  <2> QED BY <2>2
<1>2. PICK i \in T : \A k \in T : i <= k
  BY <1>1, LeastOf
<1>3. i \in 1 .. n - 1 /\ Encloses(xs, i, x)
  BY <1>2
<1>4. \A j \in 1 .. i - 1 : ~ Encloses(xs, j, x)
  BY <1>2, <1>3
<1>5. FirstSegment(xs, x) = {i}
  BY <1>2, <1>3, <1>4 DEF FirstSegment
<1>6. xs[i] \in Nat /\ xs[i + 1] \in Nat /\ xs[i] <= x /\ x <= xs[i + 1]
  BY <1>3 DEF Encloses
<1>7. xs[i] < xs[i + 1]
  <2> SUFFICES ASSUME xs[i] = xs[i + 1] PROVE FALSE
    BY <1>6
  <2>1. x = xs[i]
    BY <1>6
  <2>2. i # 1
    BY <2>1
  <2>3. i \in 2 .. n /\ x <= xs[i]
    BY <1>3, <1>6, <2>1, <2>2
  <2> QED BY <1>4, <2>3, SegmentFound
<1> QED BY <1>3, <1>5, <1>7

\* A weighted mean of two numbers lies between them.
LEMMA MeanIsBetween ==
    ASSUME NEW a \in Nat, NEW b \in Nat, NEW d \in Nat, NEW t \in 0 .. d
    PROVE  LET num == a * d + (b - a) * t
           IN  /\ num \in Int
               /\ a * d <= num \/ b * d <= num
               /\ num <= a * d \/ num <= b * d
<1>1. CASE a <= b
  <2>1. PICK e \in Nat : b = a + e
    <3>1. b - a \in Nat /\ b = a + (b - a)
      BY <1>1
    <3> QED BY <3>1
  <2>2. /\ e * t \in Nat /\ e * t <= e * d /\ a * d \in Nat
        /\ b * d = a * d + e * d /\ (b - a) = e /\ e * d \in Nat
    BY <2>1
  <2>3. a * d + (b - a) * t = a * d + e * t
    BY <2>2
  <2> QED BY <2>2, <2>3
<1>2. CASE b <= a
  <2>1. PICK e \in Nat : a = b + e
    <3>1. a - b \in Nat /\ a = b + (a - b)
      BY <1>2
    <3> QED BY <3>1
  <2>2. PICK r \in Nat : d = t + r
    <3>1. d - t \in Nat /\ d = t + (d - t)
      OBVIOUS
    <3> QED BY <3>1
  <2>3. /\ e * t \in Nat /\ e * r \in Nat /\ b * d \in Nat
        /\ a * d = b * d + e * t + e * r /\ (b - a) = -e
    BY <2>1, <2>2
  <2>4. a * d + (b - a) * t = b * d + e * r
    BY <2>3
  <2> QED BY <2>3, <2>4
<1> QED BY <1>1, <1>2

\* A result is one fraction, defined, between two of the points.
IsBetween(found, ys) ==
    \E f \in found :
        /\ found = {f}
        /\ f.Den > 0
        /\ \E i \in DOMAIN ys : ys[i] * f.Den <= f.Num
        /\ \E i \in DOMAIN ys : f.Num <= ys[i] * f.Den

\* The interpolation of at least two points, in any order.
LEMMA InterpolatedIsBetween ==
    ASSUME NEW n \in Nat, n >= 2, NEW xs \in [1 .. n -> Nat], NEW ys \in [1 .. n -> Nat],
           NEW x \in Nat
    PROVE  IsBetween(Interpolated(xs, ys, x), ys)
<1>1. Len(xs) = n /\ DOMAIN ys = 1 .. n
  OBVIOUS
<1> DEFINE found == Interpolated(xs, ys, x)
<1>2. ASSUME NEW i \in 1 .. n, found = {Fraction(ys[i], 1)}
      PROVE  IsBetween(found, ys)
  <2>1. ys[i] \in Nat /\ ys[i] * 1 = ys[i]
    OBVIOUS
  <2> DEFINE f == Fraction(ys[i], 1)
  <2>2. f.Num = ys[i] /\ f.Den = 1
    BY DEF Fraction
  <2> HIDE DEF f
  <2>3. found = {f} /\ f \in found
    BY <1>2 DEF f
  <2> HIDE DEF found
  <2> QED BY <1>1, <2>1, <2>2, <2>3 DEF IsBetween
<1>3. CASE x <= xs[1]
  <2>1. found = {Fraction(ys[1], 1)} /\ 1 \in 1 .. n
    BY <1>1, <1>3 DEF Interpolated
  <2> QED BY <1>2, <2>1
<1>4. CASE ~ (x <= xs[1]) /\ x >= xs[n]
  <2>1. found = {Fraction(ys[n], 1)} /\ n \in 1 .. n
    BY <1>1, <1>4 DEF Interpolated
  <2> QED BY <1>2, <2>1
<1>5. CASE ~ (x <= xs[1]) /\ ~ (x >= xs[n])
  <2>1. xs[1] < x /\ x < xs[n]
    BY <1>5
  <2>2. PICK i \in 1 .. n - 1 : /\ FirstSegment(xs, x) = {i}
                                /\ Encloses(xs, i, x) /\ xs[i] < xs[i + 1]
    BY <1>1, <2>1, FirstSegmentRises
  <2> DEFINE d == xs[i + 1] - xs[i]
             t == x - xs[i]
             num == ys[i] * d + (ys[i + 1] - ys[i]) * t
             f == Fraction(num, d)
  <2>3. /\ i \in 1 .. n /\ i + 1 \in 1 .. n
        /\ xs[i] \in Nat /\ xs[i + 1] \in Nat /\ ys[i] \in Nat /\ ys[i + 1] \in Nat
    OBVIOUS
  <2>4. d \in Nat /\ d > 0 /\ t \in 0 .. d
    BY <2>2, <2>3 DEF Encloses
  <2>5. found = {f}
    BY <1>1, <1>5, <2>2 DEF Interpolated
  <2>6. f.Num = num /\ f.Den = d
    BY DEF Fraction
  <2> HIDE DEF d, t
  <2>7. /\ ys[i] * d <= num \/ ys[i + 1] * d <= num
        /\ num <= ys[i] * d \/ num <= ys[i + 1] * d
    BY <2>3, <2>4, MeanIsBetween
  <2> HIDE DEF num, f, found
  <2>8. \E k \in DOMAIN ys : ys[k] * f.Den <= f.Num
    BY <1>1, <2>3, <2>6, <2>7
  <2>9. \E k \in DOMAIN ys : f.Num <= ys[k] * f.Den
    BY <1>1, <2>3, <2>6, <2>7
  <2>10. f \in found /\ f.Den > 0
    BY <2>4, <2>5, <2>6
  <2> QED BY <2>5, <2>8, <2>9, <2>10 DEF IsBetween, found
<1> QED BY <1>3, <1>4, <1>5

\* FSCGetAmbientTemperature: whatever points a file has, and wherever the parse
\* stopped, the result is one number, of two points that differ, and between the points.
THEOREM InterpolationStaysBetween == CalSpec => []InterpolationIsBetweenPoints
<1>1. CalInv => InterpolationIsBetweenPoints
  <2> SUFFICES ASSUME CalInv, calibration.CalType = PIECEWISE,
                      calibration.PointCount \in 2 .. MAX_POINTS,
                      NEW x \in CalValue
               PROVE  IsBetween(DeltaTemp(calibration, x),
                          Column(calibration.Points, calibration.PointCount, "delta_temp"))
    BY DEF InterpolationIsBetweenPoints, IsBetween
  <2> DEFINE n == calibration.PointCount
             xs == Column(calibration.Points, n, "pwm")
             ys == Column(calibration.Points, n, "delta_temp")
  <2>1. n \in Nat /\ n >= 2 /\ x \in Nat /\ 1 .. n \subseteq 1 .. MAX_POINTS
    BY CalibrationAssumption
  <2>2. \A i \in 1 .. n : /\ calibration.Points[i].pwm \in Nat
                          /\ calibration.Points[i].delta_temp \in Nat
    BY <2>1 DEF CalInv, CalibrationRecord
  <2>3. xs \in [1 .. n -> Nat] /\ ys \in [1 .. n -> Nat]
    BY <2>2 DEF Column
  <2>4. calibration.CalType # POLYNOMIAL /\ calibration.PointCount <= MAX_POINTS
    BY CalibrationAssumption DEF POLYNOMIAL, PIECEWISE
  <2>5. DeltaTemp(calibration, x) = Interpolated(xs, ys, x)
    BY <2>4, Zenon DEF DeltaTemp
  <2> HIDE DEF n, xs, ys
  <2>6. IsBetween(Interpolated(xs, ys, x), ys)
    BY <2>1, <2>3, InterpolatedIsBetween
  <2> QED BY <2>5, <2>6 DEF n, xs, ys
<1> QED BY <1>1, CalInvariant, PTL

-----------------------------------------------------------------------------
(* Sums.  SumOf adds along the sequence: a table of the partial sums, which *)
(* exists and is the only one that fits, so that the sum of a sequence that *)
(* was changed follows from a table for it.                                 *)

\* A set that has 0 and with a number below n the next one has all up to n.
LEMMA UpToInduction ==
    ASSUME NEW n \in Nat, NEW T, 0 \in T,
           \A i \in 0 .. n - 1 : i \in T => i + 1 \in T
    PROVE  0 .. n \subseteq T
<1> DEFINE Left == {k \in 0 .. n : k \notin T}
<1> SUFFICES ASSUME Left # {} PROVE FALSE
  OBVIOUS
<1>1. Left \subseteq Nat
  OBVIOUS
<1>2. PICK m \in Left : \A k \in Left : m <= k
  BY <1>1, LeastOf
<1>3. m \in 0 .. n /\ m # 0 /\ m \notin T
  OBVIOUS
<1>4. m - 1 \in 0 .. n - 1 /\ m - 1 \in 0 .. n /\ ~ (m <= m - 1) /\ (m - 1) + 1 = m
  BY <1>3
<1>5. m - 1 \in T
  BY <1>2, <1>4
<1> QED BY <1>3, <1>4, <1>5

Totals(f, s) == [i \in 0 .. Len(s) |-> IF i = 0 THEN 0 ELSE f[i - 1] + s[i]]
IsTotals(f, s) == f = Totals(f, s)

\* What a table of partial sums holds.
LEMMA TotalsMean ==
    ASSUME NEW s \in Seq(Nat), NEW f
    PROVE  IsTotals(f, s) <=>
              /\ f = [i \in 0 .. Len(s) |-> f[i]]
              /\ f[0] = 0
              /\ \A i \in 1 .. Len(s) : f[i] = f[i - 1] + s[i]
BY DEF IsTotals, Totals

\* The sum is the last entry of the table.
LEMMA SumIsTotal ==
    ASSUME NEW s \in Seq(Nat)
    PROVE  SumOf(s) = (CHOOSE f : IsTotals(f, s))[Len(s)]
BY DEF SumOf, IsTotals, Totals

\* Every sequence has a table.
LEMMA TotalsExist == ASSUME NEW s \in Seq(Nat) PROVE \E f : IsTotals(f, s)
<1> DEFINE Fits(f, k) == f = [i \in 0 .. k |-> IF i = 0 THEN 0 ELSE f[i - 1] + s[i]]
           T == {k \in 0 .. Len(s) : \E f : Fits(f, k)}
<1>1. Len(s) \in Nat
  OBVIOUS
<1>2. 0 \in T
  <2> DEFINE f == [i \in 0 .. 0 |-> 0]
  <2>1. Fits(f, 0)
    OBVIOUS
  <2> HIDE DEF Fits
  <2> QED BY <1>1, <2>1
<1>3. ASSUME NEW k \in 0 .. Len(s) - 1, k \in T
      PROVE  k + 1 \in T
  <2>1. PICK f : Fits(f, k)
    BY <1>3
  <2> DEFINE g == [i \in 0 .. k + 1 |-> IF i = k + 1 THEN f[k] + s[k + 1] ELSE f[i]]
             h == [i \in 0 .. k + 1 |-> IF i = 0 THEN 0 ELSE g[i - 1] + s[i]]
  <2>2. ASSUME NEW i \in 0 .. k + 1 PROVE g[i] = h[i]
    <3>1. CASE i = 0
      BY <1>1, <2>1, <3>1
    <3>2. CASE i = k + 1
      <4>1. i - 1 = k /\ i # 0 /\ k \in 0 .. k + 1 /\ k # k + 1
        BY <1>1, <3>2
      <4>2. g[k] = f[k]
        BY <4>1
      <4> QED BY <3>2, <4>1, <4>2
    <3>3. CASE i # 0 /\ i # k + 1
      <4>1. i \in 0 .. k /\ i - 1 \in 0 .. k + 1 /\ i - 1 # k + 1
        BY <1>1, <3>3
      <4>2. g[i - 1] = f[i - 1] /\ f[i] = f[i - 1] + s[i] /\ g[i] = f[i]
        BY <2>1, <3>3, <4>1
      <4> QED BY <3>3, <4>1, <4>2
    <3> QED BY <3>1, <3>2, <3>3
  <2>3. g = h
    BY <2>2
  <2> HIDE DEF g
  <2>4. Fits(g, k + 1)
    BY <2>3
  <2>5. k + 1 \in 0 .. Len(s)
    BY <1>1
  <2> HIDE DEF Fits
  <2> QED BY <2>4, <2>5
<1> HIDE DEF T
<1>4. Len(s) \in T
  <2>1. 0 .. Len(s) \subseteq T
    BY <1>1, <1>2, <1>3, UpToInduction
  <2> QED BY <1>1, <2>1
<1> QED BY <1>4 DEF T, IsTotals, Totals

\* Two tables of a sequence agree, and hold numbers.
LEMMA TotalsAgree ==
    ASSUME NEW s \in Seq(Nat), NEW f, NEW g, IsTotals(f, s), IsTotals(g, s)
    PROVE  \A i \in 0 .. Len(s) : f[i] = g[i] /\ f[i] \in Nat
<1> DEFINE T == {i \in 0 .. Len(s) : f[i] = g[i] /\ f[i] \in Nat}
<1>1. Len(s) \in Nat
  OBVIOUS
<1>2. 0 \in T
  BY <1>1, TotalsMean
<1>3. ASSUME NEW k \in 0 .. Len(s) - 1, k \in T
      PROVE  k + 1 \in T
  <2>1. k + 1 \in 1 .. Len(s) /\ (k + 1) - 1 = k /\ s[k + 1] \in Nat
    BY <1>1
  <2>2. f[k + 1] = f[k] + s[k + 1] /\ g[k + 1] = g[k] + s[k + 1]
    BY <2>1, TotalsMean
  <2> QED BY <1>3, <2>1, <2>2
<1>4. 0 .. Len(s) \subseteq T
  <2> HIDE DEF T
  <2> QED BY <1>1, <1>2, <1>3, UpToInduction
<1> QED BY <1>4

\* The sum is the last of any table.
LEMMA SumOfTotals ==
    ASSUME NEW s \in Seq(Nat), NEW f, IsTotals(f, s)
    PROVE  SumOf(s) = f[Len(s)] /\ SumOf(s) \in Nat
<1> DEFINE g == CHOOSE h : IsTotals(h, s)
<1>1. IsTotals(g, s) /\ SumOf(s) = g[Len(s)]
  BY SumIsTotal
<1> HIDE DEF g
<1>2. Len(s) \in 0 .. Len(s)
  OBVIOUS
<1> QED BY <1>1, <1>2, TotalsAgree

\* One more number adds to the sum.
LEMMA SumAppend ==
    ASSUME NEW s \in Seq(Nat), NEW e \in Nat
    PROVE  SumOf(Append(s, e)) = SumOf(s) + e
<1> DEFINE t == Append(s, e)
           n == Len(s)
<1>1. /\ t \in Seq(Nat) /\ Len(t) = n + 1 /\ n \in Nat
      /\ \A i \in 1 .. n : t[i] = s[i]
      /\ t[n + 1] = e
  OBVIOUS
<1>2. PICK f : IsTotals(f, s)
  BY TotalsExist
<1> DEFINE g == [i \in 0 .. n + 1 |-> IF i = n + 1 THEN f[n] + e ELSE f[i]]
<1>3. g[0] = 0 /\ g[n + 1] = f[n] + e /\ g = [i \in 0 .. n + 1 |-> g[i]]
  BY <1>1, <1>2, TotalsMean
<1>4. ASSUME NEW i \in 1 .. n + 1 PROVE g[i] = g[i - 1] + t[i]
  <2>1. i - 1 \in 0 .. n /\ i - 1 # n + 1 /\ i \in 0 .. n + 1
    BY <1>1
  <2>2. g[i - 1] = f[i - 1]
    BY <1>1, <2>1
  <2>3. CASE i = n + 1
    BY <1>1, <2>1, <2>2, <2>3
  <2>4. CASE i # n + 1
    <3>1. i \in 1 .. n
      BY <1>1, <2>4
    <3> QED BY <1>1, <1>2, <2>1, <2>2, <2>4, <3>1, TotalsMean
  <2> QED BY <2>3, <2>4
<1> HIDE DEF t, g
<1>5. IsTotals(g, t)
  BY <1>1, <1>3, <1>4, TotalsMean
<1>6. SumOf(t) = f[n] + e /\ SumOf(s) = f[n]
  BY <1>1, <1>2, <1>3, <1>5, SumOfTotals
<1> QED BY <1>6 DEF t

\* Without its first number the sum is less by it.
LEMMA SumTail ==
    ASSUME NEW s \in Seq(Nat), Len(s) > 0
    PROVE  SumOf(Tail(s)) + s[1] = SumOf(s)
<1> DEFINE t == Tail(s)
           n == Len(s)
<1>1. /\ t \in Seq(Nat) /\ Len(t) = n - 1 /\ n \in Nat /\ n > 0
      /\ \A i \in 1 .. n - 1 : t[i] = s[i + 1]
      /\ s[1] \in Nat
  OBVIOUS
<1>2. PICK f : IsTotals(f, s)
  BY TotalsExist
<1>3. f[0] = 0 /\ \A i \in 1 .. n : f[i] = f[i - 1] + s[i]
  BY <1>2, TotalsMean
<1>4. \A i \in 0 .. n : f[i] \in Nat
  BY <1>2, TotalsAgree
<1> DEFINE g == [i \in 0 .. n - 1 |-> f[i + 1] - s[1]]
<1>5. g[0] = 0 /\ g[n - 1] = f[n] - s[1] /\ g = [i \in 0 .. n - 1 |-> g[i]]
  <2>1. f[1] = s[1] /\ 0 + 1 = 1 /\ (n - 1) + 1 = n /\ 0 \in 0 .. n - 1 /\ n - 1 \in 0 .. n - 1
    BY <1>1, <1>3
  <2> QED BY <1>1, <2>1
<1>6. ASSUME NEW i \in 1 .. n - 1 PROVE g[i] = g[i - 1] + t[i]
  <2>1. i + 1 \in 1 .. n /\ (i + 1) - 1 = i /\ (i - 1) + 1 = i /\ i - 1 \in 0 .. n - 1
        /\ i \in 0 .. n - 1 /\ i \in 0 .. n
    BY <1>1
  <2>2. f[i + 1] = f[i] + s[i + 1] /\ g[i] = f[i + 1] - s[1] /\ g[i - 1] = f[i] - s[1]
    BY <1>3, <2>1
  <2>3. f[i] \in Nat /\ s[i + 1] \in Nat /\ t[i] = s[i + 1]
    BY <1>1, <1>4, <2>1
  <2> HIDE DEF t, g
  <2> QED BY <1>1, <2>2, <2>3
<1> HIDE DEF t, g
<1>7. IsTotals(g, t)
  BY <1>1, <1>5, <1>6, TotalsMean
<1>8. SumOf(t) = f[n] - s[1] /\ SumOf(s) = f[n] /\ f[n] \in Nat
  BY <1>1, <1>2, <1>4, <1>5, <1>7, SumOfTotals
<1> QED BY <1>1, <1>8 DEF t

\* A number that is replaced changes the sum by the difference.
LEMMA SumUpdate ==
    ASSUME NEW s \in Seq(Nat), NEW k \in 1 .. Len(s), NEW v \in Nat
    PROVE  SumOf([s EXCEPT ![k] = v]) + s[k] = SumOf(s) + v
<1> DEFINE t == [s EXCEPT ![k] = v]
           n == Len(s)
<1>1. /\ t \in Seq(Nat) /\ Len(t) = n /\ n \in Nat
      /\ \A i \in 1 .. n : i # k => t[i] = s[i]
      /\ t[k] = v /\ s[k] \in Nat /\ k \in 1 .. n
  OBVIOUS
<1>2. PICK f : IsTotals(f, s)
  BY TotalsExist
<1>3. f[0] = 0 /\ \A i \in 1 .. n : f[i] = f[i - 1] + s[i]
  BY <1>2, TotalsMean
<1>4. \A i \in 0 .. n : f[i] \in Nat
  BY <1>2, TotalsAgree
<1> DEFINE g == [i \in 0 .. n |-> IF i < k THEN f[i] ELSE f[i] - s[k] + v]
<1>5. g[0] = 0 /\ g[n] = f[n] - s[k] + v /\ g = [i \in 0 .. n |-> g[i]]
  BY <1>1, <1>3
<1>6. ASSUME NEW i \in 1 .. n PROVE g[i] = g[i - 1] + t[i]
  <2>1. i \in 0 .. n /\ i - 1 \in 0 .. n /\ i \in Nat /\ k \in Nat /\ s[i] \in Nat
    BY <1>1
  <2>2. f[i] = f[i - 1] + s[i] /\ f[i - 1] \in Nat /\ f[i] \in Nat
    BY <1>3, <1>4, <2>1
  <2>3. /\ g[i] = IF i < k THEN f[i] ELSE f[i] - s[k] + v
        /\ g[i - 1] = IF i - 1 < k THEN f[i - 1] ELSE f[i - 1] - s[k] + v
    BY <2>1
  <2> HIDE DEF t, g
  <2>4. CASE i < k
    BY <1>1, <2>1, <2>2, <2>3, <2>4
  <2>5. CASE i = k
    <3>1. /\ ~ (i < k) /\ i - 1 < k /\ t[i] = v
          /\ g[i] = f[i] - s[k] + v /\ g[i - 1] = f[i - 1] /\ f[i] = f[i - 1] + s[k]
      BY <1>1, <2>1, <2>2, <2>3, <2>5
    <3>2. s[k] \in Nat /\ v \in Nat
      BY <1>1
    <3>3. f[i] - s[k] + v = f[i - 1] + v
      BY ONLY <2>2, <3>1, <3>2, SMT
    <3> QED BY <3>1, <3>3, Zenon
  <2>6. CASE i > k
    <3>1. ~ (i < k) /\ ~ (i - 1 < k) /\ i # k /\ t[i] = s[i]
      BY <1>1, <2>1, <2>6
    <3>2. g[i] = f[i] - s[k] + v /\ g[i - 1] = f[i - 1] - s[k] + v
      BY <2>3, <3>1
    <3>3. s[k] \in Nat /\ v \in Nat /\ s[i] \in Nat
      BY <1>1, <2>1
    <3>4. f[i] - s[k] + v = f[i - 1] - s[k] + v + s[i]
      BY ONLY <2>2, <3>3, SMT
    <3> QED BY <3>1, <3>2, <3>4, Zenon
  <2> QED BY <2>1, <2>4, <2>5, <2>6
<1> HIDE DEF t, g
<1>7. IsTotals(g, t)
  BY <1>1, <1>5, <1>6, TotalsMean
<1>8. n \in 0 .. n /\ f[n] \in Nat
  BY <1>1, <1>4
<1>9. SumOf(t) = f[n] - s[k] + v /\ SumOf(s) = f[n]
  BY <1>1, <1>2, <1>5, <1>7, SumOfTotals
<1> QED BY <1>1, <1>8, <1>9 DEF t

\* Numbers that are all at least c, or all at most c, have a sum that is at least,
\* or at most, c for each.
LEMMA SumBounds ==
    ASSUME NEW s \in Seq(Nat), NEW c \in Int
    PROVE  /\ (\A i \in 1 .. Len(s) : c <= s[i]) => c * Len(s) <= SumOf(s)
           /\ (\A i \in 1 .. Len(s) : s[i] <= c) => SumOf(s) <= c * Len(s)
<1> DEFINE n == Len(s)
<1>1. n \in Nat /\ n \in 0 .. n /\ \A i \in 1 .. n : s[i] \in Nat
  OBVIOUS
<1>2. PICK f : IsTotals(f, s)
  BY TotalsExist
<1>3. f[0] = 0 /\ \A i \in 1 .. n : f[i] = f[i - 1] + s[i]
  BY <1>2, TotalsMean
<1>4. SumOf(s) = f[n] /\ \A i \in 0 .. n : f[i] \in Nat
  BY <1>2, SumOfTotals, TotalsAgree
<1>5. ASSUME \A i \in 1 .. n : c <= s[i]
      PROVE  c * n <= f[n]
  <2> DEFINE T == {i \in 0 .. n : c * i <= f[i]}
  <2>1. 0 \in T
    BY <1>1, <1>3
  <2>2. ASSUME NEW i \in 0 .. n - 1, i \in T
        PROVE  i + 1 \in T
    <3>1. i + 1 \in 1 .. n /\ i + 1 \in 0 .. n /\ (i + 1) - 1 = i /\ i \in Nat
      BY <1>1
    <3>2. f[i + 1] = f[i] + s[i + 1] /\ c <= s[i + 1] /\ f[i] \in Nat /\ s[i + 1] \in Nat
      BY <1>1, <1>3, <1>4, <1>5, <3>1
    <3>3. c * (i + 1) = c * i + c /\ c * i \in Int
      BY <3>1
    <3> QED BY <2>2, <3>1, <3>2, <3>3
  <2>3. 0 .. n \subseteq T
    <3> HIDE DEF T
    <3> QED BY <1>1, <2>1, <2>2, UpToInduction
  <2> QED BY <1>1, <2>3
<1>6. ASSUME \A i \in 1 .. n : s[i] <= c
      PROVE  f[n] <= c * n
  <2> DEFINE T == {i \in 0 .. n : f[i] <= c * i}
  <2>1. 0 \in T
    BY <1>1, <1>3
  <2>2. ASSUME NEW i \in 0 .. n - 1, i \in T
        PROVE  i + 1 \in T
    <3>1. i + 1 \in 1 .. n /\ i + 1 \in 0 .. n /\ (i + 1) - 1 = i /\ i \in Nat
      BY <1>1
    <3>2. f[i + 1] = f[i] + s[i + 1] /\ s[i + 1] <= c /\ f[i] \in Nat /\ s[i + 1] \in Nat
      BY <1>1, <1>3, <1>4, <1>6, <3>1
    <3>3. c * (i + 1) = c * i + c /\ c * i \in Int
      BY <3>1
    <3> QED BY <2>2, <3>1, <3>2, <3>3
  <2>3. 0 .. n \subseteq T
    <3> HIDE DEF T
    <3> QED BY <1>1, <2>1, <2>2, UpToInduction
  <2> QED BY <1>1, <2>3
<1> QED BY <1>4, <1>5, <1>6

-----------------------------------------------------------------------------
(* The ring.  The samples are the places of the buffer, the oldest first,  *)
(* so that the place that is overwritten holds the sample that is dropped. *)

Places(buf) == [i \in 1 .. AVERAGING_SIZE |-> buf[i - 1]]

\* The place of the i-th of the last samples.
PlaceOf(i) ==
    IF Len(samples) < AVERAGING_SIZE THEN i - 1
    ELSE IF averageCount + i - 1 < AVERAGING_SIZE THEN averageCount + i - 1
    ELSE averageCount + i - 1 - AVERAGING_SIZE

AverageInv ==
    /\ AverageTypeOK
    /\ Len(samples) = IF averageInitDone THEN AVERAGING_SIZE ELSE averageCount
    /\ \A i \in 1 .. Len(samples) : samples[i] = averageBuf[PlaceOf(i)]
    /\ averageInitDone => SumOf(samples) = SumOf(Places(averageBuf))
    /\ AverageIsOfTheLastSamples

\* A value of the average's division: the quotient of the sum by the size.
LEMMA Quotient ==
    \A a \in Nat : \A n \in Nat \ {0} :
        /\ a \div n \in 0 .. a
        /\ (a \div n) * n <= a /\ a < (a \div n + 1) * n
OBVIOUS

\* The remainder of an index and of a word.
LEMMA RemainderIs ==
    \A a \in Nat : \A n \in Nat \ {0} : a % n \in 0 .. n - 1 /\ (a < n => a % n = a)
OBVIOUS

\* The quotient of a sum lies between two of the numbers that it is of.
LEMMA AverageIsBetween ==
    ASSUME NEW s \in Seq(Nat), Len(s) > 0
    PROVE  LET r == SumOf(s) \div Len(s)
           IN  /\ \E i \in DOMAIN s : s[i] <= r
               /\ \E i \in DOMAIN s : r <= s[i]
<1> DEFINE r == SumOf(s) \div Len(s)
           n == Len(s)
<1>1. n \in Nat \ {0} /\ DOMAIN s = 1 .. n /\ \A i \in 1 .. n : s[i] \in Nat
  OBVIOUS
<1>2. SumOf(s) \in Nat
  BY TotalsExist, SumOfTotals
<1>3. r \in Nat /\ r * n <= SumOf(s) /\ SumOf(s) < (r + 1) * n
  <2>1. /\ r \in 0 .. SumOf(s)
        /\ r * n <= SumOf(s) /\ SumOf(s) < (r + 1) * n
    <3> HIDE DEF n
    <3> QED BY <1>1, <1>2, Quotient, Zenon DEF n
  <2> HIDE DEF r, n
  <2> QED BY <1>2, <2>1
<1> HIDE DEF r
<1>3a. r \in Nat
  BY <1>3
<1>4. \E i \in DOMAIN s : s[i] <= r
  <2> SUFFICES ASSUME \A i \in 1 .. n : r + 1 <= s[i] PROVE FALSE
    BY <1>1, <1>3
  <2>1. (r + 1) * n <= SumOf(s)
    <3>1. r + 1 \in Int
      BY <1>3
    <3> QED BY <3>1, SumBounds, Zenon
  <2>2. (r + 1) * n \in Nat
    BY <1>1, <1>3
  <2> QED BY <1>2, <1>3, <2>1, <2>2
<1>5. \E i \in DOMAIN s : r <= s[i]
  <2> SUFFICES ASSUME ~ \E i \in DOMAIN s : r <= s[i] PROVE FALSE
    OBVIOUS
  <2>3. ASSUME NEW i \in 1 .. n PROVE s[i] <= r - 1
    <3>1. s[i] \in Nat /\ ~ (r <= s[i])
      BY <1>1
    <3> QED BY ONLY <1>3a, <3>1, SMT
  <2>1. SumOf(s) <= (r - 1) * n
    <3>1. r - 1 \in Int
      BY <1>3
    <3> QED BY <2>3, <3>1, SumBounds, Zenon
  <2>2. (r - 1) * n = r * n - n /\ r * n \in Nat
    <3>1. \A a, b \in Nat : (a - 1) * b = a * b - b /\ a * b \in Nat
      OBVIOUS
    <3> HIDE DEF n
    <3> QED BY <1>1, <1>3, <3>1
  <2> QED BY <1>1, <1>2, <1>3, <2>1, <2>2
<1> QED BY <1>4, <1>5 DEF r

\* The rings start empty.
LEMMA AverageStart == AverageInit => AverageInv
<1> SUFFICES ASSUME AverageInit PROVE AverageInv
  OBVIOUS
<1>1. AverageTypeOK
  <2>1. 0 \in Sample /\ 0 \in BufIndex /\ 0 \in 0 .. AverageWord \cup Sample
    BY AverageAssumption DEF BufIndex, Sample
  <2>2. Len(<<>>) <= AVERAGING_SIZE
    BY AverageAssumption
  <2> QED BY <2>1, <2>2 DEF AverageInit, AverageTypeOK
<1>2. /\ samples = <<>> /\ Len(samples) = 0 /\ averageInitDone = FALSE /\ averageCount = 0
      /\ averaged.ReadFlags = "no_event"
  BY DEF AverageInit
<1>3. AverageIsOfTheLastSamples
  BY <1>2 DEF AverageIsOfTheLastSamples
<1> QED BY <1>1, <1>2, <1>3 DEF AverageInv

\* Samples are numbers.
LEMMA NumbersOf == ASSUME NEW S, S \subseteq Nat, NEW s \in Seq(S) PROVE s \in Seq(Nat)
<1>1. Len(s) \in Nat /\ s \in [1 .. Len(s) -> S]
  BY LenProperties
<1>2. s \in [1 .. Len(s) -> Nat]
  BY <1>1
<1> QED BY <1>1, <1>2

SamplesWith(s, v) ==
    IF Len(Append(s, v)) > AVERAGING_SIZE THEN Tail(Append(s, v)) ELSE Append(s, v)

\* The samples after one more, while the ring is not full.
LEMMA SamplesGrow ==
    ASSUME NEW s \in Seq(Sample), NEW v \in Sample, Len(s) < AVERAGING_SIZE
    PROVE  /\ SamplesWith(s, v) \in Seq(Sample)
           /\ Len(SamplesWith(s, v)) = Len(s) + 1
           /\ SamplesWith(s, v)[Len(s) + 1] = v
           /\ \A i \in 1 .. Len(s) : SamplesWith(s, v)[i] = s[i]
<1>1. AVERAGING_SIZE \in Nat /\ Len(s) \in Nat
  BY AverageAssumption
<1>2. Len(Append(s, v)) = Len(s) + 1
  OBVIOUS
<1>3. SamplesWith(s, v) = Append(s, v)
  BY <1>1, <1>2 DEF SamplesWith
<1> QED BY <1>3

\* Of a full ring the oldest sample is dropped.
LEMMA SamplesShift ==
    ASSUME NEW s \in Seq(Sample), NEW v \in Sample, Len(s) = AVERAGING_SIZE
    PROVE  /\ SamplesWith(s, v) \in Seq(Sample)
           /\ Len(SamplesWith(s, v)) = Len(s)
           /\ SamplesWith(s, v)[Len(s)] = v
           /\ \A i \in 1 .. Len(s) - 1 : SamplesWith(s, v)[i] = s[i + 1]
           /\ SumOf(SamplesWith(s, v)) + s[1] = SumOf(s) + v
<1> DEFINE all == Append(s, v)
           n == Len(s)
           t == SamplesWith(s, v)
<1>1. /\ all \in Seq(Sample) /\ Len(all) = n + 1 /\ n \in Nat
      /\ \A i \in 1 .. n : all[i] = s[i]
      /\ all[n + 1] = v
  OBVIOUS
<1>2. AVERAGING_SIZE \in Nat /\ AVERAGING_SIZE > 0 /\ Sample \subseteq Nat
  BY AverageAssumption DEF Sample
<1>3. t = Tail(all) /\ Len(all) > 0
  BY <1>1, <1>2 DEF SamplesWith
<1>4. /\ t \in Seq(Sample) /\ Len(t) = n
      /\ \A i \in 1 .. n : t[i] = all[i + 1]
  <2> HIDE DEF all, t
  <2> QED BY <1>1, <1>3
<1>5. t[n] = v /\ all[1] = s[1] /\ \A i \in 1 .. n - 1 : t[i] = s[i + 1]
  <2>1. n \in 1 .. n /\ 1 \in 1 .. n /\ \A i \in 1 .. n - 1 : i \in 1 .. n /\ i + 1 \in 1 .. n
    BY <1>1, <1>2
  <2> HIDE DEF all, n, t
  <2> QED BY <1>1, <1>4, <2>1
<1>6. SumOf(t) + all[1] = SumOf(all)
  <2>1. all \in Seq(Nat)
    BY <1>1, <1>2, NumbersOf
  <2> HIDE DEF all
  <2> QED BY <1>3, <2>1, SumTail
<1>7. SumOf(all) = SumOf(s) + v
  <2>1. s \in Seq(Nat) /\ v \in Nat
    BY <1>2, NumbersOf
  <2> QED BY <2>1, SumAppend
<1>8. SumOf(t) + s[1] = SumOf(s) + v
  BY <1>5, <1>6, <1>7, Zenon
<1> HIDE DEF all
<1> QED BY <1>4, <1>5, <1>8

\* The places of the buffer as a sequence of numbers, also after one was written.
LEMMA PlacesAre ==
    ASSUME NEW buf \in [BufIndex -> Sample], NEW k \in BufIndex, NEW v \in Sample
    PROVE  /\ Places(buf) \in Seq(Nat) /\ Len(Places(buf)) = AVERAGING_SIZE
           /\ k + 1 \in 1 .. AVERAGING_SIZE /\ Places(buf)[k + 1] = buf[k]
           /\ [buf EXCEPT ![k] = v] \in [BufIndex -> Sample]
           /\ Places([buf EXCEPT ![k] = v]) = [Places(buf) EXCEPT ![k + 1] = v]
<1>1. AVERAGING_SIZE \in Nat /\ AVERAGING_SIZE > 0
  BY AverageAssumption
<1>2. Sample \subseteq Nat
  BY DEF Sample
<1>3. \A i \in 1 .. AVERAGING_SIZE : i - 1 \in BufIndex
  BY <1>1 DEF BufIndex
<1>4. Places(buf) \in [1 .. AVERAGING_SIZE -> Nat]
  BY <1>2, <1>3 DEF Places
<1>5. Places(buf) \in Seq(Nat) /\ Len(Places(buf)) = AVERAGING_SIZE
  BY <1>1, <1>4
<1>6. k + 1 \in 1 .. AVERAGING_SIZE /\ (k + 1) - 1 = k
  BY <1>1 DEF BufIndex
<1>7. Places(buf)[k + 1] = buf[k]
  BY <1>6 DEF Places
<1>8. Places([buf EXCEPT ![k] = v]) = [Places(buf) EXCEPT ![k + 1] = v]
  <2>1. \A i \in 1 .. AVERAGING_SIZE : i - 1 = k <=> i = k + 1
    BY <1>1 DEF BufIndex
  <2> QED BY <1>3, <2>1 DEF Places
<1> QED BY <1>5, <1>6, <1>7, <1>8

\* The ring after one more sample, and the sum of its places.
LEMMA RingTurns ==
    ASSUME AverageInv, NEW s \in AveragedSensor, NEW v \in Sample, PDK_SensorAverage(s, v)
    PROVE  /\ averageBuf' \in [BufIndex -> Sample] /\ averageCount' \in BufIndex
           /\ samples' \in Seq(Sample) /\ Len(samples') <= AVERAGING_SIZE
           /\ averageInitDone' \in BOOLEAN
           /\ Len(samples') = IF averageInitDone' THEN AVERAGING_SIZE ELSE averageCount'
           /\ \A i \in 1 .. Len(samples') : samples'[i] = averageBuf'[PlaceOf(i)']
           /\ averageInitDone' => SumOf(samples') = SumOf(Places(averageBuf'))
<1> DEFINE N == AVERAGING_SIZE
           c == averageCount
           t == samples'
           buf == averageBuf'
<1>1. N \in Nat /\ N > 0 /\ c \in 0 .. N - 1 /\ c \in BufIndex
  BY AverageAssumption DEF AverageInv, AverageTypeOK, BufIndex
<1>2. c % N = c /\ (c + 1) % N = IF c = N - 1 THEN 0 ELSE c + 1
  <2>1. c \in Nat /\ N \in Nat \ {0} /\ c < N /\ c + 1 \in Nat
    BY <1>1
  <2>2. c % N = c
    BY <2>1, RemainderIs
  <2>3. N % N = 0
    BY <2>1
  <2>4. c # N - 1 => (c + 1) % N = c + 1
    <3> SUFFICES ASSUME c # N - 1 PROVE (c + 1) % N = c + 1
      OBVIOUS
    <3>1. c + 1 < N
      BY <1>1
    <3> QED BY <2>1, <3>1, RemainderIs
  <2>5. c = N - 1 => c + 1 = N
    BY <1>1
  <2> QED BY <2>2, <2>3, <2>4, <2>5
<1>3. /\ averageInitDone' = (averageInitDone \/ c = N - 1)
      /\ buf = [averageBuf EXCEPT ![c] = v]
      /\ averageCount' = IF c = N - 1 THEN 0 ELSE c + 1
      /\ t = SamplesWith(samples, v)
  BY <1>2, Zenon DEF PDK_SensorAverage, DoneAfter, SamplesWith
<1>3a. averageCount' = IF c = N - 1 THEN 0 ELSE c + 1
  BY <1>3
<1>4. /\ averageBuf \in [BufIndex -> Sample] /\ samples \in Seq(Sample)
      /\ averageInitDone \in BOOLEAN
      /\ Len(samples) = IF averageInitDone THEN N ELSE c
      /\ \A i \in 1 .. Len(samples) : samples[i] = averageBuf[PlaceOf(i)]
  BY DEF AverageInv, AverageTypeOK
<1>5a. ASSUME Len(samples) < N
       PROVE  /\ t \in Seq(Sample) /\ Len(t) = Len(samples) + 1 /\ t[Len(samples) + 1] = v
              /\ \A i \in 1 .. Len(samples) : t[i] = samples[i]
  BY <1>3, <1>4, <1>5a, SamplesGrow, Zenon
<1>5. ASSUME Len(samples) = N
      PROVE  /\ t \in Seq(Sample) /\ Len(t) = N
             /\ t[N] = v
             /\ \A i \in 1 .. N - 1 : t[i] = samples[i + 1]
             /\ SumOf(t) + samples[1] = SumOf(samples) + v
  BY <1>3, <1>4, <1>5, SamplesShift, Zenon
<1>6. /\ Places(averageBuf) \in Seq(Nat) /\ Len(Places(averageBuf)) = N
      /\ c + 1 \in 1 .. N /\ Places(averageBuf)[c + 1] = averageBuf[c]
      /\ buf \in [BufIndex -> Sample]
      /\ Places(buf) = [Places(averageBuf) EXCEPT ![c + 1] = v]
  BY <1>1, <1>3, <1>4, PlacesAre
<1>7. averageCount' \in BufIndex /\ averageInitDone' \in BOOLEAN
  BY <1>1, <1>3, <1>4 DEF BufIndex
<1>8. /\ buf[c] = v
      /\ \A k \in BufIndex \ {c} : buf[k] = averageBuf[k]
  BY <1>1, <1>3, <1>4
<1>9. CASE averageInitDone
  <2>1. /\ Len(samples) = N /\ averageInitDone'
        /\ t \in Seq(Sample) /\ Len(t) = N
    BY <1>3, <1>4, <1>5, <1>9
  <2>2. ASSUME NEW i \in 1 .. N
        PROVE  t[i] = buf[PlaceOf(i)']
    <3>1. PlaceOf(i)' = IF averageCount' + i - 1 < N THEN averageCount' + i - 1
                        ELSE averageCount' + i - 1 - N
      BY <1>1, <2>1 DEF PlaceOf
    <3>2. CASE i = N
      <4>1. PlaceOf(i)' = c
        BY <1>1, <1>3, <3>1, <3>2
      <4> QED BY <1>5, <1>8, <2>1, <3>2, <4>1
    <3>3. CASE i # N
      <4>1. i \in 1 .. N - 1 /\ i + 1 \in 1 .. N
        BY <1>1, <3>3
      <4>2. PlaceOf(i + 1) = IF c + (i + 1) - 1 < N THEN c + (i + 1) - 1
                             ELSE c + (i + 1) - 1 - N
        BY <1>1, <2>1 DEF PlaceOf
      <4>3. PlaceOf(i)' = PlaceOf(i + 1) /\ PlaceOf(i + 1) \in BufIndex \ {c}
        BY <1>1, <1>3, <3>1, <4>1, <4>2 DEF BufIndex
      <4>4. t[i] = samples[i + 1] /\ samples[i + 1] = averageBuf[PlaceOf(i + 1)]
        BY <1>4, <1>5, <2>1, <4>1
      <4> QED BY <1>8, <4>3, <4>4
    <3> QED BY <3>2, <3>3
  <2>3. SumOf(t) = SumOf(Places(buf))
    <3>1. samples[1] = averageBuf[c]
      <4>1. 1 \in 1 .. Len(samples) /\ PlaceOf(1) = c
        BY <1>1, <2>1 DEF PlaceOf
      <4> QED BY <1>4, <4>1
    <3>2. SumOf(Places(buf)) + averageBuf[c] = SumOf(Places(averageBuf)) + v
      <4>1. v \in Nat
        BY DEF Sample
      <4> QED BY <1>6, <4>1, SumUpdate
    <3>3. SumOf(t) + samples[1] = SumOf(samples) + v
      BY <1>5, <2>1
    <3>4. SumOf(samples) = SumOf(Places(averageBuf))
      BY <1>9 DEF AverageInv
    <3>5. SumOf(t) \in Nat /\ SumOf(Places(buf)) \in Nat /\ averageBuf[c] \in Nat
      <4>1. Sample \subseteq Nat
        BY DEF Sample
      <4>2. t \in Seq(Nat) /\ Places(buf) \in Seq(Nat)
        BY <1>1, <1>6, <2>1, <4>1, NumbersOf, PlacesAre
      <4> QED BY <1>1, <1>4, <4>1, <4>2, TotalsExist, SumOfTotals
    <3>6. SumOf(t) + averageBuf[c] = SumOf(Places(buf)) + averageBuf[c]
      BY <3>1, <3>2, <3>3, <3>4, Zenon
    <3> QED BY ONLY <3>5, <3>6, SMT
  <2> QED BY <1>1, <1>6, <1>7, <2>1, <2>2, <2>3
<1>10. CASE ~ averageInitDone
  <2>1. /\ Len(samples) = c /\ c < N
        /\ t \in Seq(Sample) /\ Len(t) = c + 1 /\ t[c + 1] = v
        /\ \A i \in 1 .. c : t[i] = samples[i] /\ samples[i] = averageBuf[PlaceOf(i)]
    BY <1>1, <1>4, <1>5a, <1>10
  <2>2. ASSUME NEW i \in 1 .. c + 1
        PROVE  t[i] = buf[i - 1]
    <3>1. CASE i = c + 1
      BY <1>1, <1>8, <2>1, <3>1
    <3>2. CASE i # c + 1
      <4>1. i \in 1 .. c /\ i - 1 \in BufIndex \ {c}
        BY <1>1, <3>2 DEF BufIndex
      <4>2. PlaceOf(i) = i - 1
        BY <2>1 DEF PlaceOf
      <4> QED BY <1>8, <2>1, <4>1, <4>2
    <3> QED BY <3>1, <3>2
  <2>3. CASE c = N - 1
    <3>0. averageInitDone'
      BY <1>3, <2>3, Zenon
    <3>1. averageInitDone' /\ averageCount' = 0 /\ Len(t) = N
      BY <1>1, <1>3a, <2>1, <2>3, <3>0
    <3>2. \A i \in 1 .. N : PlaceOf(i)' = i - 1
      BY <1>1, <3>1 DEF PlaceOf
    <3>3. \A i \in 1 .. N : t[i] = buf[i - 1]
      BY <1>1, <2>2, <2>3
    <3>4. t = Places(buf)
      <4>1. t = [i \in 1 .. N |-> t[i]]
        BY <2>1, <3>1
      <4> QED BY <3>3, <4>1 DEF Places
    <3> QED BY <1>1, <1>6, <1>7, <2>1, <3>1, <3>2, <3>3, <3>4
  <2>4. CASE c # N - 1
    <3>0. ~ averageInitDone'
      BY <1>3, <1>10, <2>4, Zenon
    <3>1. ~ averageInitDone' /\ averageCount' = c + 1 /\ Len(t) = c + 1 /\ c + 1 <= N
      BY <1>1, <1>3a, <2>1, <2>4, <3>0
    <3>2. \A i \in 1 .. c + 1 : PlaceOf(i)' = i - 1
      <4>1. Len(t) < N
        BY <1>1, <2>4, <3>1
      <4> QED BY <4>1 DEF PlaceOf
    <3> QED BY <1>6, <1>7, <2>1, <2>2, <3>1, <3>2
  <2> QED BY <2>3, <2>4
<1> QED BY <1>4, <1>9, <1>10

\* Every call of the hook keeps the invariant.
LEMMA AverageStep ==
    ASSUME AverageInv, [AverageNext]_averageVars
    PROVE  AverageInv'
<1>0. AVERAGING_SIZE \in Nat \ {0} /\ AverageWord \in Nat \ {0} /\ Sample \subseteq Nat
  BY AverageAssumption DEF Sample
<1>1. CASE UNCHANGED averageVars
  BY <1>1
  DEF averageVars, AverageInv, AverageTypeOK, AverageIsOfTheLastSamples, PlaceOf
<1>2. ASSUME NEW v \in Sample, AverageUnknownSensor(v)
      PROVE  AverageInv'
  <2>1. /\ averageBuf' = averageBuf /\ averageCount' = averageCount
        /\ averageInitDone' = averageInitDone /\ updateInProgress' = updateInProgress
        /\ samples' = samples /\ averaged' = [Reading |-> v, ReadFlags |-> "as_it_came"]
    BY <1>2 DEF AverageUnknownSensor
  <2>2. AverageTypeOK'
    BY <2>1 DEF AverageInv, AverageTypeOK
  <2>3. AverageIsOfTheLastSamples'
    BY <2>1 DEF AverageIsOfTheLastSamples
  <2> QED BY <2>1, <2>2, <2>3 DEF AverageInv, PlaceOf
<1>3. ASSUME NEW s \in AveragedSensor, NEW v \in Sample, PDK_SensorAverage(s, v)
      PROVE  AverageInv'
  <2> DEFINE sum == SumOf(Places(averageBuf'))
             full == averageInitDone'
  <2>1. /\ averageBuf' \in [BufIndex -> Sample] /\ averageCount' \in BufIndex
        /\ samples' \in Seq(Sample) /\ Len(samples') <= AVERAGING_SIZE
        /\ averageInitDone' \in BOOLEAN
        /\ Len(samples') = IF full THEN AVERAGING_SIZE ELSE averageCount'
        /\ \A i \in 1 .. Len(samples') : samples'[i] = averageBuf'[PlaceOf(i)']
        /\ full => SumOf(samples') = sum
    BY <1>3, RingTurns, Zenon
  <2>2. averaged' = IF full
                    THEN [Reading |-> (sum % AverageWord) \div AVERAGING_SIZE,
                          ReadFlags |-> "valid"]
                    ELSE [Reading |-> 0, ReadFlags |-> "no_event"]
    <3> DEFINE index == averageCount % AVERAGING_SIZE
               buf == [averageBuf EXCEPT ![index] = v]
    <3>1. /\ averageBuf' = buf /\ averageInitDone' = DoneAfter(index)
          /\ averaged' = IF DoneAfter(index)
                         THEN [Reading |-> AverageVal(buf) \div AVERAGING_SIZE,
                               ReadFlags |-> "valid"]
                         ELSE [Reading |-> 0, ReadFlags |-> "no_event"]
      BY <1>3, Zenon DEF PDK_SensorAverage
    <3>2. AverageVal(buf) = sum % AverageWord
      <4>1. averageBuf' = buf
        BY <3>1
      <4> HIDE DEF buf
      <4>2. AverageVal(buf) = SumOf(Places(buf)) % AverageWord
        BY Zenon DEF AverageVal, Places
      <4> QED BY <4>1, <4>2, Zenon
    <3> HIDE DEF index, buf, sum
    <3> QED BY <3>1, <3>2, Zenon
  <2>3. updateInProgress' \subseteq AveragedSensor
    <3>1. updateInProgress \subseteq AveragedSensor
      BY DEF AverageInv, AverageTypeOK
    <3>2. updateInProgress' \in {updateInProgress \ {s}, updateInProgress \cup {s}}
      BY <1>3, Zenon DEF PDK_SensorAverage
    <3> QED BY <3>1, <3>2
  <2>4. sum \in Nat
    <3>1. Places(averageBuf') \in Seq(Nat)
      <4>1. 0 \in BufIndex /\ 0 \in Sample
        BY AverageAssumption DEF BufIndex, Sample
      <4> QED BY <2>1, <4>1, PlacesAre
    <3> QED BY <3>1, TotalsExist, SumOfTotals
  <2>5. sum % AverageWord \in 0 .. AverageWord - 1
    <3> HIDE DEF sum
    <3> QED BY <1>0, <2>4, RemainderIs, Zenon
  <2>6. (sum % AverageWord) \div AVERAGING_SIZE \in 0 .. AverageWord
    <3> DEFINE w == sum % AverageWord
    <3> HIDE DEF w
    <3>1. w \in Nat /\ w <= AverageWord
      BY <1>0, <2>5 DEF w
    <3>2. w \div AVERAGING_SIZE \in 0 .. w
      BY <1>0, <3>1, Quotient, Zenon
    <3>3. w \div AVERAGING_SIZE \in 0 .. AverageWord
      <4> DEFINE q == w \div AVERAGING_SIZE
      <4>1. q \in 0 .. w
        BY <3>2
      <4> HIDE DEF q
      <4>2. q \in 0 .. AverageWord
        BY <1>0, <3>1, <4>1
      <4> QED BY <4>2 DEF q
    <3> QED BY <3>3 DEF w
  <2>7. averaged' \in [Reading : 0 .. AverageWord \cup Sample,
                       ReadFlags : {"no_event", "valid", "as_it_came"}]
    <3>1. 0 \in 0 .. AverageWord
      BY <1>0
    <3> HIDE DEF sum
    <3> DEFINE r == (sum % AverageWord) \div AVERAGING_SIZE
    <3>2. r \in 0 .. AverageWord
      BY <2>6
    <3> HIDE DEF r
    <3>3. \/ averaged' = [Reading |-> r, ReadFlags |-> "valid"]
          \/ averaged' = [Reading |-> 0, ReadFlags |-> "no_event"]
      BY <2>2, Zenon DEF r
    <3> QED BY <3>1, <3>2, <3>3
  <2>8. AverageTypeOK'
    BY <2>1, <2>3, <2>7 DEF AverageTypeOK
  <2>9. AverageIsOfTheLastSamples'
    <3> SUFFICES ASSUME averaged'.ReadFlags = "valid"
                 PROVE  /\ Len(samples') = AVERAGING_SIZE
                        /\ SumOf(samples') < AverageWord =>
                              /\ \E i \in DOMAIN samples' : samples'[i] <= averaged'.Reading
                              /\ \E i \in DOMAIN samples' : averaged'.Reading <= samples'[i]
      BY Zenon DEF AverageIsOfTheLastSamples
    <3>1. full
      <4> SUFFICES ASSUME ~ full PROVE FALSE
        OBVIOUS
      <4>1. averaged' = [Reading |-> 0, ReadFlags |-> "no_event"]
        BY <2>2, Zenon
      <4> QED BY <4>1
    <3>2. Len(samples') = AVERAGING_SIZE /\ SumOf(samples') = sum
      BY <2>1, <3>1, Zenon
    <3>3. ASSUME sum < AverageWord
          PROVE  averaged'.Reading = sum \div Len(samples')
      <4>1. sum % AverageWord = sum
        <5> HIDE DEF sum
        <5> QED BY <1>0, <2>4, <3>3, RemainderIs, Zenon
      <4>2. averaged' = [Reading |-> (sum % AverageWord) \div AVERAGING_SIZE,
                         ReadFlags |-> "valid"]
        BY <2>2, <3>1, Zenon
      <4>3. averaged'.Reading = (sum % AverageWord) \div AVERAGING_SIZE
        BY <4>2, Zenon
      <4> QED BY <3>2, <4>1, <4>3, Zenon
    <3>4. samples' \in Seq(Nat) /\ Len(samples') > 0
      <4>1. samples' \in Seq(Sample)
        BY <2>1
      <4>2. Len(samples') > 0
        BY <1>0, <3>2
      <4> QED BY <1>0, <4>1, <4>2, NumbersOf, Zenon
    <3>5. LET r == SumOf(samples') \div Len(samples')
          IN  /\ \E i \in DOMAIN samples' : samples'[i] <= r
              /\ \E i \in DOMAIN samples' : r <= samples'[i]
      BY <3>4, AverageIsBetween
    <3> QED BY <3>2, <3>3, <3>5, Zenon
  <2> QED BY <2>1, <2>8, <2>9, Zenon DEF AverageInv
<1> QED BY <1>1, <1>2, <1>3 DEF AverageNext

\* The hook keeps the ring and its sum.
LEMMA AverageInvariant == AverageSpec => []AverageInv
<1>1. AverageInv /\ [AverageNext]_averageVars => AverageInv'
  BY AverageStep
<1> QED BY AverageStart, <1>1, PTL DEF AverageSpec

\* PDK_SensorAverage: an average that is given out is that of the last
\* AVERAGING_SIZE samples and lies between the smallest and the largest of them,
\* whatever the size of the ring, as long as their sum fits its word.
THEOREM AverageIsOfLast == AverageSpec => []AverageIsOfTheLastSamples
<1>1. AverageInv => AverageIsOfTheLastSamples
  BY DEF AverageInv
<1> QED BY <1>1, AverageInvariant, PTL

-----------------------------------------------------------------------------
(* The composition.  A step of the board is a step of one component and    *)
(* leaves the variables of the others alone, so that a behaviour of the    *)
(* board is, seen through the variables of a component, one of its own.    *)

\* What a step of the board is to each component: its own step, or none.
LEMMA StepOfEach ==
    [BoardNext]_boardVars =>
        /\ [SerialNext]_serialVars /\ [LedNext]_ledVars
        /\ [FanSensorNext]_sensorVars /\ [AverageNext]_averageVars
        /\ [IntNext]_intVars /\ [MailNext]_mailVars
        /\ [RecordNext]_recordVars /\ [FruNext]_fruVars
        /\ [CalNext]_calVars /\ [SnoopNext]_snoopVars
<1> SUFFICES ASSUME [BoardNext]_boardVars
             PROVE  /\ [SerialNext]_serialVars /\ [LedNext]_ledVars
                    /\ [FanSensorNext]_sensorVars /\ [AverageNext]_averageVars
                    /\ [IntNext]_intVars /\ [MailNext]_mailVars
                    /\ [RecordNext]_recordVars /\ [FruNext]_fruVars
                    /\ [CalNext]_calVars /\ [SnoopNext]_snoopVars
  OBVIOUS
<1>1. CASE Moves("serial") /\ SerialNext
  BY <1>1 DEF Moves
<1>2. CASE Moves("leds") /\ LedNext
  BY <1>2 DEF Moves
<1>3. CASE Moves("fan_sensors") /\ FanSensorNext
  BY <1>3 DEF Moves
<1>4. CASE Moves("average") /\ AverageNext
  BY <1>4 DEF Moves
<1>5. CASE Moves("interrupts") /\ IntNext
  BY <1>5 DEF Moves
<1>6. CASE Moves("mail") /\ MailNext
  BY <1>6 DEF Moves
<1>7. CASE Moves("records") /\ RecordNext
  BY <1>7 DEF Moves
<1>8. CASE Moves("fru") /\ FruNext
  BY <1>8 DEF Moves
<1>9. CASE Moves("calibration") /\ CalNext
  BY <1>9 DEF Moves
<1>10. CASE Moves("post_codes") /\ SnoopNext
  BY <1>10 DEF Moves
<1>11. CASE UNCHANGED boardVars
  BY <1>11 DEF boardVars
<1> QED BY <1>1, <1>2, <1>3, <1>4, <1>5, <1>6, <1>7, <1>8, <1>9, <1>10, <1>11
        DEF BoardNext

\* The board implements the specification of each of its components: whatever is
\* proved about one alone holds of the board.
THEOREM BoardImplements ==
    BoardSpec => /\ SerialSpec /\ LedSpec /\ FanSensorSpec /\ AverageSpec /\ IntSpec
                 /\ MailSpec /\ RecordSpec /\ FruSpec /\ CalSpec /\ SnoopSpec
<1>1. BoardInit => /\ SerialInit /\ LedInit /\ FanSensorInit /\ AverageInit /\ IntInit
                   /\ MailInit /\ RecordInit /\ FruInit /\ CalInit /\ SnoopInit
  BY DEF BoardInit
<1> QED BY <1>1, StepOfEach, PTL
        DEF BoardSpec, SerialSpec, LedSpec, FanSensorSpec, AverageSpec, IntSpec,
            MailSpec, RecordSpec, FruSpec, CalSpec, SnoopSpec

\* Every component keeps its types, for all tables, widths and bounds at once.
THEOREM BoardTypesOK == BoardSpec => []BoardTypeOK
<1>1. BoardSpec => [](part \in Parts)
  <2>1. BoardInit => part \in Parts
    BY DEF BoardInit
  <2>2. part \in Parts /\ [BoardNext]_boardVars => (part \in Parts)'
    <3>1. [BoardNext]_boardVars => part' = part
      BY DEF BoardNext, Moves, boardVars
    <3> QED BY <3>1 DEF Parts
  <2> QED BY <2>1, <2>2, PTL DEF BoardSpec
<1>2. FanSensorInv => FanSensorTypeOK
  BY DEF FanSensorInv
<1>3. AverageInv => AverageTypeOK
  BY DEF AverageInv
<1>4. MailInv => MailTypeOK
  BY DEF MailInv
<1>5. CalInv => CalTypeOK
  BY DEF CalInv
<1>6. SnoopInv => SnoopTypeOK
  BY DEF SnoopInv, SnoopRange
<1>7. /\ part \in Parts
      /\ SerialTypeOK /\ LedTypeOK /\ FanSensorTypeOK /\ AverageTypeOK /\ IntTypeOK
      /\ MailTypeOK /\ RecordTypeOK /\ FruTypeOK /\ CalTypeOK /\ SnoopTypeOK
      => BoardTypeOK
  BY DEF BoardTypeOK
<1> QED BY <1>1, <1>2, <1>3, <1>4, <1>5, <1>6, <1>7, BoardImplements, SerialTyped,
           LedTyped, FanSensorInvariant, AverageInvariant, IntTyped, MailInvariant,
           RecordTyped, FruTypeCorrect, CalInvariant, SnoopInvariant, PTL

\* All that is promised of the components holds of the board, for all values of
\* the constants.
THEOREM BoardKeepsPromises ==
    BoardSpec =>
        /\ [](/\ RoutesFollowDirection /\ SetIsReadBack /\ CountedReadingIsReal
              /\ AverageIsOfTheLastSamples /\ InterruptsReachTheirHandler
              /\ MailGoesToItsUser /\ NoConnectionIsExplained /\ AreasInOrder
              /\ InterpolationIsBetweenPoints /\ CodesAreOfThisBoot /\ WriteKeepsPlaces
              /\ NormalMeansAll /\ ReadIsInOrder /\ OverrunNeedsLargeFru)
        /\ SolOutlivesTheHost
BY BoardImplements, RoutesAreRemembered, SetsAreReadBack, CountedFansAreReal,
   AverageIsOfLast, InterruptsAreHandled, MailsReachTheirUser, NoConnectionMeans,
   AreasKeepOrder, InterpolationStaysBetween, CodesAreCurrent,
   WritesKeepPlaces, SuccessIsComplete, ReadsAreInOrder,
   OverrunsNeedLargeFrus, SolStaysOn, PTL
=============================================================================
