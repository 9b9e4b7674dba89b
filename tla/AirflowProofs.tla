---------------------------- MODULE AirflowProofs ----------------------------
(***************************************************************************)
(* Theorems about the airflow direction (Airflow), for every number of     *)
(* slots and every majority of them.                                       *)
(***************************************************************************)
EXTENDS Airflow, FiniteSetTheorems, TLAPS

-----------------------------------------------------------------------------
(* Counting trays.                                                         *)

\* The fans, and any set of them, can be counted.
LEMMA FansAreFinite ==
    /\ IsFiniteSet(Fan) /\ Cardinality(Fan) = NumFans
    /\ \A S \in SUBSET Fan : IsFiniteSet(S) /\ Cardinality(S) \in Nat
<1>1. IsFiniteSet(Fan) /\ Cardinality(Fan) = NumFans
  <2>1. NumFans \in Int /\ 1 \in Int /\ NumFans >= 1
    BY NumFansAssumption
  <2> QED BY <2>1, FS_Interval DEF Fan
<1> QED BY <1>1, FS_Subset, FS_CardinalityType, Zenon

\* A part of a set of fans has no more members than the set.
LEMMA CountSubset ==
    ASSUME NEW S \in SUBSET Fan, NEW T \in SUBSET Fan, S \subseteq T
    PROVE  /\ Cardinality(S) \in Nat /\ Cardinality(T) \in Nat
           /\ Cardinality(S) <= Cardinality(T)
BY FansAreFinite, FS_Subset

\* Two majorities would need more trays than there are.
LEMMA OneMajority ==
    ASSUME NEW S \in SUBSET Fan, NEW T \in SUBSET Fan, S \cap T = {},
           Cardinality(S) >= Majority
    PROVE  ~ (Cardinality(T) >= Majority)
<1>1. /\ IsFiniteSet(S) /\ IsFiniteSet(T)
      /\ Cardinality(S) \in Nat /\ Cardinality(T) \in Nat
  BY FansAreFinite
<1>2. Cardinality(S \cup T) = Cardinality(S) + Cardinality(T) - Cardinality(S \cap T)
  BY <1>1, FS_Union
<1>3. Cardinality(S \cap T) = 0
  BY FS_EmptySet
<1>4. S \cup T \in SUBSET Fan
  OBVIOUS
<1>5. Cardinality(S \cup T) <= NumFans
  BY <1>4, CountSubset, FansAreFinite
<1> QED BY <1>1, <1>2, <1>3, <1>5, MajorityAssumption, NumFansAssumption

\* A direction is decided exactly when a majority of the cache says so.
LEMMA DecisionIsMajority ==
    ASSUME NEW cache \in [Fan -> AirflowValue], NEW d \in Direction
    PROVE  Decision(cache) = d <=> Count(cache, d) >= Majority
<1> DEFINE S(e) == {f \in Fan : cache[f] = e}
<1>1. /\ S("F2B") \in SUBSET Fan /\ S("B2F") \in SUBSET Fan
      /\ S("F2B") \cap S("B2F") = {}
  OBVIOUS
<1>2. Count(cache, "F2B") = Cardinality(S("F2B")) /\ Count(cache, "B2F") = Cardinality(S("B2F"))
  BY DEF Count
<1> HIDE DEF S
<1>3. Count(cache, "F2B") >= Majority => ~ (Count(cache, "B2F") >= Majority)
  BY <1>1, <1>2, OneMajority
<1> QED BY <1>3 DEF Decision, Direction

-----------------------------------------------------------------------------
(* The inductive invariant: what has been read in this round, or in the    *)
(* last one between rounds, and was not disturbed is what the tray says,   *)
(* and between rounds the decision is the one of the cache.                *)

Visited(f) == scanFan = 1 \/ f < scanFan
CacheIsRight ==
    \A f \in Fan \ disturbed : Visited(f) => fanAirflow[f] = TrayAirflow(f)
AirflowInv ==
    /\ AirflowTypeOK
    /\ CacheIsRight
    /\ scanFan = 1 => systemAirflow = Decision(fanAirflow)

\* What a tray reports is one of the direction values.
LEMMA TrayAirflowType ==
    ASSUME NEW f
    PROVE  TrayAirflow(f) \in AirflowValue
BY DEF TrayAirflow, AirflowValue

\* The vote over the cached directions ends in a direction value.
LEMMA DecisionType ==
    ASSUME NEW cache
    PROVE  Decision(cache) \in AirflowValue
BY DEF Decision, AirflowValue, Direction

\* The invariant holds when the board starts with nothing decided.
LEMMA InitAirflow == AirflowInit => AirflowInv
<1> SUFFICES ASSUME AirflowInit PROVE AirflowInv
  OBVIOUS
<1>1. PICK failed \in SUBSET Fan :
        /\ fanAirflow = [f \in Fan |-> IF f \in failed THEN "UNKNOWN" ELSE TrayAirflow(f)]
        /\ disturbed = failed
  BY DEF AirflowInit
<1>2. systemAirflow = Decision(fanAirflow) /\ scanFan = 1
  BY DEF AirflowInit
<1>3. TraysTypeOK
  <2>1. fan \in 1 .. NumFans + 1
    BY NumFansAssumption DEF AirflowInit, TraysInit
  <2>2. tray \in [Fan -> TrayKind] /\ pwmReg \in [Fan -> 0 .. 255]
    BY PowerOnAssumption DEF AirflowInit, TraysInit
  <2>3. halLoaded \in BOOLEAN /\ missed \subseteq Fan /\ dropped \subseteq Fan
    BY Zenon DEF AirflowInit, TraysInit
  <2> QED BY <2>1, <2>2, <2>3 DEF TraysTypeOK
<1>4. fanAirflow \in [Fan -> AirflowValue]
  BY <1>1, TrayAirflowType DEF AirflowValue
<1>5. scanFan \in 1 .. NumFans + 1 /\ systemAirflow \in AirflowValue
  BY <1>2, DecisionType, NumFansAssumption
<1>6. CacheIsRight
  BY <1>1 DEF CacheIsRight
<1> QED BY <1>1, <1>2, <1>3, <1>4, <1>5, <1>6 DEF AirflowInv, AirflowTypeOK

\* A pass of OEM_UpdateFansAirflow keeps it: the slot is right, or disturbed.
LEMMA UpdateKeeps ==
    ASSUME NEW readable \in BOOLEAN, AirflowInv, UpdateFanAirflow(readable)
    PROVE  AirflowInv'
<1> DEFINE before == IF scanFan = 1 THEN {} ELSE disturbed
           seen == IF readable THEN TrayAirflow(scanFan) ELSE "UNKNOWN"
<1>1. /\ AirflowTypeOK /\ CacheIsRight /\ scanFan \in Nat
      /\ scanFan >= 1 /\ scanFan <= NumFans /\ scanFan \in Fan
  BY NumFansAssumption DEF AirflowInv, AirflowTypeOK, UpdateFanAirflow, Fan
<1>2. /\ fanAirflow' = [fanAirflow EXCEPT ![scanFan] = seen]
      /\ disturbed' = IF readable THEN before ELSE before \cup {scanFan}
      /\ scanFan' = scanFan + 1
      /\ UNCHANGED <<systemAirflow, tray, pwmReg, fan, halLoaded, missed, dropped>>
  BY DEF UpdateFanAirflow, trayVars
<1>3. /\ fanAirflow \in [Fan -> AirflowValue] /\ disturbed \subseteq Fan
      /\ TraysTypeOK /\ systemAirflow \in AirflowValue
  BY <1>1 DEF AirflowTypeOK
<1>4. AirflowTypeOK'
  <2>1. seen \in AirflowValue
    BY TrayAirflowType DEF AirflowValue
  <2> HIDE DEF seen
  <2>2. fanAirflow' \in [Fan -> AirflowValue]
    BY <1>2, <1>3, <2>1
  <2>3. disturbed' \subseteq Fan
    BY <1>1, <1>2, <1>3
  <2>4. scanFan' \in 1 .. NumFans + 1
    BY <1>1, <1>2, NumFansAssumption
  <2>5. TraysTypeOK'
    BY <1>2, <1>3 DEF TraysTypeOK
  <2> QED BY <1>2, <1>3, <2>2, <2>3, <2>4, <2>5 DEF AirflowTypeOK
<1>5. CacheIsRight'
  <2> SUFFICES ASSUME NEW f \in Fan, f \notin disturbed', Visited(f)'
               PROVE  fanAirflow'[f] = TrayAirflow(f)'
    BY DEF CacheIsRight
  <2>1. TrayAirflow(f)' = TrayAirflow(f)
    BY <1>2 DEF TrayAirflow
  <2>2. f \in Nat /\ f >= 1
    BY NumFansAssumption DEF Fan
  <2>3. f < scanFan + 1
    BY <1>1, <1>2 DEF Visited
  <2>4. CASE f = scanFan
    <3>1. readable
      BY <1>2, <2>4
    <3> QED BY <1>2, <1>3, <2>1, <2>4, <3>1
  <2>5. CASE f # scanFan
    <3>1. f < scanFan /\ scanFan # 1
      BY <1>1, <2>2, <2>3, <2>5
    <3>2. f \notin disturbed
      BY <1>2, <3>1
    <3>3. fanAirflow[f] = TrayAirflow(f)
      BY <1>1, <3>1, <3>2 DEF CacheIsRight, Visited
    <3> QED BY <1>2, <1>3, <2>1, <2>5, <3>3
  <2> QED BY <2>4, <2>5
<1>6. scanFan' # 1
  BY <1>1, <1>2
<1> QED BY <1>4, <1>5, <1>6 DEF AirflowInv

\* OEM_UpdateSystemAirflow keeps it: its decision is the vote of this cache.
LEMMA DecideKeeps ==
    ASSUME AirflowInv, OEM_UpdateSystemAirflow
    PROVE  AirflowInv'
<1>1. /\ AirflowTypeOK /\ CacheIsRight
      /\ scanFan > NumFans /\ scanFan \in Nat
      /\ systemAirflow' = Decision(fanAirflow) /\ scanFan' = 1
      /\ UNCHANGED <<fanAirflow, disturbed, tray, pwmReg, fan, halLoaded, missed, dropped>>
  BY NumFansAssumption DEF AirflowInv, AirflowTypeOK, OEM_UpdateSystemAirflow, trayVars
<1>2. \A f \in Fan : Visited(f)
  BY <1>1, NumFansAssumption DEF Visited, Fan
<1>3. AirflowTypeOK'
  <2>1. scanFan' \in 1 .. NumFans + 1
    BY <1>1, NumFansAssumption
  <2> QED BY <1>1, <2>1, DecisionType DEF AirflowTypeOK, TraysTypeOK
<1>4. CacheIsRight'
  BY <1>1, <1>2 DEF CacheIsRight, TrayAirflow
<1>5. systemAirflow' = Decision(fanAirflow)'
  BY <1>1 DEF Decision, Count
<1> QED BY <1>3, <1>4, <1>5 DEF AirflowInv

\* A tray that is exchanged is disturbed from then on.
LEMMA SwapKeeps ==
    ASSUME NEW f \in Fan, NEW kind \in TrayKind, AirflowInv, Swap(f, kind)
    PROVE  AirflowInv'
<1>1. /\ AirflowTypeOK /\ CacheIsRight
      /\ scanFan = 1 => systemAirflow = Decision(fanAirflow)
  BY DEF AirflowInv
<1>2. /\ tray' = [tray EXCEPT ![f] = kind] /\ disturbed' = disturbed \cup {f}
      /\ UNCHANGED <<fanAirflow, systemAirflow, scanFan, pwmReg, fan, halLoaded, missed, dropped>>
  BY DEF Swap, SwapTray
<1>3. AirflowTypeOK'
  BY <1>1, <1>2 DEF AirflowTypeOK, TraysTypeOK
<1>4. CacheIsRight'
  <2> SUFFICES ASSUME NEW g \in Fan, g \notin disturbed', Visited(g)'
               PROVE  fanAirflow'[g] = TrayAirflow(g)'
    BY DEF CacheIsRight
  <2>1. g # f /\ g \notin disturbed /\ Visited(g)
    BY <1>2 DEF Visited
  <2>2. TrayAirflow(g)' = TrayAirflow(g)
    BY <1>1, <1>2, <2>1 DEF TrayAirflow, AirflowTypeOK, TraysTypeOK
  <2> QED BY <1>1, <1>2, <2>1, <2>2 DEF CacheIsRight
<1>5. scanFan' = 1 => systemAirflow' = Decision(fanAirflow)'
  BY <1>1, <1>2 DEF Decision, Count
<1> QED BY <1>3, <1>4, <1>5 DEF AirflowInv

\* Every step keeps the invariant.
LEMMA NextAirflow ==
    AirflowInv /\ [AirflowNext]_<<trayVars, airflowVars>> => AirflowInv'
<1> SUFFICES ASSUME AirflowInv, [AirflowNext]_<<trayVars, airflowVars>>
             PROVE  AirflowInv'
  OBVIOUS
<1>1. ASSUME NEW readable \in BOOLEAN, UpdateFanAirflow(readable)
      PROVE  AirflowInv'
  BY <1>1, UpdateKeeps
<1>2. CASE OEM_UpdateSystemAirflow
  BY <1>2, DecideKeeps
<1>3. ASSUME NEW f \in Fan, NEW kind \in TrayKind, Swap(f, kind)
      PROVE  AirflowInv'
  BY <1>3, SwapKeeps
<1>4. CASE UNCHANGED <<trayVars, airflowVars>>
  <2>1. UNCHANGED <<tray, pwmReg, fan, halLoaded, missed, dropped, fanAirflow,
                   systemAirflow, scanFan, disturbed>>
    BY <1>4 DEF trayVars, airflowVars
  <2> QED BY <2>1 DEF AirflowInv, AirflowTypeOK, TraysTypeOK, CacheIsRight, Visited,
                      TrayAirflow, Decision, Count
<1> QED BY <1>1, <1>2, <1>3, <1>4 DEF AirflowNext, Monitor

\* What a round has read of the undisturbed trays is what they are, whatever is
\* swapped or fails to read meanwhile, and the decision is the one of the cache.
THEOREM AirflowInvariant == AirflowSpec => []AirflowInv
<1>1. AirflowInit => AirflowInv
  BY InitAirflow
<1>2. AirflowInv /\ [AirflowNext]_<<trayVars, airflowVars>> => AirflowInv'
  BY NextAirflow
<1> QED BY <1>1, <1>2, PTL DEF AirflowSpec

-----------------------------------------------------------------------------
(* What follows between the rounds.                                        *)

\* The invariant is strong enough for the rule of the majority.
LEMMA InvMajority == AirflowInv => MajorityRules
<1> SUFFICES ASSUME AirflowInv, scanFan = 1, NEW d \in Direction,
                    Cardinality({f \in Fan \ disturbed : tray[f] = d}) >= Majority
             PROVE  systemAirflow = d
  BY DEF MajorityRules
<1> DEFINE S == {f \in Fan \ disturbed : tray[f] = d}
           C == {f \in Fan : fanAirflow[f] = d}
<1>1. /\ fanAirflow \in [Fan -> AirflowValue]
      /\ systemAirflow = Decision(fanAirflow)
      /\ \A f \in Fan \ disturbed : fanAirflow[f] = TrayAirflow(f)
  BY DEF AirflowInv, AirflowTypeOK, CacheIsRight, Visited
<1>2. S \subseteq C
  BY <1>1 DEF TrayAirflow
<1>3. S \in SUBSET Fan /\ C \in SUBSET Fan /\ Count(fanAirflow, d) = Cardinality(C)
  BY DEF Count
<1>4. Cardinality(S) >= Majority
  OBVIOUS
<1> HIDE DEF S, C
<1>5. Count(fanAirflow, d) >= Majority
  BY <1>2, <1>3, <1>4, CountSubset, MajorityAssumption
<1> QED BY <1>1, <1>5, DecisionIsMajority

\* And for the justification of a known direction.
LEMMA InvJustified == AirflowInv => DirectionIsJustified
<1> SUFFICES ASSUME AirflowInv, scanFan = 1, NEW d \in Direction, systemAirflow = d
             PROVE  Cardinality({f \in Fan : tray[f] = d} \cup disturbed) >= Majority
  BY DEF DirectionIsJustified
<1> DEFINE S == {f \in Fan : tray[f] = d} \cup disturbed
           C == {f \in Fan : fanAirflow[f] = d}
<1>1. /\ fanAirflow \in [Fan -> AirflowValue] /\ disturbed \subseteq Fan
      /\ systemAirflow = Decision(fanAirflow)
      /\ \A f \in Fan \ disturbed : fanAirflow[f] = TrayAirflow(f)
  BY DEF AirflowInv, AirflowTypeOK, CacheIsRight, Visited
<1>2. C \subseteq S
  BY <1>1 DEF TrayAirflow, Direction
<1>3. S \in SUBSET Fan /\ C \in SUBSET Fan /\ Count(fanAirflow, d) = Cardinality(C)
  BY <1>1 DEF Count
<1>4. Count(fanAirflow, d) >= Majority
  BY <1>1, DecisionIsMajority
<1> HIDE DEF S, C
<1>5. Cardinality(S) >= Majority
  BY <1>2, <1>3, <1>4, CountSubset, MajorityAssumption
<1> QED BY <1>5 DEF S

\* Between the steps of a round, every tray's cached direction, the direction of
\* the system and the two cursors are what the code's types and loops allow.
THEOREM AirflowTypes == AirflowSpec => []AirflowTypeOK
<1>1. AirflowInv => AirflowTypeOK
  BY DEF AirflowInv
<1> QED BY AirflowInvariant, <1>1, PTL

\* A majority of undisturbed trays decides the airflow of the system, however
\* the others were swapped or failed to read while the round ran.
THEOREM MajorityDecides == AirflowSpec => []MajorityRules
BY AirflowInvariant, InvMajority, PTL

\* The system has a direction only if a majority of the trays points that way
\* or was disturbed since the last round began.
THEOREM DirectionNeedsMajority == AirflowSpec => []DirectionIsJustified
BY AirflowInvariant, InvJustified, PTL
=============================================================================
