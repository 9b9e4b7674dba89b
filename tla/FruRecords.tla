----------------------------- MODULE FruRecords -----------------------------
(***************************************************************************)
(* InitMultiRecord of PDKFRU.c: it walks the multi record area of a FRU    *)
(* and gives each record to a FRU device of its own, by moving the offset  *)
(* of the device behind the record's header and an 18 byte prefix.  One    *)
(* record per step; the result of reading a header is not looked at, the   *)
(* count is one byte wide, and the offsets are 16 bits wide and added to   *)
(* what they were, not set.  Nothing in the repository calls the function: *)
(* the caller here passes any ids, also one twice, and calls it again.     *)
(***************************************************************************)
EXTENDS Integers, Sequences

CONSTANTS
    RecordFru,         \* the FRU devices that records may be given to
    HeaderLen,         \* the bytes of a MultiRecordHeader_T on the device
    Prefix,            \* 18
    CountSize,         \* 2^8: NumMultiRec is an INT8U
    MaxRecords,        \* bound: records and ids of a call
    RecordLen,         \* the record lengths that are tried
    OffsetSize,        \* 2^16: offsets are INT16U
    AreaStart,         \* the offset of the area in the common header, in bytes
    FruStart,          \* the offsets that the devices are registered with
    MaxCalls           \* bound: calls between two starts of the stack

ASSUME RecordAssumption ==
    /\ HeaderLen \in Nat \ {0} /\ Prefix \in Nat
    /\ CountSize \in Nat \ {0} /\ MaxRecords \in 1 .. CountSize - 1
    /\ RecordLen \subseteq Nat /\ RecordLen # {}
    /\ OffsetSize \in Nat \ {0} /\ AreaStart \subseteq 0 .. OffsetSize - 1
    /\ FruStart \subseteq 0 .. OffsetSize - 1 /\ MaxCalls \in Nat

NoFru == "no_such_FRU"
ASSUME NoFruAssumption == NoFru \notin RecordFru

VARIABLES
    records,           \* what is on the device: the headers, in order
    recordPc,
    recordIds,         \* the ids that the caller passed
    recordIdx,         \* how many records were walked over
    numMultiRec,       \* NumMultiRec, counted down
    multiRecOffset,    \* MultiRecOffset
    header,            \* MultiRecordHdr
    recordArea,        \* Offset and Size of the FRU devices
    calls,             \* calls since the start of the stack
    orderly            \* history: the ids of the call are distinct, its devices began
                       \* at the offset zero, and no offset of it has wrapped

recordVars == <<records, recordPc, recordIds, recordIdx, numMultiRec,
                multiRecOffset, header, recordArea, calls, orderly>>

Header == [Len : RecordLen, Eol : BOOLEAN]
NoHeader == [Len |-> 0, Eol |-> TRUE]      \* outside a call
Distinct(s) == \A i, j \in DOMAIN s : i # j => s[i] # s[j]
UpTo(S, n) == UNION {[1 .. k -> S] : k \in 1 .. n}

\* The devices as PDK_RegisterFRU leaves them.
Registered == [RecordFru -> [Offset : FruStart, Size : {0}]]
Word(n) == n % OffsetSize

RecordInit ==
    /\ records \in UpTo(Header, MaxRecords)
    /\ recordPc = "idle"
    /\ recordIds = <<>> /\ recordIdx = 0 /\ numMultiRec = 0 /\ multiRecOffset = 0
    /\ header = NoHeader
    /\ recordArea \in Registered
    /\ calls = 0 /\ orderly = FALSE

-----------------------------------------------------------------------------
\* The call.  The ids are as many as NumMultiRec says, and at least one, or the
\* count is zero.  An unknown FRU, a header of another version and one without a
\* multi record area end the call at once.
InitMultiRecord ==
    /\ recordPc = "idle" /\ calls < MaxCalls
    /\ \E ids \in UpTo(RecordFru \cup {NoFru}, MaxRecords), zero \in BOOLEAN :
         /\ recordIds' = ids
         /\ numMultiRec' = IF zero THEN 0 ELSE Len(ids)
         /\ orderly' = (/\ Distinct(ids)
                        /\ \A f \in RecordFru : recordArea[f].Offset = 0)
    /\ multiRecOffset' \in AreaStart \ {0}
    /\ recordIdx' = 0
    /\ header' \in Header              \* MultiRecordHdr is not initialised
    /\ calls' = calls + 1
    /\ recordPc' = "walk"
    /\ UNCHANGED <<records, recordArea>>

\* What the header holds after the read: the record, what follows the last
\* record on the device, or what it held before if the read failed.
HeaderRead ==
    IF recordIdx < Len(records) THEN {records[recordIdx + 1], header} ELSE Header

\* The id of a record; beyond the ids that were passed, va_arg finds anything.
IdRead ==
    IF recordIdx < Len(recordIds) THEN {recordIds[recordIdx + 1]}
    ELSE RecordFru \cup {NoFru}

\* Mutation: the offset of the next record forgets the record.
NextOffsetWithoutLength(len) == multiRecOffset + HeaderLen

\* Where the next record begins, and the area of this one, before they are cut to
\* 16 bits.
NextOffset(len) == multiRecOffset + len + HeaderLen
AreaOffset(id) == recordArea[id].Offset + multiRecOffset + HeaderLen + Prefix

\* Mutation: NumMultiRec is signed and does not wrap.
RemainingSigned == numMultiRec - 1

\* NumMultiRec-- wraps, and the loop goes on while it is not zero.
Remaining == (numMultiRec + CountSize - 1) % CountSize

PlaceRecord ==
    /\ recordPc = "walk"
    /\ \E h \in HeaderRead, id \in IdRead :
         /\ id # NoFru
         /\ recordArea' = [recordArea EXCEPT
                ![id].Offset = Word(AreaOffset(id)), ![id].Size = h.Len]
         /\ multiRecOffset' = Word(NextOffset(h.Len))
         /\ orderly' = (/\ orderly
                        /\ AreaOffset(id) < OffsetSize /\ NextOffset(h.Len) < OffsetSize)
         /\ IF h.Eol \/ Remaining = 0
            THEN recordPc' = "idle" /\ header' = NoHeader
            ELSE recordPc' = "walk" /\ header' = h
    /\ recordIdx' = recordIdx + 1
    /\ numMultiRec' = Remaining
    /\ UNCHANGED <<records, recordIds, calls>>

\* An id of no device ends the walk with -1; the records before it are placed.
FailToFindFru ==
    /\ recordPc = "walk"
    /\ header' = NoHeader
    /\ NoFru \in IdRead
    /\ recordPc' = "idle"
    /\ UNCHANGED <<records, recordIds, recordIdx, numMultiRec, multiRecOffset,
                   recordArea, calls, orderly>>

\* The next start of the stack: PDK_RegisterFRU sets up the devices anew.
RestartFru ==
    /\ recordPc = "idle"
    /\ calls > 0
    /\ recordIds' = <<>> /\ recordIdx' = 0 /\ numMultiRec' = 0 /\ multiRecOffset' = 0
    /\ recordArea' \in Registered
    /\ calls' = 0 /\ orderly' = FALSE
    /\ UNCHANGED <<records, recordPc, header>>

RecordNext == InitMultiRecord \/ PlaceRecord \/ FailToFindFru \/ RestartFru
RecordSpec == RecordInit /\ [][RecordNext]_recordVars

-----------------------------------------------------------------------------
(* Properties                                                              *)

\* The walk counts the records, at most one more than its bound.
RecordTypeOK ==
    /\ records \in UpTo(Header, MaxRecords)
    /\ recordPc \in {"idle", "walk"}
    /\ recordIdx \in 0 .. CountSize /\ numMultiRec \in 0 .. CountSize - 1
    /\ multiRecOffset \in 0 .. OffsetSize - 1
    /\ header \in Header \cup {NoHeader}
    /\ recordArea \in [RecordFru -> [Offset : 0 .. OffsetSize - 1, Size : Nat]]
    /\ calls \in 0 .. MaxCalls /\ orderly \in BOOLEAN

\* The records that the call placed, of the ids it was passed, lie in their
\* order on the device and do not overlap, wherever the walk stopped and
\* whichever of the headers could not be read - for distinct ids of devices whose
\* offset was zero, and as long as no offset wraps.
AreasInOrder ==
    orderly /\ recordIdx <= Len(recordIds) =>
        \A i, j \in 1 .. recordIdx :
            i < j => recordArea[recordIds[i]].Offset + recordArea[recordIds[i]].Size
                         <= recordArea[recordIds[j]].Offset
=============================================================================
