------------------------------ MODULE FruAccess ------------------------------
(***************************************************************************)
(* Read FRU Data and Write FRU Data: the range checks of PDKFRU.c, and the *)
(* paged transfer of PDKEEPROM.c behind them, one step per I2C transfer.   *)
(* A transfer can fail, and the unit that carries the EEPROM can be        *)
(* swapped between two of them.                                            *)
(*                                                                         *)
(* Contents are named, not spelled.  For a write, mem tells which byte of  *)
(* the running request an address holds, 0 for what was there before.  For *)
(* a read, every byte that is returned carries the unit it was read from   *)
(* and its address.                                                        *)
(***************************************************************************)
EXTENDS Integers, Sequences

CONSTANTS
    Fru,           \* [FRU device ID -> FruType]: FRUConfig.m_FRUInfo
    UnknownId,     \* an ID that is no FRU
    MAX_VPD_SIZE_DELL,
    MaxCount,      \* the longest request (255: a byte in the request)
    MaxOffset,     \* bound: the offsets that are asked for
    MaxUnit        \* bound: units that are plugged in after the first

\* The types of FRU: only EEPROMs and unsupported ones here, no NVR files.
FRU_TYPE_EEPROM == "eeprom"
Unsupported == "unsupported"

\* An EEPROM: Tlv if its bus is one of those with Dell's TLV format, its page
\* size (0 if the device type is not supported), whether it takes one address
\* byte only (24C2), its capacity, and where in it the FRU lies.
FruType == [Type : {FRU_TYPE_EEPROM, Unsupported},
            Tlv : BOOLEAN, PageSize : Nat, ByteAddress : BOOLEAN, Capacity : Nat \ {0},
            Offset : Nat, Size : Nat]

Bytes == 256
Words == 65536
INT8U(n) == n % Bytes
INT16U(n) == n % Words

ASSUME FruAssumption ==
    /\ Fru \in [DOMAIN Fru -> FruType]
    /\ UnknownId \notin DOMAIN Fru
    /\ MAX_VPD_SIZE_DELL \in Nat
    /\ MaxCount \in 0 .. Bytes - 1 /\ MaxOffset \in 0 .. Words - 1 /\ MaxUnit \in Nat
\* The FRUs lie in their EEPROMs, and an EEPROM has no more addresses than one or
\* two address bytes reach.
ASSUME PlacementAssumption ==
    \A id \in DOMAIN Fru :
        /\ Fru[id].Offset + Fru[id].Size <= Fru[id].Capacity
        /\ Fru[id].PageSize # 0 => Fru[id].Capacity % Fru[id].PageSize = 0
        /\ Fru[id].Capacity <= IF Fru[id].ByteAddress THEN Bytes ELSE Words

VARIABLES
    request,       \* the running request: command, FRU, offset and count
    pc,            \* "idle", "transfer", "answered", "undefined"
    offset, len,   \* Offset and Len of the EEPROM_Info_T
    done,          \* how far pData has moved
    total,         \* the local Total of RWEEPROM, a byte
    mem,           \* the addressed EEPROM
    unit, format,  \* the unit in the slot, and the state of its contents
    data,          \* what the read has returned so far
    answer         \* completion code and count

fruVars == <<request, pc, offset, len, done, total, mem, unit, format, data, answer>>

Format == {"valid", "incomplete", "invalid"}
Request == [Command : {"read", "write"}, Id : DOMAIN Fru \cup {UnknownId},
            Offset : Nat, Count : 0 .. MaxCount]
\* The requests that are sent.
Asked == [Command : {"read", "write"}, Id : DOMAIN Fru \cup {UnknownId},
          Offset : 0 .. MaxOffset, Count : 0 .. MaxCount]
NoAnswer == [Code |-> "none", Count |-> 0]
Answer(code, count) == [Code |-> code, Count |-> count]

Device == Fru[request.Id]
Blank(id) == [a \in 0 .. Fru[id].Capacity - 1 |-> 0]

NoRequest == [Command |-> "read", Id |-> UnknownId, Offset |-> 0, Count |-> 0]
FruInit ==
    /\ request = NoRequest
    /\ pc = "idle"
    /\ offset = 0 /\ len = 0 /\ done = 0 /\ total = 0
    /\ mem = <<>> /\ data = <<>>
    /\ unit = 0 /\ format \in Format
    /\ answer = NoAnswer

-----------------------------------------------------------------------------
(* PDK_ReadFRUData and PDK_WriteFRUData.                                   *)

\* Mutation: the count is compared with the size, not with what is left of it.
RefusalBySize(r) ==
    IF r.Id = UnknownId THEN "CC_FRU_REC_NOT_PRESENT"
    ELSE IF r.Offset >= Fru[r.Id].Size THEN "CC_INV_DATA_FIELD"
    ELSE IF r.Count > Fru[r.Id].Size THEN "CC_PARAM_OUT_OF_RANGE"
    ELSE IF r.Command = "read" /\ r.Count = 0 THEN "CC_INV_DATA_FIELD"
    ELSE "none"

\* The checks in their order; a write of no bytes passes them.
Refusal(r) ==
    IF r.Id = UnknownId THEN "CC_FRU_REC_NOT_PRESENT"
    ELSE IF r.Offset >= Fru[r.Id].Size THEN "CC_INV_DATA_FIELD"
    ELSE IF r.Count > Fru[r.Id].Size - r.Offset THEN "CC_PARAM_OUT_OF_RANGE"
    ELSE IF r.Command = "read" /\ r.Count = 0 THEN "CC_INV_DATA_FIELD"
    ELSE "none"

Refuse(r) ==
    /\ pc = "idle"
    /\ Refusal(r) # "none"
    /\ request' = r
    /\ answer' = Answer(Refusal(r), 0)
    /\ pc' = "answered"
    /\ UNCHANGED <<offset, len, done, total, mem, unit, format, data>>

\* ReadFRUDevice and WriteFRUDevice answer 0 for a type that they do not support,
\* and 0 is a count: the request succeeds with no byte moved.
AcceptUnsupported(r) ==
    /\ pc = "idle"
    /\ Refusal(r) = "none" /\ Fru[r.Id].Type = Unsupported
    /\ request' = r
    /\ answer' = Answer("CC_NORMAL", 0)
    /\ pc' = "answered"
    /\ UNCHANGED <<offset, len, done, total, mem, unit, format, data>>

\* ReadWriteEEPROM fills the EEPROM_Info_T; here also for a device type that is not
\* supported, for which it fails before (Fail).
Accept(r) ==
    /\ pc = "idle"
    /\ Refusal(r) = "none" /\ Fru[r.Id].Type = FRU_TYPE_EEPROM
    /\ request' = r
    /\ pc' = "transfer"
    /\ offset' = INT16U(Fru[r.Id].Offset + r.Offset)
    /\ len' = r.Count
    /\ done' = 0 /\ total' = 0
    /\ mem' = Blank(r.Id)
    /\ data' = <<>>
    /\ UNCHANGED <<unit, format, answer>>

-----------------------------------------------------------------------------
(* One pass of the loop of RWEEPROM.                                       *)

Supported == Device.PageSize # 0
Transferring(command) ==
    pc = "transfer" /\ Supported /\ len > 0 /\ request.Command = command

\* Mutation: the position in the page is ignored.
ChunkFromPageStart ==
    IF len > Device.PageSize THEN Device.PageSize ELSE len

\* Up to the end of the page.
Chunk ==
    LET row == offset % Device.PageSize
    IN  IF len + row > Device.PageSize THEN Device.PageSize - row ELSE len

\* The EEPROM: an address byte reaches 256 addresses, a write stays in its page
\* and wraps there, and a read goes on through all pages.
Address == (IF Device.ByteAddress THEN INT8U(offset) ELSE offset) % Device.Capacity
WriteAddress(i) ==
    LET p == Device.PageSize IN (Address \div p) * p + (((Address % p) + i) % p)
ReadAddress(i) == (Address + i) % Device.Capacity

\* Mutation: pData stays where it is.
AdvanceWithoutData(n) ==
    /\ len' = len - n
    /\ offset' = INT16U(offset + n)
    /\ done' = done
    /\ total' = INT8U(total + n)

Advance(n) ==
    /\ len' = len - n
    /\ offset' = INT16U(offset + n)
    /\ done' = done + n
    /\ total' = INT8U(total + n)

\* The EEPROM with the first n bytes of the chunk.
Written(n) ==
    [a \in DOMAIN mem |->
        IF a \in {WriteAddress(i) : i \in 0 .. n - 1}
        THEN done + 1 + (CHOOSE i \in 0 .. n - 1 : WriteAddress(i) = a)
        ELSE mem[a]]

WriteChunk ==
    /\ Transferring("write")
    /\ mem' = Written(Chunk)
    /\ Advance(Chunk)
    /\ UNCHANGED <<request, pc, unit, format, data, answer>>

Contents == [Unit : Int, Address : Nat]
Byte(u, a) == [Unit |-> u, Address |-> a]
\* What the buffer holds where nothing was converted into it.
ZeroByte == Byte(-1, 0)

ReadChunk ==
    /\ Transferring("read")
    /\ ~Device.Tlv
    /\ data' = data \o [i \in 1 .. Chunk |-> Byte(unit, ReadAddress(i - 1))]
    /\ Advance(Chunk)
    /\ UNCHANGED <<request, pc, mem, unit, format, answer>>

\* The whole VPD is converted again for every chunk, and the result of the
\* conversion is not looked at: when one of the three fields that it needs is
\* not there or cannot be read, the buffer is left zero.
Converted(ok, a) == IF ok THEN Byte(unit, a) ELSE ZeroByte
InBuffer == offset + Chunk <= MAX_VPD_SIZE_DELL + 1

\* Mutation: the buffer is copied from its start.
ReadVpdFromStart(ok) ==
    /\ Transferring("read")
    /\ Device.Tlv /\ format # "invalid" /\ InBuffer
    /\ ok => format = "valid"
    /\ data' = data \o [i \in 1 .. Chunk |-> Converted(ok, i - 1)]
    /\ Advance(Chunk)
    /\ UNCHANGED <<request, pc, mem, unit, format, answer>>

ReadVpd(ok) ==
    /\ Transferring("read")
    /\ Device.Tlv /\ format # "invalid" /\ InBuffer
    /\ ok => format = "valid"
    /\ data' = data \o [i \in 1 .. Chunk |-> Converted(ok, offset + i - 1)]
    /\ Advance(Chunk)
    /\ UNCHANGED <<request, pc, mem, unit, format, answer>>

\* The copy leaves the buffer of the converted VPD.
OverrunVpd ==
    /\ Transferring("read")
    /\ Device.Tlv /\ format # "invalid" /\ ~InBuffer
    /\ pc' = "undefined"
    /\ UNCHANGED <<request, offset, len, done, total, mem, unit, format, data, answer>>

DataUnavailable ==
    /\ answer' = Answer("CC_FRU_DATA_UNAVAILABLE", 0)
    /\ pc' = "answered"
    /\ UNCHANGED <<request, offset, len, done, total, unit, format, data>>

\* A write that fails: the EEPROM keeps the bytes that it took before, which may be
\* all of the chunk.
FailToWrite ==
    /\ Transferring("write")
    /\ \E n \in 0 .. Chunk : mem' = Written(n)
    /\ DataUnavailable

\* A read that fails, an invalid TLV EEPROM, or an unknown device type.
Fail ==
    /\ pc = "transfer"
    /\ ~Supported \/ Transferring("read")
    /\ UNCHANGED mem
    /\ DataUnavailable

Complete ==
    /\ pc = "transfer"
    /\ Supported /\ len = 0
    /\ answer' = Answer("CC_NORMAL", total)
    /\ pc' = "answered"
    /\ UNCHANGED <<request, offset, len, done, total, mem, unit, format, data>>

\* The answer is sent, and the locals of the calls are gone.
Return ==
    /\ pc = "answered"
    /\ request' = NoRequest
    /\ pc' = "idle"
    /\ offset' = 0 /\ len' = 0 /\ done' = 0 /\ total' = 0
    /\ mem' = <<>> /\ data' = <<>>
    /\ answer' = NoAnswer
    /\ UNCHANGED <<unit, format>>

\* The unit is swapped; a write goes on on the new one, which holds nothing of it.
SwapUnit ==
    /\ unit < MaxUnit
    /\ unit' = unit + 1
    /\ format' \in Format
    /\ mem' = [a \in DOMAIN mem |-> 0]
    /\ UNCHANGED <<request, pc, offset, len, done, total, data, answer>>

FruNext ==
    \/ \E r \in Asked : Refuse(r) \/ AcceptUnsupported(r) \/ Accept(r)
    \/ WriteChunk
    \/ FailToWrite
    \/ ReadChunk
    \/ \E ok \in BOOLEAN : ReadVpd(ok)
    \/ OverrunVpd
    \/ Fail
    \/ Complete
    \/ Return
    \/ SwapUnit

FruSpec == FruInit /\ [][FruNext]_fruVars

-----------------------------------------------------------------------------
(* Properties.                                                             *)

FruTypeOK ==
    /\ request \in Request
    /\ pc \in {"idle", "transfer", "answered", "undefined"}
    /\ offset \in 0 .. Words - 1 /\ len \in 0 .. MaxCount
    /\ done \in 0 .. MaxCount /\ total \in 0 .. Bytes - 1
    /\ unit \in 0 .. MaxUnit /\ format \in Format
    /\ data \in Seq(Contents) /\ Len(data) <= MaxCount

\* Where byte k of the request belongs.
Place(k) == Device.Offset + request.Offset + k - 1

\* In all of a write, also one that fails in the middle, the EEPROM holds a
\* stretch of the request that ends where the write is, every byte at its place,
\* and nothing else has changed: no page wraps.  The stretch begins with the
\* request unless the unit was swapped, and only a failure leaves more than was
\* counted.
WriteKeepsPlaces ==
    request.Command = "write" /\ request.Id # UnknownId =>
        \E first \in 1 .. done + 1, last \in done .. request.Count :
            /\ answer.Code # "CC_FRU_DATA_UNAVAILABLE" => last = done
            /\ \A a \in DOMAIN mem :
                LET k == a + 1 - Place(1)
                IN  mem[a] = IF k \in first .. last THEN k ELSE 0

\* Success means everything: the count that is answered is the number of bytes that
\* were transferred, and of an EEPROM it is the count that was asked for.
NormalMeansAll ==
    answer.Code = "CC_NORMAL" =>
        /\ answer.Count = done
        /\ Device.Type = FRU_TYPE_EEPROM => done = request.Count
        /\ request.Command = "read" => Len(data) = done

\* Every byte of a read is the one that was asked for, or a zero of an
\* incomplete TLV EEPROM; a swap during the read is the only way to mix units,
\* and the later bytes are then those of the later unit.
ReadIsInOrder ==
    \A k \in 1 .. Len(data) :
        /\ data[k] # ZeroByte => data[k].Address = Place(k)
        /\ \A j \in 1 .. k : data[j] # ZeroByte /\ data[k] # ZeroByte
                                => data[j].Unit <= data[k].Unit

\* The copy leaves the VPD buffer only for a FRU that is configured to be larger
\* than the buffer: the range checks of the command are enough for all others.
OverrunNeedsLargeFru ==
    pc = "undefined" => Device.Offset + Device.Size > MAX_VPD_SIZE_DELL + 1

=============================================================================
