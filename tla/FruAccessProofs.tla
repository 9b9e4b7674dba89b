---------------------------- MODULE FruAccessProofs ----------------------------
(***************************************************************************)
(* Proofs about FRU access, for all FRUs and all page sizes, and for units *)
(* that are swapped at any moment.                                         *)
(*                                                                         *)
(* The range checks are made once, on the request; the paged transfer does *)
(* not look at them again.  TransferInv carries them through the chunks:   *)
(* what is done and what is left make up the request, and the offset is    *)
(* where the next byte belongs.                                            *)
(***************************************************************************)
EXTENDS FruAccess, SequenceTheorems, TLAPS

TransferInv ==
    pc = "transfer" =>
        /\ request.Id \in DOMAIN Fru
        /\ request.Offset + request.Count <= Device.Size
        /\ done + len = request.Count
        /\ total = done
        /\ len > 0 => offset = Place(done + 1)
        /\ request.Command = "read" => Len(data) = done

DataInv ==
    /\ data # <<>> => request.Id \in DOMAIN Fru
    /\ pc = "idle" => data = <<>>
    /\ \A k \in 1 .. Len(data) :
          data[k] # ZeroByte => data[k].Address = Place(k) /\ data[k].Unit <= unit
    /\ \A k \in 1 .. Len(data), j \in 1 .. Len(data) :
          j <= k /\ data[j] # ZeroByte /\ data[k] # ZeroByte
              => data[j].Unit <= data[k].Unit

AnswerInv ==
    /\ pc # "answered" => answer = NoAnswer
    /\ done <= request.Count
    /\ pc = "idle" => done = 0
    /\ NormalMeansAll

FruInv == FruTypeOK /\ TransferInv /\ DataInv /\ AnswerInv /\ OverrunNeedsLargeFru

-----------------------------------------------------------------------------
(* Arithmetic.                                                             *)

\* A remainder is below its divisor, and a number below it is its own.
LEMMA Remainder ==
    ASSUME NEW a \in Nat, NEW b \in Nat \ {0}
    PROVE  a % b \in 0 .. b - 1
OBVIOUS

\* A number below its divisor is its own remainder.
LEMMA RemainderOfSmall ==
    ASSUME NEW a \in Nat, NEW b \in Nat \ {0}, a < b
    PROVE  a % b = a
OBVIOUS

\* The numbers of values of a byte and of a word.
LEMMA Limits == Bytes \in Nat \ {0} /\ Words \in Nat \ {0} /\ Bytes <= Words
BY SMT DEF Bytes, Words

\* Bytes and words of the code keep what fits into them.
LEMMA Widths ==
    ASSUME NEW n \in Nat
    PROVE  /\ INT8U(n) \in 0 .. Bytes - 1 /\ (n < Bytes => INT8U(n) = n)
           /\ INT16U(n) \in 0 .. Words - 1 /\ (n < Words => INT16U(n) = n)
BY Limits, Remainder, RemainderOfSmall DEF INT8U, INT16U

\* The FRU of a request that was accepted.
LEMMA DeviceType ==
    ASSUME request.Id \in DOMAIN Fru
    PROVE  /\ Device \in FruType
           /\ Device.PageSize \in Nat /\ Device.Offset \in Nat /\ Device.Size \in Nat
           /\ Device.Capacity \in Nat \ {0}
           /\ Device.Offset + Device.Size <= Device.Capacity
           /\ Device.Capacity <= Words
           /\ Device.ByteAddress => Device.Capacity <= Bytes
<1>1. Device \in FruType
  BY FruAssumption DEF Device
<1>2. Device.Offset + Device.Size <= Device.Capacity
      /\ Device.Capacity <= IF Device.ByteAddress THEN Bytes ELSE Words
  BY PlacementAssumption DEF Device
<1> QED
  BY <1>1, <1>2, Limits DEF FruType

\* A chunk is not empty and takes no more than is left.
LEMMA ChunkRange ==
    ASSUME FruTypeOK, request.Id \in DOMAIN Fru, Supported, len > 0
    PROVE  Chunk \in 1 .. len
<1> DEFINE row == offset % Device.PageSize
<1>1. Device.PageSize \in Nat \ {0} /\ offset \in Nat /\ len \in Nat
  BY DeviceType, Limits, FruAssumption DEF Supported, FruTypeOK
<1>2. row \in 0 .. Device.PageSize - 1
  BY <1>1, Remainder
<1>3. Chunk = IF len + row > Device.PageSize THEN Device.PageSize - row ELSE len
  BY DEF Chunk
<1> HIDE DEF row
<1> QED
  BY <1>1, <1>2, <1>3

\* Within the FRU the EEPROM is read at the address that the code means.
LEMMA ReadAddressIs ==
    ASSUME request.Id \in DOMAIN Fru, NEW i \in Nat, offset \in Nat,
           offset + i < Device.Capacity
    PROVE  ReadAddress(i) = offset + i
<1>1. Device.Capacity \in Nat \ {0} /\ (Device.ByteAddress => Device.Capacity <= Bytes)
      /\ Bytes \in Nat
  BY DeviceType, Limits
<1>2. (IF Device.ByteAddress THEN INT8U(offset) ELSE offset) = offset
  BY <1>1, Widths
<1>3. Address = offset
  BY <1>1, <1>2, RemainderOfSmall DEF Address
<1> QED
  BY <1>1, <1>3, RemainderOfSmall DEF ReadAddress

-----------------------------------------------------------------------------
(* One chunk.                                                              *)

\* What a transfer under way knows.
LEMMA Transferred ==
    ASSUME FruInv, pc = "transfer"
    PROVE  /\ request.Id \in DOMAIN Fru
           /\ request.Offset \in Nat /\ request.Count \in Nat
           /\ request.Count <= MaxCount /\ MaxCount \in Nat /\ MaxCount < Bytes
           /\ done \in Nat /\ len \in Nat /\ offset \in Nat /\ unit \in Nat
           /\ done + len = request.Count
           /\ len > 0 => offset = Device.Offset + request.Offset + done
           /\ request.Offset + request.Count <= Device.Size
<1>1. MaxCount \in Nat /\ MaxCount < Bytes /\ MaxUnit \in Nat
  BY FruAssumption, Limits
<1>2. request.Offset \in Nat /\ request.Count \in 0 .. MaxCount
  BY DEF FruInv, FruTypeOK, Request
<1>3. done \in Nat /\ len \in Nat /\ offset \in Nat /\ unit \in Nat
  BY <1>1, Limits DEF FruInv, FruTypeOK
<1>4. request.Id \in DOMAIN Fru /\ done + len = request.Count
      /\ request.Offset + request.Count <= Device.Size
      /\ (len > 0 => offset = Place(done + 1))
  BY DEF FruInv, TransferInv
<1> QED
  BY <1>1, <1>2, <1>3, <1>4, DeviceType DEF Place

\* The counters of a chunk: no byte and no word overflows before the request
\* is complete.
LEMMA AdvanceStep ==
    ASSUME FruInv, pc = "transfer", NEW n \in 1 .. len, Advance(n)
    PROVE  /\ len' = len - n /\ len' \in 0 .. MaxCount
           /\ done' = done + n /\ done' \in 0 .. MaxCount
           /\ total' = done' /\ total' \in 0 .. Bytes - 1
           /\ offset' \in 0 .. Words - 1
           /\ len' > 0 => offset' = Device.Offset + request.Offset + done'
<1>1. len' = len - n /\ done' = done + n /\ n \in Nat /\ n <= len
  BY Transferred DEF Advance
<1>2. len' \in 0 .. MaxCount /\ done' \in 0 .. MaxCount
  BY <1>1, Transferred
<1>3. total = done
  BY DEF FruInv, TransferInv
<1>4. total' = done' /\ total' \in 0 .. Bytes - 1
  <2>1. total' = INT8U(done + n) /\ done + n \in Nat /\ done + n < Bytes
    BY <1>1, <1>3, Transferred, Limits DEF Advance
  <2> QED
    BY <2>1, <1>1, Widths
<1>5. offset' = INT16U(offset + n) /\ offset + n \in Nat
  BY <1>1, Transferred DEF Advance
<1>6. offset' \in 0 .. Words - 1
  BY <1>5, Widths
<1>7. ASSUME len' > 0 PROVE offset' = Device.Offset + request.Offset + done'
  <2>1. offset + n < Words
    BY <1>1, <1>7, Transferred, DeviceType, Limits
  <2> QED
    BY <2>1, <1>1, <1>5, <1>7, Widths, Transferred, DeviceType
<1> QED
  BY <1>1, <1>2, <1>4, <1>6, <1>7

\* The bytes of a chunk of a read: each is the one that belongs there, or zero.
LEMMA DataStep ==
    ASSUME FruInv, pc = "transfer", request.Command = "read",
           NEW n \in 1 .. len, NEW f \in [1 .. n -> Contents],
           \A i \in 1 .. n : f[i] # ZeroByte =>
               f[i].Unit = unit
               /\ f[i].Address = Device.Offset + request.Offset + done + i - 1,
           data' = data \o f, UNCHANGED <<request, pc, unit>>
    PROVE  data' \in Seq(Contents) /\ Len(data') = done + n /\ DataInv'
<1>1. data \in Seq(Contents) /\ Len(data) = done
  BY DEF FruInv, FruTypeOK, TransferInv
<1>2. n \in Nat /\ done \in Nat /\ unit \in Nat /\ request.Id \in DOMAIN Fru
      /\ request.Offset \in Nat /\ Device.Offset \in Nat
  BY Transferred, DeviceType
<1>3. f \in Seq(Contents) /\ Len(f) = n
  BY <1>2
<1>4. data' \in Seq(Contents) /\ Len(data') = done + n
  <2>1. data \o f \in Seq(Contents) /\ Len(data \o f) = Len(data) + Len(f)
    BY <1>1, <1>3, ConcatProperties
  <2> QED
    BY <1>1, <1>3, <2>1
<1>5. \A k \in 1 .. done : data'[k] = data[k]
  BY <1>1, <1>2, <1>3
<1>6. \A k \in 1 .. done + n : k \notin 1 .. done =>
         k - done \in 1 .. n /\ data'[k] = f[k - done]
  <2> SUFFICES ASSUME NEW k \in 1 .. done + n, k \notin 1 .. done
               PROVE  k - done \in 1 .. n /\ data'[k] = f[k - done]
    OBVIOUS
  <2>1. k - Len(data) \in 1 .. Len(f) /\ k \in 1 .. Len(data) + Len(f) /\ k > Len(data)
    BY <1>1, <1>2, <1>3
  <2>2. (data \o f)[k] = f[k - Len(data)]
    BY <1>1, <1>3, <2>1
  <2> QED
    BY <1>1, <1>3, <2>1, <2>2
<1>7. /\ \A k \in 1 .. done :
             data[k] # ZeroByte => data[k].Address = Place(k) /\ data[k].Unit <= unit
      /\ \A k \in 1 .. done, j \in 1 .. done :
             j <= k /\ data[j] # ZeroByte /\ data[k] # ZeroByte
                 => data[j].Unit <= data[k].Unit
  BY <1>1 DEF FruInv, DataInv
<1>8. \A k \in 1 .. done + n :
         data'[k] # ZeroByte => data'[k].Address = Place(k) /\ data'[k].Unit <= unit
  <2> SUFFICES ASSUME NEW k \in 1 .. done + n, data'[k] # ZeroByte
               PROVE  data'[k].Address = Place(k) /\ data'[k].Unit <= unit
    OBVIOUS
  <2>1. CASE k \in 1 .. done
    BY <2>1, <1>5, <1>7
  <2>2. CASE k \notin 1 .. done
    <3> DEFINE i == k - done
    <3>1. i \in 1 .. n /\ data'[k] = f[i]
      BY <2>2, <1>6
    <3>2. f[i].Unit = unit
          /\ f[i].Address = Device.Offset + request.Offset + done + i - 1
      BY <3>1
    <3>3. Device.Offset + request.Offset + done + i - 1 = Place(k)
      BY <1>2 DEF Place
    <3> QED
      BY <1>2, <3>1, <3>2, <3>3
  <2> QED
    BY <2>1, <2>2
<1>9. \A k \in 1 .. done + n, j \in 1 .. done + n :
         j <= k /\ data'[j] # ZeroByte /\ data'[k] # ZeroByte
             => data'[j].Unit <= data'[k].Unit
  <2> SUFFICES ASSUME NEW k \in 1 .. done + n, NEW j \in 1 .. done + n, j <= k,
                      data'[j] # ZeroByte, data'[k] # ZeroByte
               PROVE  data'[j].Unit <= data'[k].Unit
    OBVIOUS
  <2>1. CASE k \in 1 .. done
    <3>1. j \in 1 .. done
      BY <1>2, <2>1
    <3> QED
      BY <2>1, <3>1, <1>5, <1>7
  <2>2. CASE k \notin 1 .. done
    <3>1. data'[k].Unit = unit
      BY <2>2, <1>6
    <3> QED
      BY <3>1, <1>8
  <2> QED
    BY <2>1, <2>2
<1>10. Place(1)' = Place(1) /\ \A k \in 1 .. done + n : Place(k)' = Place(k)
  BY DEF Place, Device
<1>11. ZeroByte' = ZeroByte
  BY DEF ZeroByte, Byte
<1> QED
  BY <1>2, <1>4, <1>8, <1>9, <1>10 DEF DataInv, ZeroByte, Byte

-----------------------------------------------------------------------------
(* The inductive invariant, one lemma for each kind of step.               *)

\* The invariant holds before the first transfer.
LEMMA InitFru == FruInit => FruInv
<1>1. ASSUME FruInit PROVE FruTypeOK
  <2>1. 0 \in 0 .. MaxCount /\ 0 \in 0 .. MaxUnit /\ 0 \in 0 .. Words - 1
        /\ 0 \in 0 .. Bytes - 1
    BY FruAssumption, Limits
  <2>2. <<>> \in Seq(Contents) /\ Len(<<>>) = 0
    BY EmptySeq
  <2>3. NoRequest \in Request
    BY <2>1 DEF NoRequest, Request
  <2> QED
    BY <1>1, <2>1, <2>2, <2>3 DEF FruInit, FruTypeOK
<1>2. ASSUME FruInit PROVE TransferInv /\ AnswerInv /\ OverrunNeedsLargeFru
  BY <1>2
  DEF FruInit, TransferInv, AnswerInv, NormalMeansAll, OverrunNeedsLargeFru, NoAnswer, NoRequest
<1>3. ASSUME FruInit PROVE DataInv
  BY <1>3 DEF FruInit, DataInv
<1> QED
  BY <1>1, <1>2, <1>3 DEF FruInv

\* Steps that answer leave request, unit and data as they are.
LEMMA SameData ==
    ASSUME FruInv, pc # "idle", pc' # "idle", UNCHANGED <<request, unit, data>>
    PROVE  DataInv'
BY DEF FruInv, DataInv, ZeroByte, Byte, Place, Device

\* A request is refused, answered at once, or accepted with its range checked.
LEMMA RequestStep ==
    ASSUME FruInv, NEW r \in Request, Refuse(r) \/ AcceptUnsupported(r) \/ Accept(r)
    PROVE  FruInv'
<1>1. request' = r /\ r.Offset \in Nat /\ r.Count \in 0 .. MaxCount
      /\ r.Id \in DOMAIN Fru \cup {UnknownId}
  BY DEF Refuse, AcceptUnsupported, Accept, Request
<1>2. pc = "idle" /\ data = <<>> /\ answer = NoAnswer /\ done = 0
      /\ pc' \in {"answered", "transfer"}
  BY DEF FruInv, DataInv, AnswerInv, Refuse, AcceptUnsupported, Accept
<1>3. MaxCount \in Nat /\ MaxCount < Bytes /\ <<>> \in Seq(Contents) /\ Len(<<>>) = 0
  BY FruAssumption, Limits, EmptySeq
<1>4. CASE Refuse(r)
  <2>1. answer' = Answer(Refusal(r), 0) /\ Refusal(r) # "CC_NORMAL"
        /\ pc' = "answered" /\ data' = <<>> /\ done' = 0
    BY <1>2, <1>4 DEF Refuse, Refusal
  <2>2. FruTypeOK'
    BY <1>1, <1>2, <1>4, <2>1 DEF FruInv, FruTypeOK, Refuse
  <2>3. DataInv'
    BY <1>3, <2>1 DEF DataInv
  <2>4. TransferInv' /\ AnswerInv' /\ OverrunNeedsLargeFru'
    BY <1>1, <1>3, <2>1
    DEF TransferInv, AnswerInv, NormalMeansAll, OverrunNeedsLargeFru, Answer
  <2> QED
    BY <2>2, <2>3, <2>4 DEF FruInv
<1>6. CASE AcceptUnsupported(r)
  <2>1. answer' = Answer("CC_NORMAL", 0) /\ Device'.Type = Unsupported
        /\ pc' = "answered" /\ data' = <<>> /\ done' = 0
    BY <1>1, <1>2, <1>6 DEF AcceptUnsupported, Device
  <2>2. FruTypeOK'
    BY <1>1, <1>2, <1>6, <2>1 DEF FruInv, FruTypeOK, AcceptUnsupported
  <2>3. DataInv'
    BY <1>3, <2>1 DEF DataInv
  <2>4. TransferInv' /\ AnswerInv' /\ OverrunNeedsLargeFru'
    BY <1>1, <1>3, <2>1
    DEF TransferInv, AnswerInv, NormalMeansAll, OverrunNeedsLargeFru, Answer, Unsupported,
        FRU_TYPE_EEPROM
  <2> QED
    BY <2>2, <2>3, <2>4 DEF FruInv
<1>5. CASE Accept(r)
  <2>1. /\ pc' = "transfer" /\ len' = r.Count /\ done' = 0 /\ total' = 0 /\ data' = <<>>
        /\ offset' = INT16U(Fru[r.Id].Offset + r.Offset)
        /\ UNCHANGED <<unit, format, answer>>
        /\ Refusal(r) = "none"
    BY <1>5 DEF Accept
  <2>2. r.Id \in DOMAIN Fru /\ Device' = Fru[r.Id]
    BY <1>1, <2>1 DEF Refusal, Device
  <2>3. Device'.Offset \in Nat /\ Device'.Size \in Nat /\ Device'.Capacity <= Words
        /\ Device'.Offset + Device'.Size <= Device'.Capacity /\ Device'.Capacity \in Nat
    BY <1>1, <2>2, FruAssumption, PlacementAssumption, Limits DEF FruType
  <2>4. r.Offset < Device'.Size /\ r.Offset + r.Count <= Device'.Size
    BY <1>1, <2>1, <2>2, <2>3 DEF Refusal
  <2>5. offset' = Device'.Offset + r.Offset /\ offset' \in 0 .. Words - 1
    <3>1. Device'.Offset + r.Offset \in Nat /\ Device'.Offset + r.Offset < Words
      BY <1>1, <2>3, <2>4, Limits
    <3> QED
      BY <2>1, <2>2, <3>1, Widths, Limits
  <2>6. FruTypeOK'
    BY <1>1, <1>3, <2>1, <2>5, Limits DEF FruInv, FruTypeOK
  <2>7. TransferInv'
    BY <1>1, <1>3, <2>1, <2>2, <2>3, <2>4, <2>5 DEF TransferInv, Place
  <2>8. DataInv'
    BY <1>3, <2>1 DEF DataInv
  <2>9. AnswerInv' /\ OverrunNeedsLargeFru'
    BY <1>1, <1>2, <1>3, <2>1 DEF AnswerInv, NormalMeansAll, OverrunNeedsLargeFru, NoAnswer
  <2> QED
    BY <2>6, <2>7, <2>8, <2>9 DEF FruInv
<1> QED
  BY <1>4, <1>5, <1>6

\* After a chunk of n bytes the transfer is where its counters say.
LEMMA TransferStep ==
    ASSUME FruInv, pc = "transfer", UNCHANGED <<request, pc>>,
           NEW n \in 1 .. len, len' = len - n, done' = done + n, total' = done',
           len' > 0 => offset' = Device.Offset + request.Offset + done',
           request.Command = "read" => Len(data') = done'
    PROVE  TransferInv'
<1>1. request.Id \in DOMAIN Fru /\ request.Offset \in Nat /\ Device.Offset \in Nat
      /\ request.Offset + request.Count <= Device.Size
      /\ done + len = request.Count /\ done \in Nat /\ len \in Nat /\ n \in Nat
  BY Transferred, DeviceType
<1>2. request' = request /\ Device' = Device
  BY DEF Device
<1>3. Place(done + 1)' = Device.Offset + request.Offset + done'
  BY <1>1, <1>2 DEF Place
<1>4. done' + len' = request.Count /\ request.Count \in Nat
  BY <1>1
<1> QED
  BY <1>1, <1>2, <1>3, <1>4 DEF TransferInv

\* A chunk that is written.
LEMMA WriteStep ==
    ASSUME FruInv, WriteChunk
    PROVE  FruInv'
<1>1. pc = "transfer" /\ Supported /\ len > 0 /\ request.Command = "write"
      /\ Advance(Chunk) /\ UNCHANGED <<request, pc, unit, format, data, answer>>
  BY DEF WriteChunk, Transferring
<1>2. Chunk \in 1 .. len
  BY <1>1, Transferred, ChunkRange DEF FruInv
<1> HIDE DEF Chunk
<1>3. /\ len' = len - Chunk /\ len' \in 0 .. MaxCount
      /\ done' = done + Chunk /\ done' \in 0 .. MaxCount
      /\ total' = done' /\ total' \in 0 .. Bytes - 1
      /\ offset' \in 0 .. Words - 1
      /\ len' > 0 => offset' = Device.Offset + request.Offset + done'
  BY <1>1, <1>2, AdvanceStep
<1>4. FruTypeOK'
  BY <1>1, <1>3 DEF FruInv, FruTypeOK
<1>5. TransferInv'
  BY <1>1, <1>2, <1>3, TransferStep
<1>6. DataInv'
  BY <1>1, SameData
<1>7. AnswerInv' /\ OverrunNeedsLargeFru'
  BY <1>1, <1>2, <1>3, Transferred
  DEF FruInv, AnswerInv, NormalMeansAll, OverrunNeedsLargeFru, NoAnswer
<1> QED
  BY <1>4, <1>5, <1>6, <1>7 DEF FruInv

\* A chunk that is read, from an EEPROM or from the buffer of the VPD.
LEMMA ReadStep ==
    ASSUME FruInv, Transferring("read"), Advance(Chunk),
           NEW f \in [1 .. Chunk -> Contents], data' = data \o f,
           \A i \in 1 .. Chunk : f[i] # ZeroByte =>
               f[i].Unit = unit
               /\ f[i].Address = Device.Offset + request.Offset + done + i - 1,
           UNCHANGED <<request, pc, unit, format, answer>>
    PROVE  FruInv'
<1>1. pc = "transfer" /\ Supported /\ len > 0 /\ request.Command = "read"
  BY DEF Transferring
<1>2. Chunk \in 1 .. len
  BY <1>1, Transferred, ChunkRange DEF FruInv
<1>3. /\ len' = len - Chunk /\ len' \in 0 .. MaxCount
      /\ done' = done + Chunk /\ done' \in 0 .. MaxCount
      /\ total' = done' /\ total' \in 0 .. Bytes - 1
      /\ offset' \in 0 .. Words - 1
      /\ len' > 0 => offset' = Device.Offset + request.Offset + done'
  BY <1>1, <1>2, AdvanceStep
<1>4. data' \in Seq(Contents) /\ Len(data') = done + Chunk /\ DataInv'
  BY <1>1, <1>2, DataStep
<1>5. FruTypeOK'
  BY <1>1, <1>3, <1>4, FruAssumption DEF FruInv, FruTypeOK
<1>6. TransferInv'
  BY <1>1, <1>2, <1>3, <1>4, TransferStep
<1>7. AnswerInv' /\ OverrunNeedsLargeFru'
  <2>1. done' <= request'.Count /\ pc' = "transfer" /\ answer' = NoAnswer
    BY <1>1, <1>2, <1>3, Transferred DEF FruInv, AnswerInv
  <2> QED
    BY <2>1 DEF AnswerInv, NormalMeansAll, OverrunNeedsLargeFru, NoAnswer
<1> QED
  BY <1>4, <1>5, <1>6, <1>7 DEF FruInv

\* A read of the EEPROM returns the bytes that belong there.
LEMMA PlainStep ==
    ASSUME FruInv, ReadChunk
    PROVE  FruInv'
<1> DEFINE f == [i \in 1 .. Chunk |-> Byte(unit, ReadAddress(i - 1))]
<1>1. Transferring("read") /\ Advance(Chunk) /\ data' = data \o f
      /\ UNCHANGED <<request, pc, unit, format, answer>>
  BY DEF ReadChunk
<1>2. pc = "transfer" /\ Supported /\ len > 0
  BY <1>1 DEF Transferring
<1>3. Chunk \in 1 .. len
  BY <1>2, Transferred, ChunkRange DEF FruInv
<1>4. ASSUME NEW i \in 1 .. Chunk
      PROVE  ReadAddress(i - 1) = Device.Offset + request.Offset + done + i - 1
             /\ ReadAddress(i - 1) \in Nat
  <2>1. i - 1 \in Nat /\ i \in Nat /\ i <= len
    BY <1>3, Transferred, <1>2
  <2>2. offset = Device.Offset + request.Offset + done /\ offset \in Nat
        /\ offset + (i - 1) < Device.Capacity
    BY <1>2, <2>1, Transferred, DeviceType
  <2>3. ReadAddress(i - 1) = offset + (i - 1)
    BY <2>1, <2>2, ReadAddressIs, Transferred, <1>2
  <2> QED
    BY <1>2, <2>1, <2>2, <2>3, Transferred, DeviceType
<1>5. f \in [1 .. Chunk -> Contents]
  BY <1>2, <1>4, Transferred DEF Byte, Contents
<1>6. \A i \in 1 .. Chunk : f[i].Unit = unit
          /\ f[i].Address = Device.Offset + request.Offset + done + i - 1
  BY <1>4 DEF Byte
<1> HIDE DEF f
<1> QED
  BY <1>1, <1>5, <1>6, ReadStep

\* A read of the converted VPD returns the bytes that belong there, or zeros.
LEMMA VpdStep ==
    ASSUME FruInv, NEW ok \in BOOLEAN, ReadVpd(ok)
    PROVE  FruInv'
<1> DEFINE f == [i \in 1 .. Chunk |-> Converted(ok, offset + i - 1)]
<1>1. Transferring("read") /\ Advance(Chunk) /\ data' = data \o f
      /\ UNCHANGED <<request, pc, unit, format, answer>>
  BY DEF ReadVpd
<1>2. pc = "transfer" /\ Supported /\ len > 0
  BY <1>1 DEF Transferring
<1>3. Chunk \in 1 .. len
  BY <1>2, Transferred, ChunkRange DEF FruInv
<1>4. ASSUME NEW i \in 1 .. Chunk
      PROVE  offset + i - 1 = Device.Offset + request.Offset + done + i - 1
             /\ offset + i - 1 \in Nat
  BY <1>2, <1>3, Transferred, DeviceType
<1>5. f \in [1 .. Chunk -> Contents]
  BY <1>2, <1>4, Transferred DEF Converted, ZeroByte, Byte, Contents
<1>6. \A i \in 1 .. Chunk : f[i] # ZeroByte =>
          f[i].Unit = unit
          /\ f[i].Address = Device.Offset + request.Offset + done + i - 1
  BY <1>4 DEF Converted, Byte
<1> HIDE DEF f
<1> QED
  BY <1>1, <1>5, <1>6, ReadStep

\* The copy that leaves the buffer.
LEMMA OverrunStep ==
    ASSUME FruInv, OverrunVpd
    PROVE  FruInv'
<1>1. pc = "transfer" /\ Supported /\ len > 0 /\ ~InBuffer /\ pc' = "undefined"
      /\ UNCHANGED <<request, offset, len, done, total, mem, unit, format, data, answer>>
  BY DEF OverrunVpd, Transferring
<1>2. Chunk \in 1 .. len
  BY <1>1, Transferred, ChunkRange DEF FruInv
<1>3. offset + Chunk > MAX_VPD_SIZE_DELL + 1
  BY <1>1, <1>2, Transferred, FruAssumption DEF InBuffer
<1>4. Device.Offset + Device.Size > MAX_VPD_SIZE_DELL + 1
  <2>1. offset + Chunk <= Device.Offset + Device.Size
    BY <1>1, <1>2, Transferred, DeviceType
  <2> QED
    BY <1>1, <1>2, <1>3, <2>1, Transferred, DeviceType, FruAssumption
<1>5. OverrunNeedsLargeFru'
  BY <1>1, <1>4 DEF OverrunNeedsLargeFru, Device
<1>6. FruTypeOK'
  BY <1>1 DEF FruInv, FruTypeOK
<1>7. TransferInv' /\ AnswerInv'
  BY <1>1 DEF FruInv, TransferInv, AnswerInv, NormalMeansAll, NoAnswer
<1>8. DataInv'
  BY <1>1, SameData
<1> QED
  BY <1>5, <1>6, <1>7, <1>8 DEF FruInv

\* The answers.
LEMMA AnswerStep ==
    ASSUME FruInv, FailToWrite \/ Fail \/ Complete
    PROVE  FruInv'
<1>1. pc = "transfer" /\ pc' = "answered"
      /\ UNCHANGED <<request, offset, len, done, total, unit, format, data>>
  BY DEF FailToWrite, Fail, DataUnavailable, Transferring, Complete
<1>2. FruTypeOK' /\ TransferInv' /\ OverrunNeedsLargeFru'
  BY <1>1 DEF FruInv, FruTypeOK, TransferInv, OverrunNeedsLargeFru
<1>3. DataInv'
  BY <1>1, SameData
<1>4. AnswerInv'
  <2>1. CASE FailToWrite \/ Fail
    BY <1>1, <2>1
    DEF FruInv, FailToWrite, Fail, DataUnavailable, Answer, AnswerInv, NormalMeansAll
  <2>2. CASE Complete
    <3>1. len = 0 /\ answer' = Answer("CC_NORMAL", total)
      BY <2>2 DEF Complete
    <3>2. done = request.Count /\ total = done
          /\ (request.Command = "read" => Len(data) = done)
      BY <1>1, <3>1, Transferred DEF FruInv, TransferInv
    <3> QED
      BY <1>1, <3>1, <3>2 DEF FruInv, Answer, AnswerInv, NormalMeansAll
  <2> QED
    BY <2>1, <2>2
<1> QED
  BY <1>2, <1>3, <1>4 DEF FruInv

\* The answer is sent.
LEMMA ReturnStep ==
    ASSUME FruInv, Return
    PROVE  FruInv'
<1>1. pc' = "idle" /\ request' = NoRequest /\ data' = <<>> /\ answer' = NoAnswer
      /\ offset' = 0 /\ len' = 0 /\ done' = 0 /\ total' = 0 /\ UNCHANGED <<unit, format>>
  BY DEF Return
<1>2. 0 \in 0 .. MaxCount /\ 0 \in 0 .. Words - 1 /\ 0 \in 0 .. Bytes - 1
      /\ <<>> \in Seq(Contents) /\ Len(<<>>) = 0
  BY FruAssumption, Limits, EmptySeq
<1>3. NoRequest \in Request
  BY <1>2 DEF NoRequest, Request
<1>4. FruTypeOK'
  BY <1>1, <1>2, <1>3 DEF FruInv, FruTypeOK
<1>5. DataInv'
  BY <1>1, <1>2 DEF DataInv
<1>6. TransferInv' /\ AnswerInv' /\ OverrunNeedsLargeFru'
  BY <1>1
  DEF TransferInv, AnswerInv, NormalMeansAll, OverrunNeedsLargeFru, NoAnswer, NoRequest
<1> QED
  BY <1>4, <1>5, <1>6 DEF FruInv

\* A swap leaves all that was read to the units before.
LEMMA SwapStep ==
    ASSUME FruInv, SwapUnit
    PROVE  FruInv'
<1>1. unit' = unit + 1 /\ unit < MaxUnit /\ format' \in Format
      /\ UNCHANGED <<request, pc, offset, len, done, total, data, answer>>
  BY DEF SwapUnit
<1>2. unit \in Nat /\ MaxUnit \in Nat
  BY FruAssumption DEF FruInv, FruTypeOK
<1>3. FruTypeOK'
  BY <1>1, <1>2 DEF FruInv, FruTypeOK, Format
<1>4. DataInv'
  <2>1. \A k \in 1 .. Len(data) : data[k] \in Contents
    BY DEF FruInv, FruTypeOK
  <2>2. \A k \in 1 .. Len(data) : data[k] # ZeroByte =>
            data[k].Address = Place(k) /\ data[k].Unit <= unit
    BY DEF FruInv, DataInv
  <2>3. \A k \in 1 .. Len(data) : data[k] # ZeroByte => data[k].Unit <= unit + 1
    BY <1>2, <2>1, <2>2 DEF Contents
  <2> QED
    BY <1>1, <2>2, <2>3 DEF FruInv, DataInv, Place, Device, ZeroByte, Byte
<1>5. TransferInv' /\ AnswerInv' /\ OverrunNeedsLargeFru'
  BY <1>1
  DEF FruInv, TransferInv, AnswerInv, NormalMeansAll, OverrunNeedsLargeFru, Place, Device,
      NoAnswer
<1> QED
  BY <1>3, <1>4, <1>5 DEF FruInv

\* A step that leaves the transfer alone keeps the invariant.
LEMMA StutterStep ==
    ASSUME FruInv, UNCHANGED fruVars
    PROVE  FruInv'
BY DEF fruVars, FruInv, FruTypeOK, TransferInv, DataInv, AnswerInv, NormalMeansAll,
       OverrunNeedsLargeFru, Place, Device, ZeroByte, Byte, NoAnswer

\* The invariant holds in every reachable state.
LEMMA FruInvHolds == FruSpec => []FruInv
<1>1. FruInit => FruInv
  BY InitFru
<1>2. ASSUME FruInv, [FruNext]_fruVars PROVE FruInv'
  <2>1. ASSUME NEW r \in Asked, Refuse(r) \/ AcceptUnsupported(r) \/ Accept(r)
        PROVE  FruInv'
    <3>1. r \in Request
      BY FruAssumption, Limits DEF Request, Asked
    <3> QED
      BY <1>2, <2>1, <3>1, RequestStep
  <2>2. CASE WriteChunk
    BY <1>2, <2>2, WriteStep
  <2>3. CASE ReadChunk
    BY <1>2, <2>3, PlainStep
  <2>4. CASE \E ok \in BOOLEAN : ReadVpd(ok)
    BY <1>2, <2>4, VpdStep
  <2>5. CASE OverrunVpd
    BY <1>2, <2>5, OverrunStep
  <2>6. CASE FailToWrite \/ Fail \/ Complete
    BY <1>2, <2>6, AnswerStep
  <2>7. CASE Return
    BY <1>2, <2>7, ReturnStep
  <2>8. CASE SwapUnit
    BY <1>2, <2>8, SwapStep
  <2>9. CASE UNCHANGED fruVars
    BY <1>2, <2>9, StutterStep
  <2> QED
    BY <1>2, <2>1, <2>2, <2>3, <2>4, <2>5, <2>6, <2>7, <2>8, <2>9 DEF FruNext
<1> QED
  BY <1>1, <1>2, PTL DEF FruSpec

-----------------------------------------------------------------------------
(* The theorems.                                                           *)

\* The transfer's counters stay in their bytes and words.
THEOREM FruTypeCorrect == FruSpec => []FruTypeOK
<1>1. FruInv => FruTypeOK
  BY DEF FruInv
<1> QED
  BY <1>1, FruInvHolds, PTL

\* A command that is answered with success has transferred all that was asked
\* for, whatever the page size and wherever in a page it began.
THEOREM SuccessIsComplete == FruSpec => []NormalMeansAll
<1>1. FruInv => NormalMeansAll
  BY DEF FruInv, AnswerInv
<1> QED
  BY <1>1, FruInvHolds, PTL

\* The paged read puts every byte where it belongs and mixes units only in the
\* order in which they were plugged in.
THEOREM ReadsAreInOrder == FruSpec => []ReadIsInOrder
<1>1. ASSUME FruInv PROVE ReadIsInOrder
  <2>1. Len(data) \in Nat
    BY <1>1 DEF FruInv, FruTypeOK
  <2> QED
    BY <1>1, <2>1 DEF FruInv, DataInv, ReadIsInOrder
<1> QED
  BY <1>1, FruInvHolds, PTL

\* The range checks of the request keep the copy inside the VPD buffer for every
\* FRU that fits it.
THEOREM OverrunsNeedLargeFrus == FruSpec => []OverrunNeedsLargeFru
<1>1. FruInv => OverrunNeedsLargeFru
  BY DEF FruInv
<1> QED
  BY <1>1, FruInvHolds, PTL

-----------------------------------------------------------------------------
(* Writes.                                                                 *)

MemInv ==
    /\ pc = "idle" => mem = <<>>
    /\ pc = "transfer" => DOMAIN mem = 0 .. Device.Capacity - 1
    /\ WriteKeepsPlaces

\* A number is its page and its place in the page.
LEMMA Division ==
    ASSUME NEW a \in Nat, NEW b \in Nat \ {0}
    PROVE  (a \div b) * b + (a % b) = a
OBVIOUS

\* A chunk does not leave its page, so the EEPROM does not wrap.
LEMMA WriteAddressIs ==
    ASSUME FruInv, pc = "transfer", Supported, len > 0, NEW i \in 0 .. Chunk - 1
    PROVE  WriteAddress(i) = offset + i
<1> DEFINE p == Device.PageSize
           row == offset % p
<1>1. /\ p \in Nat \ {0} /\ offset \in Nat /\ len \in Nat
      /\ Device.Capacity \in Nat \ {0} /\ Bytes \in Nat
      /\ Device.ByteAddress => Device.Capacity <= Bytes
  BY Transferred, DeviceType, Limits DEF Supported
<1>2. Chunk \in 1 .. len
  BY Transferred, ChunkRange DEF FruInv
<1>3. offset < Device.Capacity
  BY <1>1, Transferred, DeviceType
<1>4. (IF Device.ByteAddress THEN INT8U(offset) ELSE offset) = offset
  BY <1>1, <1>3, Widths
<1>5. Address = offset
  BY <1>1, <1>3, <1>4, RemainderOfSmall DEF Address
<1>6. row \in 0 .. p - 1
  BY <1>1, Remainder
<1>7. Chunk = IF len + row > p THEN p - row ELSE len
  BY DEF Chunk
<1>8. WriteAddress(i) = (offset \div p) * p + ((row + i) % p)
  BY <1>5 DEF WriteAddress
<1>9. (offset \div p) * p + row = offset
  BY <1>1, Division
<1> DEFINE page == (offset \div p) * p
<1>10. i \in Nat /\ row + i < p /\ row \in Nat
  <2> HIDE DEF row, p
  <2> QED
    BY <1>1, <1>2, <1>6, <1>7
<1>11. (row + i) % p = row + i
  BY <1>1, <1>10, RemainderOfSmall
<1>12. page \in Int
  BY <1>1, <1>9
<1> HIDE DEF row, p, page
<1> QED
  BY <1>8, <1>9, <1>10, <1>11, <1>12 DEF page

\* The EEPROM with the first n bytes of a chunk holds the stretch of the request that
\* ends with them.
LEMMA WrittenStretch ==
    ASSUME FruInv, MemInv, Transferring("write"), NEW n \in 0 .. Chunk
    PROVE  /\ DOMAIN Written(n) = DOMAIN mem
           /\ \E first \in 1 .. done + 1 : \A a \in DOMAIN mem :
                 Written(n)[a] = IF a + 1 - Place(1) \in first .. done + n
                                 THEN a + 1 - Place(1) ELSE 0
<1>1. pc = "transfer" /\ Supported /\ len > 0 /\ request.Command = "write"
      /\ answer.Code # "CC_FRU_DATA_UNAVAILABLE"
  BY DEF Transferring, FruInv, AnswerInv, NoAnswer
<1>2. Chunk \in 1 .. len /\ Chunk \in Nat
  BY <1>1, Transferred, ChunkRange DEF FruInv
<1>2a. n \in Nat /\ n <= Chunk
  BY <1>2
<1>3. /\ done \in Nat /\ offset \in Nat /\ request.Offset \in Nat /\ Device.Offset \in Nat
      /\ offset = Device.Offset + request.Offset + done
      /\ request.Id \in DOMAIN Fru
      /\ DOMAIN mem = 0 .. Device.Capacity - 1 /\ Device.Capacity \in Nat
  BY <1>1, Transferred, DeviceType DEF MemInv
<1>4. Place(1) = Device.Offset + request.Offset
  BY <1>3 DEF Place
<1> DEFINE written == {WriteAddress(i) : i \in 0 .. n - 1}
           place(a) == CHOOSE i \in 0 .. n - 1 : WriteAddress(i) = a
<1>5. Written(n) = [a \in DOMAIN mem |-> IF a \in written THEN done + 1 + place(a) ELSE mem[a]]
  BY DEF Written
<1>6. \A i \in 0 .. n - 1 : WriteAddress(i) = offset + i
  BY <1>1, <1>2, <1>2a, WriteAddressIs
<1>7. \A a \in DOMAIN mem : a \in written <=> a - offset \in 0 .. n - 1
  BY <1>2a, <1>3, <1>6
<1>8. \A a \in written : place(a) = a - offset
  BY <1>2a, <1>3, <1>6
<1> HIDE DEF written, place
<1>9. \A a \in DOMAIN mem :
         Written(n)[a] = IF a - offset \in 0 .. n - 1 THEN done + 1 + (a - offset) ELSE mem[a]
  BY <1>5, <1>7, <1>8
<1>10. PICK first \in 1 .. done + 1 :
          \A a \in DOMAIN mem :
              mem[a] = IF a + 1 - Place(1) \in first .. done THEN a + 1 - Place(1) ELSE 0
  BY <1>1, <1>3, FruAssumption DEF MemInv, WriteKeepsPlaces
<1>11. \A a \in DOMAIN mem :
          Written(n)[a] = IF a + 1 - Place(1) \in first .. done + n
                          THEN a + 1 - Place(1) ELSE 0
  <2> SUFFICES ASSUME NEW a \in DOMAIN mem
               PROVE  Written(n)[a] = IF a + 1 - Place(1) \in first .. done + n
                                      THEN a + 1 - Place(1) ELSE 0
    OBVIOUS
  <2>1. a \in Int /\ first \in Nat /\ first <= done + 1
    BY <1>3
  <2>2. a - offset = (a + 1 - Place(1)) - (done + 1) /\ a + 1 - Place(1) \in Int
    BY <1>3, <1>4, <2>1
  <2>3. CASE a - offset \in 0 .. n - 1
    <3>1. Written(n)[a] = done + 1 + (a - offset)
      BY <1>9, <2>3
    <3>2. a + 1 - Place(1) = done + 1 + (a - offset)
      BY <1>3, <2>1, <2>2
    <3>3. a + 1 - Place(1) \in first .. done + n
      <4>1. ASSUME NEW i \in 0 .. n - 1
            PROVE  done + 1 + i \in first .. done + n
        BY <1>2a, <1>3, <2>1
      <4> QED
        BY <2>3, <3>2, <4>1
    <3> QED
      BY <3>1, <3>2, <3>3
  <2>4. CASE a - offset \notin 0 .. n - 1
    <3>1. Written(n)[a] = mem[a]
      BY <1>9, <2>4
    <3>2. a + 1 - Place(1) \in first .. done + n <=> a + 1 - Place(1) \in first .. done
      BY <1>2a, <1>3, <2>1, <2>2, <2>4
    <3> QED
      BY <1>10, <3>1, <3>2
  <2> QED
    BY <2>3, <2>4
<1> QED
  BY <1>5, <1>11

\* The EEPROM after a chunk.
LEMMA WrittenStep ==
    ASSUME FruInv, MemInv, WriteChunk
    PROVE  MemInv'
<1>1. pc = "transfer" /\ Transferring("write") /\ Advance(Chunk) /\ mem' = Written(Chunk)
      /\ Supported /\ len > 0 /\ UNCHANGED <<request, pc, answer>>
  BY DEF WriteChunk, Transferring
<1>2. Chunk \in 1 .. len /\ len \in Nat /\ Chunk \in 0 .. Chunk /\ Chunk \in Nat
      /\ done \in Nat /\ done' = done + Chunk /\ done + len = request.Count
      /\ done' <= request.Count /\ request.Count \in Nat
  BY <1>1, Transferred, ChunkRange DEF FruInv, Advance
<1>3. Place(1)' = Place(1) /\ Device' = Device
  BY <1>1 DEF Place, Device
<1> HIDE DEF Chunk
<1>4. DOMAIN mem' = DOMAIN mem
      /\ \E first \in 1 .. done + 1 : \A a \in DOMAIN mem' :
            mem'[a] = IF a + 1 - Place(1)' \in first .. done'
                      THEN a + 1 - Place(1)' ELSE 0
  BY <1>1, <1>2, <1>3, WrittenStretch
<1>5. 1 .. done + 1 \subseteq 1 .. done' + 1 /\ done' \in done' .. request'.Count
  BY <1>1, <1>2
<1>6. WriteKeepsPlaces'
  BY <1>4, <1>5 DEF WriteKeepsPlaces
<1> QED
  BY <1>1, <1>3, <1>4, <1>6 DEF MemInv

\* The EEPROM after a chunk that failed.
LEMMA FailedStep ==
    ASSUME FruInv, MemInv, FailToWrite
    PROVE  MemInv'
<1>1. PICK n \in 0 .. Chunk : mem' = Written(n)
  BY DEF FailToWrite
<1>2. Transferring("write") /\ pc = "transfer" /\ pc' = "answered"
      /\ Supported /\ len > 0 /\ UNCHANGED <<request, done>>
      /\ answer'.Code = "CC_FRU_DATA_UNAVAILABLE"
  BY DEF FailToWrite, Transferring, DataUnavailable, Answer
<1>3. Chunk \in 1 .. len /\ len \in Nat /\ done \in Nat /\ done + len = request.Count
  BY <1>2, Transferred, ChunkRange DEF FruInv
<1>4. Place(1)' = Place(1)
  BY <1>2 DEF Place, Device
<1> HIDE DEF Chunk
<1>5. \E first \in 1 .. done + 1 : \A a \in DOMAIN mem' :
            mem'[a] = IF a + 1 - Place(1)' \in first .. done + n
                      THEN a + 1 - Place(1)' ELSE 0
  BY <1>1, <1>2, <1>4, WrittenStretch
<1>6. done + n \in done' .. request'.Count
  BY <1>2, <1>3
<1>7. WriteKeepsPlaces'
  BY <1>2, <1>5, <1>6 DEF WriteKeepsPlaces
<1> QED
  BY <1>2, <1>7 DEF MemInv

\* Every step of a transfer keeps what is known of the contents of the device.
LEMMA MemStep ==
    ASSUME FruInv, MemInv, [FruNext]_fruVars
    PROVE  MemInv'
<1> USE DEF MemInv, WriteKeepsPlaces
<1>1. ASSUME NEW r \in Request, Refuse(r) \/ AcceptUnsupported(r) PROVE MemInv'
  <2>1. mem' = <<>> /\ pc' = "answered" /\ done' = 0 /\ request' = r
    BY <1>1 DEF Refuse, AcceptUnsupported, FruInv, AnswerInv
  <2>2. DOMAIN mem' = {} /\ pc' # "transfer"
    BY <2>1
  <2>3. 1 \in 1 .. done' + 1 /\ done' \in done' .. request'.Count
    BY <2>1, FruAssumption DEF Request
  <2>4. WriteKeepsPlaces'
    BY <2>2, <2>3
  <2> QED
    BY <2>1, <2>2, <2>4
<1>2. ASSUME NEW r \in Request, Accept(r) PROVE MemInv'
  <2>1. /\ pc' = "transfer" /\ mem' = Blank(r.Id) /\ done' = 0 /\ request' = r
        /\ Device' = Fru[r.Id]
    BY <1>2 DEF Accept, Device
  <2>2. DOMAIN mem' = 0 .. Device'.Capacity - 1
        /\ \A a \in DOMAIN mem' : a \in Int /\ mem'[a] = 0
    BY <2>1 DEF Blank
  <2>3. 1 \in 1 .. done' + 1 /\ 1 .. done' = {} /\ done' \in done' .. request'.Count
    BY <2>1, FruAssumption DEF Request
  <2>4. WriteKeepsPlaces'
    BY <2>2, <2>3
  <2> QED
    BY <2>1, <2>2, <2>4
<1>3. CASE WriteChunk
  BY <1>3, WrittenStep
<1>4. CASE ReadChunk
  BY <1>4 DEF ReadChunk, Transferring, Device
<1>5. ASSUME NEW ok \in BOOLEAN, ReadVpd(ok) PROVE MemInv'
  BY <1>5 DEF ReadVpd, Transferring, Device
<1>6. CASE OverrunVpd
  BY <1>6 DEF OverrunVpd, Device, Place
<1>7. CASE Fail \/ Complete
  <2>1. pc = "transfer" /\ pc' = "answered" /\ UNCHANGED <<request, done, mem>>
        /\ answer.Code # "CC_FRU_DATA_UNAVAILABLE"
    BY <1>7 DEF Fail, DataUnavailable, Complete, FruInv, AnswerInv, NoAnswer
  <2> QED
    BY <2>1 DEF Device, Place
<1>12. CASE FailToWrite
  BY <1>12, FailedStep
<1>8. CASE Return
  BY <1>8 DEF Return, NoRequest
<1>9. CASE SwapUnit
  <2>1. /\ mem' = [a \in DOMAIN mem |-> 0] /\ UNCHANGED <<request, pc, done, answer>>
        /\ Device' = Device
    BY <1>9 DEF SwapUnit, Device
  <2>2. DOMAIN mem' = DOMAIN mem /\ \A a \in DOMAIN mem' : mem'[a] = 0
    BY <2>1
  <2>3. done \in Nat /\ done + 1 \in 1 .. done' + 1 /\ done + 1 .. done' = {}
        /\ done' \in done' .. request'.Count
    BY <2>1, FruAssumption DEF FruInv, FruTypeOK, AnswerInv, Request
  <2>4. WriteKeepsPlaces'
    BY <2>2, <2>3
  <2>5. pc = "idle" => mem' = <<>>
    BY <2>1
  <2> QED
    BY <2>1, <2>2, <2>4, <2>5
<1>10. CASE UNCHANGED fruVars
  BY <1>10 DEF fruVars, Device, Place
<1>11. ASSUME NEW r \in Asked, Refuse(r) \/ AcceptUnsupported(r) \/ Accept(r)
       PROVE  MemInv'
  <2>1. r \in Request
    BY FruAssumption, Limits DEF Request, Asked
  <2> QED
    BY <1>1, <1>2, <1>11, <2>1
<1> QED
  BY <1>3, <1>4, <1>5, <1>6, <1>7, <1>8, <1>9, <1>10, <1>11, <1>12 DEF FruNext

\* A write, also one that fails in the middle, leaves a stretch of the request at
\* its place and the rest of the EEPROM as it was: no page wraps.
THEOREM WritesKeepPlaces == FruSpec => []WriteKeepsPlaces
<1>1. FruInit => MemInv
  BY DEF FruInit, MemInv, WriteKeepsPlaces, NoRequest
<1>2. FruInv /\ MemInv /\ [FruNext]_fruVars => MemInv'
  BY MemStep
<1>3. MemInv => WriteKeepsPlaces
  BY DEF MemInv
<1> QED
  BY <1>1, <1>2, <1>3, FruInvHolds, PTL DEF FruSpec
=============================================================================
