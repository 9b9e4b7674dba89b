----------------------------- MODULE MCFruAccess -----------------------------
(***************************************************************************)
(* Small EEPROMs: pages of four and of two bytes, FRUs that begin inside a *)
(* page, a TLV EEPROM whose FRU fits the VPD buffer and one whose FRU does *)
(* not, a device of an unknown type, and a FRU of an unsupported type.     *)
(***************************************************************************)
EXTENDS FruAccess

Eeprom(tlv, page, byte, capacity, start, size) ==
    [Type |-> FRU_TYPE_EEPROM, Tlv |-> tlv, PageSize |-> page,
     ByteAddress |-> byte, Capacity |-> capacity, Offset |-> start, Size |-> size]
MCFru ==
    [plain |-> Eeprom(FALSE, 4, FALSE, 12, 2, 9),
     small |-> Eeprom(FALSE, 2, TRUE, 8, 1, 7),
     tlv |-> Eeprom(TRUE, 4, FALSE, 12, 0, 8),
     long |-> Eeprom(TRUE, 4, FALSE, 12, 0, 11),
     other |-> Eeprom(FALSE, 0, FALSE, 8, 0, 2),
     odd |-> [Eeprom(FALSE, 4, FALSE, 8, 0, 2) EXCEPT !.Type = Unsupported]]
=============================================================================
