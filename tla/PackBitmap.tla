----------------------------- MODULE PackBitmap -----------------------------
(***************************************************************************)
(* The packet bitmap of the BLE link layer, Bluetooth_HWprotocol.c.        *)
(*                                                                         *)
(* The firmware keeps the packets it received in ucaRevPackN, one bit per  *)
(* packet, the most significant bit of a byte first, and the packets still *)
(* missing in ucaPackMsg[2..]: a length byte, a byte that says whether     *)
(* anything is missing, and the complemented bitmap without its trailing   *)
(* zero bytes.  Here a bitmap is the set of the packets whose bit is set,  *)
(* and Word is the number of bits of a byte (8 in the code).               *)
(***************************************************************************)
EXTENDS Naturals, FiniteSets

CONSTANT Word

ASSUME WordAssumption == Word \in Nat \ {0}

Upto(n) == 0 .. n-1

\* The greatest element of a non-empty set of naturals.
Top(S) == CHOOSE i \in S : \A j \in S : j <= i

\* ucaPackMsg[2..] as ble_transfer_init leaves it: every byte is zero.
NoReport == [len |-> 0, missing |-> {}]

\* What byte 3 says: something is missing.
BadIncomplete(report) == FALSE
Incomplete(report) == report.missing # {}

\* The length byte counts itself (byte 3, really) and the bytes of the map up
\* to the last one that is not zero.
ReportLen(missing) == IF missing = {} THEN 1 ELSE Top(missing) \div Word + 2

Report(missing) == [len |-> ReportLen(missing), missing |-> missing]

\* CheckExist: was this packet received before?
CheckExist(n, rev) == n \in rev

\* MarkPackNum: the bitmap with packet n, and the report of what is missing of
\* the total announced by the packet that was just marked.
MarkRev(n, rev) == rev \cup {n}
BadMarkMissing(total, rev) == Report(Upto(total))
MarkMissing(total, rev) == Report(Upto(total) \ rev)

\* NextExpPack: the packet number plus one if it is missing, otherwise zero.
NextExpPack(n, report) == IF n \in report.missing THEN n + 1 ELSE 0

\* all_packet_received(beginPos, packetCount, bitmap).  The bits of remByte are
\* "mask"; with a whole number of bytes the variable is never assigned, so its
\* value is arbitrary.
RemMasks(total) ==
  IF total % Word # 0 THEN {Upto(total % Word)} ELSE SUBSET Upto(Word)

BadAllPacketReceived(n, total, rev, mask) == n + 1 = total
AllPacketReceived(n, total, rev, mask) ==
  LET full == (total - 1) \div Word
      byte == n \div Word
      Bits(i) == {i * Word + j : j \in Upto(Word)}
  IN \/ n + 1 >= total
     \/ /\ \A i \in byte + 1 .. full - 1 : Bits(i) \subseteq rev
        /\ total % Word # 0 =>
             {full * Word + j : j \in Upto(total % Word)} \subseteq rev
        /\ {byte * Word + j : j \in mask} \subseteq rev
=============================================================================
