--------------------------- MODULE BleLink_proofs ---------------------------
(***************************************************************************)
(* Proofs about BleLink.  The first part is for every value of its         *)
(* constants: with any phone, any STM32, any number of packets lost,       *)
(* connections cut and stray packets.  The second is about an exchange     *)
(* between a phone that follows the protocol and answers in time and an    *)
(* STM32 that replies once to a command, over a connection that stays up:  *)
(* for every number of packets lost, every length of queue, every          *)
(* interleaving and all sizes that fit the widths of the code, the command *)
(* is handed over whole and the reply comes back whole.                    *)
(***************************************************************************)
EXTENDS BleLink, FiniteSetTheorems, WellFoundedInduction, TLAPS

\* What a 16-bit or 8-bit assignment leaves is in range.
LEMMA ModRange ==
  ASSUME NEW x \in Int, NEW n \in Nat \ {0}
  PROVE  x % n \in Upto(n) /\ x % n \in Nat
BY DEF Upto

\* A non-empty set of packet numbers has a greatest element, and Top is it.
LEMMA TopExists ==
  ASSUME NEW n \in Nat, NEW S \in SUBSET Upto(n), S # {}
  PROVE  Top(S) \in S /\ \A j \in S : j <= Top(S)
<1> DEFINE T == {n - i : i \in S}
<1>1. T \subseteq Nat /\ T # {}
  <2>1. ASSUME NEW i \in S PROVE n - i \in Nat
    BY <2>1 DEF Upto
  <2>2. PICK i \in S : TRUE
    OBVIOUS
  <2>. QED
    BY <2>1, <2>2
<1>2. PICK d \in T : \A e \in T : ~(<<e, d>> \in OpToRel(<, Nat))
  BY <1>1, WFMin, NatLessThanWellFounded
<1>3. \A e \in T : ~(e < d)
  BY <1>1, <1>2 DEF OpToRel
<1>4. PICK i \in S : d = n - i
  OBVIOUS
<1>5. \A j \in S : j <= i
  BY <1>3, <1>4 DEF Upto
<1>. QED
  BY <1>5 DEF Top

\* The list made from a bitmap is a list of naturals with a natural length.
LEMMA ReportType ==
  ASSUME NEW n \in Nat, NEW S \in SUBSET Upto(n)
  PROVE  Report(S) \in [len : Nat, missing : SUBSET Nat]
<1>1. S \subseteq Nat
  BY DEF Upto
<1>2. ReportLen(S) \in Nat
  <2>1. CASE S = {}
    BY <2>1 DEF ReportLen
  <2>2. CASE S # {}
    <3>1. Top(S) \in Nat
      BY <1>1, <2>2, TopExists
    <3>2. Top(S) \div Word \in Nat
      BY <3>1, WordAssumption
    <3>. QED
      BY <2>2, <3>2 DEF ReportLen
  <2>. QED
    BY <2>1, <2>2
<1>. QED
  BY <1>1, <1>2 DEF Report

\* The lists the firmware makes: of nothing, of what a bitmap lacks.
LEMMA ListTypes ==
  /\ NoReport \in [len : Nat, missing : SUBSET Nat]
  /\ \A k \in Nat : \A rev :
       /\ MarkMissing(k, rev) \in [len : Nat, missing : SUBSET Nat]
       /\ MarkMissing(k, rev).missing \cap rev = {}
<1>1. NoReport \in [len : Nat, missing : SUBSET Nat]
  BY DEF NoReport
<1>2. ASSUME NEW k \in Nat, NEW rev
      PROVE  /\ MarkMissing(k, rev) \in [len : Nat, missing : SUBSET Nat]
             /\ MarkMissing(k, rev).missing \cap rev = {}
  <2>1. Upto(k) \ rev \in SUBSET Upto(k)
    OBVIOUS
  <2>. QED
    BY <2>1, ReportType DEF MarkMissing, Report
<1>. QED
  BY <1>1, <1>2

-----------------------------------------------------------------------------
(* The inductive invariant.  While a reply is out the list belongs to the    *)
(* phone and may name anything, so ending a reply could leave a list that is *)
(* not true: every end clears the list or, in AbandonRest, finds that no     *)
(* packet came in since AbandonReply cleared the bitmap.                     *)

AbandonCleared == pc = "abandon" => SumPackNumber = 0 \/ ucaRevPackN = {}

IInv == TypeOK /\ ReportTruthful /\ AbandonCleared

\* A notification the SoftDevice takes is one the phone can read.
LEMMA NotifyType ==
  ASSUME hvn \in Seq(Notification), NEW x \in Notification, Notify(x)
  PROVE  hvn' \in Seq(Notification)
BY DEF Notify

\* A report is such a notification ...
LEMMA TellType ==
  ASSUME hvn \in Seq(Notification),
         NEW rep \in [len : Nat, missing : SUBSET Nat], TellMissed(rep)
  PROVE  hvn' \in Seq(Notification)
<1>1. [kind |-> "report", missing |-> rep.missing] \in Notification
  BY DEF Notification
<1>. QED
  BY <1>1, NotifyType DEF TellMissed

\* ... and so is a fragment of a reply.
LEMMA FragmentType ==
  ASSUME TypeOK, NEW num \in Int, NEW total \in Nat, NEW slot,
         Fragment(num, total, slot)
  PROVE  hvn' \in Seq(Notification)
<1> DEFINE tag == IF slot \in Upto(Slots) THEN g_apdu[slot] ELSE NoTag
<1>1. tag \in Tags
  BY DEF TypeOK, RxType, Tags
<1>2. [kind |-> "fragment", num |-> num, total |-> total, tag |-> tag]
        \in Notification
  BY <1>1 DEF Notification
<1>. QED
  BY <1>2, NotifyType DEF Fragment, TypeOK, EnvType

\* A reply has at least one fragment.
LEMMA FragmentsPositive ==
  ASSUME NEW len \in Nat
  PROVE  Fragments(len) \in Nat \ {0}
<1>1. Body \in Nat /\ First \in Nat
  BY LinkAssumption DEF First
<1>2. CASE len <= First
  BY <1>2 DEF Fragments
<1>3. CASE len > First
  <2> DEFINE sum == (len - First) \div Body + 1
  <2>1. sum \in Nat \ {0}
    BY <1>1, <1>3, LinkAssumption
  <2>2. Fragments(len) \in {sum, sum + 1}
    BY <1>1, <1>3 DEF Fragments
  <2>. QED
    BY <2>1, <2>2
<1>. QED
  BY <1>1, <1>2, <1>3

\* The state after reset satisfies the invariant.
LEMMA InitIInv == Init => IInv
<1> SUFFICES ASSUME Init PROVE IInv
  OBVIOUS
<1>1. 0 \in Upto(U8)
  BY LinkAssumption DEF Upto
<1>2. TypeOK
  <2>1. g_apdu \in [Upto(Slots) -> Tags]
    BY DEF Init, Tags
  <2>2. phone \in [msg : Msgs \cup {NoTag}, todo : SUBSET Upto(Slots),
                   lost : SUBSET Upto(Slots), got : SUBSET (Int \X Tags),
                   total : Nat, prompt : BOOLEAN]
    BY LinkAssumption DEF Init, Idle
  <2>3. hvn \in Seq(Notification)
    BY DEF Init
  <2>4. /\ MaxRetry \in Nat /\ MaxLoss \in Nat /\ MaxDown \in Nat
        /\ MaxStray \in Nat
    BY LinkAssumption
  <2>. QED
    <3>1. FlagType
      BY <2>4 DEF Init, FlagType
    <3>2. RxType
      BY <2>1 DEF Init, RxType
    <3>3. ListType
      BY <1>1, ListTypes DEF Init, ListType
    <3>4. TxType
      BY DEF Init, TxType
    <3>5. EnvType
      BY <2>2, <2>3, <2>4 DEF Init, EnvType
    <3>6. BoolType
      BY Zenon DEF Init, BoolType
    <3>. QED
      BY <3>1, <3>2, <3>3, <3>4, <3>5, <3>6 DEF TypeOK
<1>. QED
  BY <1>2 DEF Init, IInv, ReportTruthful, AbandonCleared, NoReport

\* The sizes the arithmetic divides by and reduces modulo are positive.
LEMMA Widths == {First, Body, U8, U16} \subseteq Nat \ {0}
BY LinkAssumption DEF First

-----------------------------------------------------------------------------
(* One step of the main loop.                                               *)

\* No step of the main loop breaks the invariant.
LEMMA MainLoopStep ==
  ASSUME IInv, MainLoop
  PROVE  IInv'
<1> USE DEF IInv, TypeOK, At, flow, rx, mark, redo, tx, env
<1>0. Wanted \in Nat
  BY DEF ListType, Wanted, NextExpPack, Upto
<1>1. ASSUME ResetWhenDown PROVE IInv'
  <2>1. FlagType'
    BY <1>1, LinkAssumption DEF ResetWhenDown, ForgetReply, ble_transfer_init,
                                FlagType
  <2>2. RxType'
    BY <1>1 DEF ResetWhenDown, ForgetReply, ble_transfer_init, RxType
  <2>3. ListType'
    BY <1>1, ListTypes DEF ResetWhenDown, ForgetReply, ble_transfer_init,
                           ListType
  <2>4. TxType'
    BY <1>1 DEF ResetWhenDown, ForgetReply, ble_transfer_init, TxType
  <2>5. ReportTruthful' /\ AbandonCleared'
    BY <1>1, ListTypes DEF ResetWhenDown, ForgetReply, ble_transfer_init,
                           ReportTruthful, AbandonCleared, NoReport
  <2>6. BoolType' /\ EnvType'
    BY <1>1 DEF ResetWhenDown, ForgetReply, ble_transfer_init, BoolType, EnvType
  <2>. QED
    BY <2>1, <2>2, <2>3, <2>4, <2>5, <2>6
<1>2. ASSUME TakeReply PROVE IInv'
  <2>1. FlagType'
    BY <1>2 DEF TakeReply, FlagType
  <2>2. TxType'
    BY <1>2 DEF TakeReply, TxType, RxType
  <2>3. BoolType' /\ RxType' /\ ListType' /\ EnvType' /\ ReportTruthful' /\
           AbandonCleared'
    BY <1>2 DEF TakeReply, BoolType, RxType, ListType, EnvType, ReportTruthful,
                AbandonCleared
  <2>. QED
    BY <2>1, <2>2, <2>3
<1>3. ASSUME HandOver PROVE IInv'
  <2>1. FlagType'
    BY <1>3, LinkAssumption DEF HandOver, ble_transfer_init, FlagType
  <2>2. RxType'
    <3>1. (g_apdu_length - 2) % U16 \in Nat
      BY Widths, ModRange DEF RxType
    <3>. QED
      BY <1>3, <3>1 DEF HandOver, ble_transfer_init, RxType
  <2>3. ListType'
    BY <1>3, ListTypes DEF HandOver, ble_transfer_init, ListType
  <2>4. ReportTruthful' /\ AbandonCleared'
    BY <1>3, ListTypes DEF HandOver, ble_transfer_init, ReportTruthful,
                           AbandonCleared, NoReport
  <2>5. BoolType' /\ TxType' /\ EnvType'
    BY <1>3 DEF HandOver, ble_transfer_init, BoolType, TxType, EnvType
  <2>. QED
    BY <2>1, <2>2, <2>3, <2>4, <2>5
<1>4. ASSUME ClearFinish PROVE IInv'
  <2>1. FlagType'
    BY <1>4 DEF ClearFinish, FlagType
  <2>2. RxType'
    BY <1>4 DEF ClearFinish, RxType
  <2>3. BoolType' /\ ListType' /\ TxType' /\ EnvType' /\ ReportTruthful' /\
           AbandonCleared'
    BY <1>4 DEF ClearFinish, BoolType, ListType, TxType, EnvType,
                ReportTruthful, AbandonCleared
  <2>. QED
    BY <2>1, <2>2, <2>3
<1>5. ASSUME NothingToHandOver PROVE IInv'
  <2>1. FlagType'
    BY <1>5 DEF NothingToHandOver, FlagType
  <2>2. BoolType' /\ RxType' /\ ListType' /\ TxType' /\ EnvType' /\
           ReportTruthful' /\ AbandonCleared'
    BY <1>5 DEF NothingToHandOver, BoolType, RxType, ListType, TxType, EnvType,
                ReportTruthful, AbandonCleared
  <2>. QED
    BY <2>1, <2>2
<1>6. ASSUME SendSingle PROVE IInv'
  <2>1. FlagType'
    BY <1>6 DEF SendSingle, FlagType
  <2>2. TxType'
    BY <1>6 DEF SendSingle, TxType
  <2>3. EnvType'
    <3>1. hvn' \in Seq(Notification)
      BY <1>6, FragmentType DEF SendSingle
    <3>. QED
      BY <1>6, <3>1 DEF SendSingle, EnvType
  <2>4. ReportTruthful' /\ AbandonCleared'
    BY <1>6 DEF SendSingle, ReportTruthful, AbandonCleared
  <2>5. BoolType' /\ RxType' /\ ListType'
    BY <1>6 DEF SendSingle, BoolType, RxType, ListType
  <2>. QED
    BY <2>1, <2>2, <2>3, <2>4, <2>5
<1>7. ASSUME SendFirst PROVE IInv'
  <2>1. FlagType'
    BY <1>7 DEF SendFirst, FlagType
  <2>2. TxType'
    BY <1>7, FragmentsPositive DEF SendFirst, TxType
  <2>3. EnvType'
    <3>1. hvn' \in Seq(Notification)
      BY <1>7, FragmentType, FragmentsPositive DEF SendFirst, TxType
    <3>. QED
      BY <1>7, <3>1 DEF SendFirst, EnvType
  <2>4. ReportTruthful' /\ AbandonCleared'
    BY <1>7, FragmentsPositive DEF SendFirst, ReportTruthful, AbandonCleared,
                                   TxType
  <2>5. BoolType' /\ RxType' /\ ListType'
    BY <1>7 DEF SendFirst, BoolType, RxType, ListType
  <2>. QED
    BY <2>1, <2>2, <2>3, <2>4, <2>5
<1>8. ASSUME SendNext PROVE IInv'
  <2>1. FlagType'
    BY <1>8 DEF SendNext, FlagType
  <2>2. TxType'
    BY <1>8, FragmentsPositive DEF SendNext, TxType
  <2>3. EnvType'
    <3>1. NextNumber \in Int
      BY Widths DEF TxType, NextNumber
    <3>2. NextNumber % U8 \in Nat
      BY <3>1, Widths, ModRange
    <3>3. hvn' \in Seq(Notification)
      BY <1>8, <3>2, FragmentType, FragmentsPositive DEF SendNext, TxType
    <3>. QED
      BY <1>8, <3>1, <3>2, <3>3 DEF SendNext, EnvType
  <2>4. ReportTruthful' /\ AbandonCleared'
    BY <1>8, FragmentsPositive DEF SendNext, ReportTruthful, AbandonCleared,
                                   TxType
  <2>5. BoolType' /\ RxType' /\ ListType'
    BY <1>8 DEF SendNext, BoolType, RxType, ListType
  <2>. QED
    BY <2>1, <2>2, <2>3, <2>4, <2>5
<1>9. ASSUME FirstSent PROVE IInv'
  <2>1. FlagType'
    BY <1>9 DEF FirstSent, FlagType
  <2>2. TxType'
    BY <1>9, Widths DEF FirstSent, TxType
  <2>3. BoolType' /\ RxType' /\ ListType' /\ EnvType' /\ ReportTruthful' /\
           AbandonCleared'
    BY <1>9 DEF FirstSent, BoolType, RxType, ListType, EnvType, ReportTruthful,
                AbandonCleared
  <2>. QED
    BY <2>1, <2>2, <2>3
<1>10. ASSUME NextSent PROVE IInv'
  <2>1. FlagType'
    BY <1>10 DEF NextSent, FlagType
  <2>2. TxType'
    <3>1. Sendlenth + Body \in Int
      BY Widths DEF TxType
    <3>2. NextOffset \in Nat
      BY <3>1, Widths, ModRange DEF NextOffset
    <3>. QED
      BY <1>10, <3>1, <3>2 DEF NextSent, TxType
  <2>3. BoolType' /\ RxType' /\ ListType' /\ EnvType' /\ ReportTruthful' /\
           AbandonCleared'
    BY <1>10 DEF NextSent, BoolType, RxType, ListType, EnvType, ReportTruthful,
                 AbandonCleared
  <2>. QED
    BY <2>1, <2>2, <2>3
<1>11. ASSUME LastSent PROVE IInv'
  <2>1. FlagType'
    BY <1>11 DEF LastSent, TP_START, FlagType
  <2>2. TxType'
    BY <1>11 DEF LastSent, TP_START, TxType
  <2>3. BoolType' /\ RxType' /\ ListType' /\ EnvType' /\ ReportTruthful' /\
           AbandonCleared'
    BY <1>11 DEF LastSent, TP_START, BoolType, RxType, ListType, EnvType,
                 ReportTruthful, AbandonCleared
  <2>. QED
    BY <2>1, <2>2, <2>3
<1>12. ASSUME NothingToSend PROVE IInv'
  <2>1. FlagType'
    BY <1>12 DEF NothingToSend, FlagType
  <2>2. BoolType' /\ RxType' /\ ListType' /\ TxType' /\ EnvType' /\
           ReportTruthful' /\ AbandonCleared'
    BY <1>12 DEF NothingToSend, BoolType, RxType, ListType, TxType, EnvType,
                 ReportTruthful, AbandonCleared
  <2>. QED
    BY <2>1, <2>2
<1>13. ASSUME ReSendNotification PROVE IInv'
  <2>1. FlagType'
    BY <1>13 DEF ReSendNotification, FlagType
  <2>2. ListType'
    BY <1>13, <1>0 DEF ReSendNotification, ListType
  <2>3. EnvType'
    <3>1. hvn' \in Seq(Notification)
      BY <1>0, <1>13, FragmentType DEF ReSendNotification, EnvType, TxType
    <3>. QED
      BY <1>13, <3>1 DEF ReSendNotification, EnvType
  <2>4. BoolType' /\ RxType' /\ TxType' /\ ReportTruthful' /\ AbandonCleared'
    BY <1>13 DEF ReSendNotification, BoolType, RxType, TxType, ReportTruthful,
                 AbandonCleared
  <2>. QED
    BY <2>1, <2>2, <2>3, <2>4
<1>14. ASSUME Resent PROVE IInv'
  <2>1. FlagType'
    BY <1>14 DEF Resent, TP_START, FlagType
  <2>2. ListType'
    <3>1. remberPackn + 1 \in Int /\ 0 \in Upto(U8)
      BY Widths DEF ListType, Upto
    <3>2. (remberPackn + 1) % U8 \in Upto(U8)
      BY <3>1, Widths, ModRange
    <3>. QED
      BY <1>14, <3>1, <3>2 DEF Resent, TP_START, ListType
  <2>3. BoolType' /\ RxType' /\ TxType' /\ EnvType' /\ ReportTruthful' /\
           AbandonCleared'
    BY <1>14 DEF Resent, TP_START, BoolType, RxType, TxType, EnvType,
                 ReportTruthful, AbandonCleared
  <2>. QED
    BY <2>1, <2>2, <2>3
<1>15. ASSUME NothingToResend PROVE IInv'
  <2>1. FlagType'
    BY <1>15 DEF NothingToResend, FlagType
  <2>2. BoolType' /\ RxType' /\ ListType' /\ TxType' /\ EnvType' /\
           ReportTruthful' /\ AbandonCleared'
    BY <1>15 DEF NothingToResend, BoolType, RxType, ListType, TxType, EnvType,
                 ReportTruthful, AbandonCleared
  <2>. QED
    BY <2>1, <2>2
<1>16. ASSUME NotExpired PROVE IInv'
  <2>1. FlagType'
    BY <1>16 DEF NotExpired, FlagType
  <2>2. BoolType' /\ RxType' /\ ListType' /\ TxType' /\ EnvType' /\
           ReportTruthful' /\ AbandonCleared'
    BY <1>16 DEF NotExpired, BoolType, RxType, ListType, TxType, EnvType,
                 ReportTruthful, AbandonCleared
  <2>. QED
    BY <2>1, <2>2
<1>17. ASSUME AskMissing PROVE IInv'
  <2>1. FlagType'
    BY <1>17, LinkAssumption DEF AskMissing, FlagType, RetriesLeft
  <2>2. EnvType'
    <3>1. hvn' \in Seq(Notification)
      BY <1>17, TellType DEF AskMissing, ListType, EnvType
    <3>. QED
      BY <1>17, <3>1 DEF AskMissing, EnvType
  <2>3. BoolType' /\ RxType' /\ ListType' /\ TxType' /\ ReportTruthful' /\
           AbandonCleared'
    BY <1>17 DEF AskMissing, BoolType, RxType, ListType, TxType, ReportTruthful,
                 AbandonCleared
  <2>. QED
    BY <2>1, <2>2, <2>3
<1>18. ASSUME DropCommand PROVE IInv'
  <2>1. FlagType'
    BY <1>18, LinkAssumption DEF DropCommand, ble_transfer_init, TP_CLOSE,
                                 FlagType
  <2>2. RxType'
    BY <1>18 DEF DropCommand, ble_transfer_init, TP_CLOSE, RxType
  <2>3. ListType'
    BY <1>18, ListTypes DEF DropCommand, ble_transfer_init, TP_CLOSE, ListType
  <2>4. ReportTruthful' /\ AbandonCleared'
    BY <1>18, ListTypes DEF DropCommand, ble_transfer_init, TP_CLOSE,
                            ReportTruthful, AbandonCleared, NoReport
  <2>5. BoolType' /\ TxType' /\ EnvType'
    BY <1>18 DEF DropCommand, ble_transfer_init, TP_CLOSE, BoolType, TxType,
                 EnvType
  <2>. QED
    BY <2>1, <2>2, <2>3, <2>4, <2>5
<1>19. ASSUME DropRest PROVE IInv'
  <2>1. FlagType'
    BY <1>19 DEF DropRest, FlagType
  <2>2. RxType'
    BY <1>19 DEF DropRest, RxType
  <2>3. TxType'
    BY <1>19 DEF DropRest, TxType
  <2>4. BoolType' /\ ListType' /\ EnvType' /\ ReportTruthful' /\ AbandonCleared'
    BY <1>19 DEF DropRest, BoolType, ListType, EnvType, ReportTruthful,
                 AbandonCleared
  <2>. QED
    BY <2>1, <2>2, <2>3, <2>4
<1>20. ASSUME WaitAgain PROVE IInv'
  <2>1. FlagType'
    BY <1>20, LinkAssumption DEF WaitAgain, TP_START, FlagType, RetriesLeft
  <2>2. BoolType' /\ RxType' /\ ListType' /\ TxType' /\ EnvType' /\
           ReportTruthful' /\ AbandonCleared'
    BY <1>20 DEF WaitAgain, TP_START, BoolType, RxType, ListType, TxType,
                 EnvType, ReportTruthful, AbandonCleared
  <2>. QED
    BY <2>1, <2>2
<1>21. ASSUME AbandonReply PROVE IInv'
  <2>1. FlagType'
    BY <1>21, LinkAssumption DEF AbandonReply, ble_transfer_init, TP_CLOSE,
                                 FlagType
  <2>2. RxType'
    BY <1>21 DEF AbandonReply, ble_transfer_init, TP_CLOSE, RxType
  <2>3. ListType'
    BY <1>21, ListTypes DEF AbandonReply, ble_transfer_init, TP_CLOSE, ListType
  <2>4. ReportTruthful' /\ AbandonCleared'
    BY <1>21, ListTypes DEF AbandonReply, ble_transfer_init, TP_CLOSE,
                            ReportTruthful, AbandonCleared, NoReport
  <2>5. BoolType' /\ TxType' /\ EnvType'
    BY <1>21 DEF AbandonReply, ble_transfer_init, TP_CLOSE, BoolType, TxType,
                 EnvType
  <2>. QED
    BY <2>1, <2>2, <2>3, <2>4, <2>5
<1>22. ASSUME AbandonRest PROVE IInv'
  <2>1. FlagType'
    BY <1>22 DEF AbandonRest, ForgetReply, FlagType
  <2>2. TxType'
    BY <1>22 DEF AbandonRest, ForgetReply, TxType
  <2>3. ReportTruthful' /\ AbandonCleared'
    BY <1>22 DEF AbandonRest, ForgetReply, ReportTruthful, AbandonCleared
  <2>4. BoolType' /\ RxType' /\ ListType' /\ EnvType'
    BY <1>22 DEF AbandonRest, ForgetReply, BoolType, RxType, ListType, EnvType
  <2>. QED
    BY <2>1, <2>2, <2>3, <2>4
<1>23. ASSUME BleCmdProcess PROVE IInv'
  <2>1. BoolType'
    BY <1>23, Zenon DEF BleCmdProcess, BoolType
  <2>2. FlagType'
    BY <1>23 DEF BleCmdProcess, FlagType, Send_bluetoothdata
  <2>3. RxType'
    BY <1>23, LinkAssumption DEF BleCmdProcess, RxType, Send_bluetoothdata, Tags
  <2>4. ListType' /\ TxType' /\ EnvType' /\ ReportTruthful' /\ AbandonCleared'
    BY <1>23 DEF BleCmdProcess, ListType, TxType, EnvType, ReportTruthful,
                 AbandonCleared
  <2>. QED
    BY <2>1, <2>2, <2>3, <2>4
<1>24. ASSUME UartIdle PROVE IInv'
  <2>1. FlagType'
    BY <1>24 DEF UartIdle, FlagType
  <2>2. BoolType' /\ RxType' /\ ListType' /\ TxType' /\ EnvType' /\
           ReportTruthful' /\ AbandonCleared'
    BY <1>24 DEF UartIdle, BoolType, RxType, ListType, TxType, EnvType,
                 ReportTruthful, AbandonCleared
  <2>. QED
    BY <2>1, <2>2
<1>25. ASSUME Uart_cmdprogam PROVE IInv'
  <2>1. BoolType'
    BY <1>25, Zenon DEF Uart_cmdprogam, BoolType
  <2>2. FlagType'
    BY <1>25 DEF Uart_cmdprogam, FlagType, Send_bluetoothdata
  <2>3. RxType'
    BY <1>25, LinkAssumption DEF Uart_cmdprogam, RxType, Send_bluetoothdata,
                                 Tags
  <2>4. ListType' /\ TxType' /\ EnvType' /\ ReportTruthful' /\ AbandonCleared'
    BY <1>25 DEF Uart_cmdprogam, ListType, TxType, EnvType, ReportTruthful,
                 AbandonCleared
  <2>. QED
    BY <2>1, <2>2, <2>3, <2>4
<1>. QED
  BY <1>1, <1>2, <1>3, <1>4, <1>5, <1>6, <1>7, <1>8, <1>9, <1>10, <1>11, <1>12,
     <1>13, <1>14, <1>15, <1>16, <1>17, <1>18, <1>19, <1>20, <1>21, <1>22,
     <1>23, <1>24, <1>25 DEF MainLoop

-----------------------------------------------------------------------------
(* One interrupt.  Three actions of the environment carry a packet and two   *)
(* an acknowledgement, so what these do is stated once.                      *)

LinkOK ==
  /\ FlagType /\ RxType /\ ListType /\ TxType /\ ReportTruthful /\
           AbandonCleared
  /\ hvn \in Seq(Notification) /\ connected \in BOOLEAN

\* The packets of a command are counted and measured in whole numbers.
LEMMA PacketBytesType ==
  ASSUME NEW m \in Msgs, NEW n \in Upto(Slots)
  PROVE  Packets(m) \in Nat /\ PacketBytes(m, n) \in Int
<1>1. Size[m] \in Int /\ Body \in Int /\ n \in Int
  BY LinkAssumption DEF Upto
<1>2. Packets(m) \in Nat
  BY LinkAssumption
<1>. QED
  BY <1>1, <1>2 DEF PacketBytes

\* A data packet, dropped, repeated or stored.
LEMMA PacketStep ==
  ASSUME IInv, NEW m \in Msgs, NEW n \in Upto(Slots), NEW bytes \in Int,
         PacketArrives(m, n, bytes)
  PROVE  LinkOK'
<1> USE DEF IInv, TypeOK, flow, rx, redo, mark, tx
<1>1. CASE PacketDropped(n, bytes)
  <2>1. FlagType'
    BY <1>1, LinkAssumption DEF PacketArrives, PacketDropped, TP_CLOSE, FlagType
  <2>2. RxType' /\ ListType' /\ TxType' /\ ReportTruthful' /\ AbandonCleared'
    BY <1>1 DEF PacketArrives, PacketDropped, RxType, ListType, TxType,
                ReportTruthful, AbandonCleared
  <2>3. hvn' \in Seq(Notification) /\ connected' \in BOOLEAN
    BY <1>1 DEF PacketArrives, PacketDropped, EnvType, BoolType
  <2>. QED
    BY <2>1, <2>2, <2>3 DEF LinkOK
<1>2. CASE PacketRepeated(n, bytes)
  <2>1. FlagType'
    BY <1>2, LinkAssumption DEF PacketArrives, PacketRepeated, TP_START,
                                FlagType
  <2>2. RxType' /\ ListType' /\ TxType' /\ ReportTruthful' /\ AbandonCleared'
    BY <1>2 DEF PacketArrives, PacketRepeated, RxType, ListType, TxType,
                ReportTruthful, AbandonCleared
  <2>3. hvn' \in Seq(Notification) /\ connected' \in BOOLEAN
    BY <1>2 DEF PacketArrives, PacketRepeated, EnvType, BoolType
  <2>. QED
    BY <2>1, <2>2, <2>3 DEF LinkOK
<1>3. CASE PacketStored(m, n, Packets(m), bytes)
  <2> DEFINE rev == MarkRev(n, ucaRevPackN)
             report == MarkMissing(Packets(m), rev)
             counted == IF Apdufinsh = 0 THEN bytes ELSE g_apdu_length + bytes
  <2>1. PICK last \in BOOLEAN :
          \/ /\ ~last
             /\ Apdufinsh' = (IF Apdufinsh = 0 THEN 2 ELSE Apdufinsh)
             /\ TP_START /\ ucReTry' = 0 /\ UNCHANGED hvn
          \/ /\ last /\ Apdufinsh' = 1 /\ TP_CLOSE /\ ucReTry' = 0
             /\ UNCHANGED hvn
          \/ /\ last /\ Apdufinsh' = (IF Apdufinsh = 0 THEN 2 ELSE Apdufinsh)
             /\ TP_CLOSE /\ ucReTry' = 1 /\ TellMissed(report)
    BY <1>3 DEF PacketStored
  <2>2. report \in [len : Nat, missing : SUBSET Nat] /\ report.missing \cap rev
           = {}
    BY PacketBytesType, ListTypes
  <2>3. /\ Recivedataflag' = 1 /\ g_apdu' = [g_apdu EXCEPT ![n] = m]
        /\ ucaRevPackN' = rev /\ ucaPackMsg' = report
        /\ g_apdu_length' = counted % U16 /\ SumPackNumber = 0
    BY <1>3 DEF PacketStored
  <2>4. UNCHANGED <<connected, blueRecivSendflag, uart_waitack_flag, ucResend,
                    remberPackn, ucExpPackN_, SumPackNumber, Sendlenth, lr, pc>>
    BY DEF PacketArrives
  <2>5. FlagType'
    BY <2>1, <2>3, <2>4, LinkAssumption DEF FlagType, TP_START, TP_CLOSE
  <2>6. RxType'
    <3>1. counted \in Int
      BY DEF RxType
    <3>2. counted % U16 \in Nat
      BY <3>1, Widths, ModRange
    <3>3. rev \subseteq Upto(Slots)
      BY DEF RxType, MarkRev
    <3>4. Apdufinsh' \in {0, 1, 2}
      BY <2>1 DEF RxType
    <3>. QED
      BY <2>3, <3>2, <3>3, <3>4 DEF RxType, Tags
  <2>7. ListType' /\ TxType'
    BY <2>2, <2>3, <2>4 DEF ListType, TxType
  <2>8. ReportTruthful' /\ AbandonCleared'
    BY <2>2, <2>3, <2>4 DEF ReportTruthful, AbandonCleared
  <2>9. hvn' \in Seq(Notification)
    BY <2>1, <2>2, TellType DEF EnvType
  <2>10. connected' \in BOOLEAN
    BY <2>4 DEF BoolType
  <2>. QED
    BY <2>5, <2>6, <2>7, <2>8, <2>9, <2>10 DEF LinkOK
<1>. QED
  BY <1>1, <1>2, <1>3 DEF PacketArrives

\* An acknowledgement, wanted or not.
LEMMA AckStep ==
  ASSUME IInv, AckArrives
  PROVE  LinkOK'
<1> USE DEF IInv, TypeOK, AckArrives, redo, mark, tx
<1>1. FlagType'
  BY LinkAssumption DEF FlagType, TP_CLOSE
<1>2. RxType' /\ TxType'
  BY DEF RxType, TxType, ForgetReply
<1>3. ListType'
  BY ListTypes DEF ListType
<1>4. ReportTruthful' /\ AbandonCleared'
  BY DEF ReportTruthful, AbandonCleared, ForgetReply
<1>5. hvn' \in Seq(Notification) /\ connected' \in BOOLEAN
  BY DEF EnvType, BoolType
<1>. QED
  BY <1>1, <1>2, <1>3, <1>4, <1>5 DEF LinkOK

\* A list of missing fragments.
LEMMA ResendStep ==
  ASSUME IInv, NEW missing,
         Report(missing) \in [len : Nat, missing : SUBSET Nat],
         ResendArrives(missing)
  PROVE  LinkOK'
<1> USE DEF IInv, TypeOK, ResendArrives, flow, rx, mark, tx
<1>1. FlagType'
  BY LinkAssumption DEF FlagType, TP_CLOSE
<1>2. RxType' /\ TxType'
  BY DEF RxType, TxType
<1>3. ListType'
  BY DEF ListType
<1>4. ReportTruthful' /\ AbandonCleared'
  BY DEF ReportTruthful, AbandonCleared
<1>5. hvn' \in Seq(Notification) /\ connected' \in BOOLEAN
  BY DEF EnvType, BoolType
<1>. QED
  BY <1>1, <1>2, <1>3, <1>4, <1>5 DEF LinkOK

-----------------------------------------------------------------------------
(* One step of the environment.                                             *)

PhoneRecord == [msg : Msgs \cup {NoTag}, todo : SUBSET Upto(Slots),
                lost : SUBSET Upto(Slots), got : SUBSET (Int \X Tags),
                total : Nat, prompt : BOOLEAN]

\* The phone that follows the protocol.
LEMMA PhoneStep ==
  ASSUME IInv, Phone
  PROVE  IInv'
<1> USE DEF IInv, TypeOK
<1>1. ASSUME NEW n \in Upto(Slots), PhoneSends(n) PROVE IInv'
  <2>1. phone.msg \in Msgs
    BY <1>1 DEF PhoneSends, Asking, EnvType
  <2>2. PacketBytes(phone.msg, n) \in Int
    BY <2>1, PacketBytesType
  <2>3. LinkOK'
    BY <1>1, <2>1, <2>2, PacketStep DEF PhoneSends
  <2>4. phone' \in PhoneRecord
    BY <1>1 DEF PhoneSends, EnvType, PhoneRecord
  <2>. QED
    BY <1>1, <2>3, <2>4 DEF PhoneSends, LinkOK, EnvType, BoolType, PhoneRecord
<1>2. ASSUME PhoneReads PROVE IInv'
  <2>1. UNCHANGED <<flow, Recivedataflag, rx, ucaPackMsg, ucReTry, T_Connect,
                    redo, tx, pc, owed, downs, strays, losses>>
    BY <1>2 DEF PhoneReads, PhoneOnly
  <2>2. FlagType' /\ RxType' /\ ListType' /\ TxType' /\ BoolType'
          /\ ReportTruthful' /\ AbandonCleared'
    BY <2>1 DEF FlagType, RxType, ListType, TxType, BoolType, 
                ReportTruthful, AbandonCleared, flow, rx, redo, mark, tx
  <2>3. hvn' \in Seq(Notification) /\ Head(hvn) \in Notification
    BY <1>2 DEF PhoneReads, EnvType
  <2>4. phone' \in PhoneRecord
    <3> DEFINE x == Head(hvn)
               again == IF Polite THEN x.missing \cap phone.lost
                        ELSE x.missing \cap Upto(Packets(phone.msg))
    <3>1. CASE x.kind = "fragment"
      <4>1. x.num \in Int /\ x.total \in Nat /\ x.tag \in Tags
        BY <2>3, <3>1 DEF Notification
      <4>2. phone' = [phone EXCEPT !.got = @ \cup {<<x.num, x.tag>>},
                                   !.total = x.total]
        BY <1>2, <3>1 DEF PhoneReads
      <4>3. phone.got \cup {<<x.num, x.tag>>} \in SUBSET (Int \X Tags)
        BY <4>1 DEF EnvType
      <4>. QED
        BY <4>1, <4>2, <4>3 DEF EnvType, PhoneRecord
    <3>2. CASE x.kind # "fragment" /\ Asking
      <4>1. Upto(Packets(phone.msg)) \subseteq Upto(Slots)
        BY <3>2, LinkAssumption DEF Asking, EnvType, Upto
      <4>2. again \subseteq Upto(Slots)
        BY <4>1 DEF EnvType
      <4>3. phone' = [phone EXCEPT !.todo = @ \cup again, !.lost = @ \ again]
        BY <1>2, <3>2 DEF PhoneReads
      <4>. QED
        BY <4>2, <4>3 DEF EnvType, PhoneRecord
    <3>3. CASE x.kind # "fragment" /\ ~Asking
      BY <1>2, <3>3 DEF PhoneReads, EnvType, PhoneRecord
    <3>. QED
      BY <3>1, <3>2, <3>3
  <2>5. EnvType'
    BY <2>1, <2>3, <2>4 DEF EnvType, PhoneRecord
  <2>. QED
    BY <2>2, <2>5
<1>3. ASSUME PhoneAcks PROVE IInv'
  <2>1. LinkOK'
    BY <1>3, AckStep DEF PhoneAcks
  <2>2. phone' \in PhoneRecord
    BY <1>3 DEF PhoneAcks, Idle, EnvType, PhoneRecord
  <2>. QED
    BY <1>3, <2>1, <2>2 DEF PhoneAcks, LinkOK, EnvType, BoolType, PhoneRecord
<1>4. ASSUME PhoneAsks PROVE IInv'
  <2> DEFINE missing == Upto(phone.total) \ {f[1] : f \in phone.got}
  <2>1. phone.total \in Nat /\ missing \in SUBSET Upto(phone.total)
    BY DEF EnvType
  <2>2. Report(missing) \in [len : Nat, missing : SUBSET Nat]
    BY <2>1, ReportType
  <2>3. LinkOK'
    BY <1>4, <2>2, ResendStep DEF PhoneAsks
  <2>. QED
    BY <1>4, <2>3 DEF PhoneAsks, env, LinkOK, EnvType, BoolType
<1>. QED
  BY <1>1, <1>2, <1>3, <1>4 DEF Phone

\* Everything else that may happen.
LEMMA EnvironmentStep ==
  ASSUME IInv,
         \/ Expire \/ Connect \/ Disconnect \/ PhoneGivesUp \/ Stray
         \/ \E m \in Msgs : PhoneStarts(m)
         \/ \E n \in Upto(Slots) : PacketLost(n)
  PROVE  IInv'
<1> USE DEF IInv, TypeOK
<1> DEFINE Link == <<Recivedataflag, blueRecivSendflag, uart_waitack_flag, rx,
                     ucaPackMsg, ucReTry, redo, tx, pc>>
<1>1. ASSUME UNCHANGED Link, T_Connect' \in {"off", "running", "expired"}
      PROVE  /\ FlagType' /\ RxType' /\ ListType' /\ TxType'
             /\ ReportTruthful' /\ AbandonCleared'
  BY <1>1 DEF FlagType, RxType, ListType, TxType, 
              ReportTruthful, AbandonCleared, rx, redo, mark, tx
<1>2. T_Connect \in {"off", "running", "expired"}
  BY DEF FlagType
<1>3. ASSUME Expire PROVE IInv'
  <2>1. BoolType' /\ EnvType'
    BY <1>3 DEF Expire, BoolType, EnvType, flow, env
  <2>. QED
    BY <1>1, <1>3, <2>1 DEF Expire, flow
<1>4. ASSUME Connect PROVE IInv'
  <2>1. BoolType'
    BY <1>4, Zenon DEF Connect, BoolType, env
  <2>2. EnvType'
    BY <1>4 DEF Connect, EnvType, env
  <2>. QED
    BY <1>1, <1>2, <1>4, <2>1, <2>2 DEF Connect
<1>5. ASSUME Disconnect PROVE IInv'
  <2>1. BoolType'
    BY <1>5, Zenon DEF Disconnect, BoolType
  <2>2. downs' \in 0 .. MaxDown
    BY <1>5, LinkAssumption DEF Disconnect, EnvType
  <2>3. phone' \in PhoneRecord /\ hvn' \in Seq(Notification)
    BY <1>5 DEF Disconnect, Idle, EnvType, PhoneRecord
  <2>4. EnvType'
    BY <1>5, <2>2, <2>3 DEF Disconnect, EnvType, PhoneRecord
  <2>. QED
    BY <1>1, <1>2, <1>5, <2>1, <2>4 DEF Disconnect
<1>6. ASSUME PhoneGivesUp PROVE IInv'
  <2>1. phone' \in PhoneRecord
    BY <1>6 DEF PhoneGivesUp, Idle, EnvType, PhoneRecord
  <2>2. BoolType' /\ EnvType'
    BY <1>6, <2>1 DEF PhoneGivesUp, PhoneOnly, flow, BoolType, EnvType,
                      PhoneRecord
  <2>. QED
    BY <1>1, <1>2, <1>6, <2>2 DEF PhoneGivesUp, PhoneOnly, flow
<1>7. ASSUME NEW m \in Msgs, PhoneStarts(m) PROVE IInv'
  <2>1. Upto(Packets(m)) \subseteq Upto(Slots)
    BY LinkAssumption DEF Upto
  <2>2. phone' \in PhoneRecord
    BY <1>7, <2>1 DEF PhoneStarts, Idle, EnvType, PhoneRecord
  <2>3. BoolType' /\ EnvType'
    BY <1>7, <2>2 DEF PhoneStarts, PhoneOnly, flow, BoolType, EnvType,
                      PhoneRecord
  <2>. QED
    BY <1>1, <1>2, <1>7, <2>3 DEF PhoneStarts, PhoneOnly, flow
<1>8. ASSUME NEW n \in Upto(Slots), PacketLost(n) PROVE IInv'
  <2>1. phone' \in PhoneRecord
    BY <1>8 DEF PacketLost, EnvType, PhoneRecord
  <2>2. losses' \in 0 .. MaxLoss
    <3>1. losses < MaxLoss /\ losses' = losses + 1
      BY <1>8 DEF PacketLost
    <3>. QED
      BY <3>1, LinkAssumption DEF EnvType
  <2>3. BoolType' /\ EnvType'
    BY <1>8, <2>1, <2>2 DEF PacketLost, PhoneOnly, flow, BoolType, EnvType,
                            PhoneRecord
  <2>. QED
    BY <1>1, <1>2, <1>8, <2>3 DEF PacketLost, PhoneOnly, flow
<1>9. ASSUME Stray PROVE IInv'
  <2>1. LinkOK'
    <3>1. CASE \E m \in Msgs : \E n \in Upto(Packets(m)) :
                 \E bytes \in {0, PacketBytes(m, n)} : PacketArrives(m, n,
                          bytes)
      <4>1. PICK m \in Msgs : \E n \in Upto(Packets(m)) :
              \E bytes \in {0, PacketBytes(m, n)} : PacketArrives(m, n, bytes)
        BY <3>1
      <4>2. PICK n \in Upto(Packets(m)) :
              \E bytes \in {0, PacketBytes(m, n)} : PacketArrives(m, n, bytes)
        BY <4>1
      <4>3. n \in Upto(Slots)
        BY LinkAssumption DEF Upto
      <4>. QED
        BY <4>2, <4>3, PacketBytesType, PacketStep
    <3>2. CASE AckArrives
      BY <3>2, AckStep
    <3>. QED
      BY <1>9, <3>1, <3>2 DEF Stray
  <2>2. strays' \in 0 .. MaxStray
    BY <1>9, LinkAssumption DEF Stray, EnvType
  <2>. QED
    BY <1>9, <2>1, <2>2 DEF Stray, LinkOK, EnvType, BoolType
<1>. QED
  BY <1>3, <1>4, <1>5, <1>6, <1>7, <1>8, <1>9

-----------------------------------------------------------------------------
(* The theorems.                                                            *)

\* The invariant holds in every state of every behaviour.
LEMMA Invariance == Spec => []IInv
<1>1. IInv /\ UNCHANGED vars => IInv'
  BY DEF IInv, TypeOK, BoolType, FlagType, RxType, ListType, TxType, EnvType,
         ReportTruthful, AbandonCleared, vars, flow, rx, redo, mark, tx, env
<1>2. IInv /\ [Next]_vars => IInv'
  BY <1>1, MainLoopStep, PhoneStep, EnvironmentStep DEF Next
<1>. QED
  BY <1>2, InitIInv, PTL DEF Spec

\* Every variable keeps its type, whoever the phone and the STM32 are and however
\* many faults happen: in particular the retries of Bluetooth_ReciveANDSend never
\* exceed WaitRertyTims and every bit set in ucaRevPackN is one of g_apdu's slots.
THEOREM TypeCorrect == Spec => []TypeOK
BY Invariance, PTL DEF IInv

\* While no reply is out, the list kept by MarkPackNum and cleared by
\* ble_transfer_init never names a packet that ucaRevPackN has.
THEOREM ReportsAreTruthful == Spec => []ReportTruthful
BY Invariance, PTL DEF IInv

----------------------------------------------------------------------------
\* An exchange that nothing disturbs but the loss of packets.

\* What these theorems assume of the environment ...
Undisturbed == Polite /\ Patient /\ MaxDown = 0 /\ MaxStray = 0

\* ... and of the sizes: a length header is two bytes long, lengths are
\* uint16_t, and remberPackn, a uint8_t, reaches the end of the longest list.
SizesFit ==
  /\ \A m \in Msgs : Size[m] \in 2 .. U16 - 1
  /\ \A x \in Replies : RSize[x] < U16
  /\ Slots + Word <= U8

-----------------------------------------------------------------------------
(* Arithmetic of packets and fragments.                                     *)

LEMMA Quotient ==
  ASSUME NEW a \in Nat, NEW d \in Nat \ {0}
  PROVE  /\ a \div d \in Nat /\ a % d \in 0 .. d - 1
         /\ a = d * (a \div d) + (a % d)
OBVIOUS

LEMMA QuotientOfMultiple ==
  ASSUME NEW a \in Nat, NEW d \in Nat \ {0}
  PROVE  (d * a) \div d = a
<1>1. d * a \in Nat
  OBVIOUS
<1>2. d * a = d * ((d * a) \div d) + ((d * a) % d) /\ (d * a) \div d \in Nat
      /\ (d * a) % d \in 0 .. d - 1
  BY <1>1, Quotient
<1> DEFINE q == (d * a) \div d
<1>3. d * (a - q) = (d * a) % d
  BY <1>2
<1>4. d * (a - q) \in 0 .. d - 1 /\ a - q \in Int
  BY <1>2, <1>3
<1>5. a - q = 0
  <2> HIDE DEF q
  <2>1. CASE a - q >= 1
    BY <1>4, <2>1
  <2>2. CASE a - q <= -1
    BY <1>4, <2>2
  <2> QED
    BY <1>4, <2>1, <2>2
<1> QED
  BY <1>2, <1>5

LEMMA SmallMod ==
  ASSUME NEW d \in Nat \ {0}, NEW a \in 0 .. d - 1
  PROVE  a % d = a
OBVIOUS

LEMMA TimesMonotonic ==
  ASSUME NEW a \in Int, NEW b \in Int, a <= b, NEW d \in Nat
  PROVE  d * a <= d * b
OBVIOUS

\* A command of Packets(m) packets fills all but the last.
LEMMA PacketsFit ==
  ASSUME NEW m \in Msgs
  PROVE  /\ Packets(m) \in Nat \ {0} /\ Packets(m) <= Slots
         /\ Body * (Packets(m) - 1) < Size[m] /\ Size[m] <= Body * Packets(m)
<1>1. Packets(m) \in 1 .. Slots /\ Slots \in Nat /\ Body \in Nat \ {0} /\ Size[m] \in Nat \ {0}
  BY LinkAssumption
<1> DEFINE a == Size[m] + Body - 1
<1>2. a \in Nat /\ Packets(m) = a \div Body
  BY <1>1 DEF Packets
<1> HIDE DEF a
<1>3. a = Body * Packets(m) + (a % Body) /\ a % Body \in 0 .. Body - 1
  BY <1>1, <1>2, Quotient
<1>4. Size[m] = Body * Packets(m) + (a % Body) - Body + 1
  BY <1>1, <1>3 DEF a
<1>5. Body * (Packets(m) - 1) = Body * Packets(m) - Body
  BY <1>1
<1> QED
  BY <1>1, <1>3, <1>4, <1>5

\* The last fragment of a reply holds at least one byte.
LEMMA FragmentsFit ==
  ASSUME NEW len \in Nat \ {0}
  PROVE  /\ Fragments(len) \in Nat \ {0}
         /\ len <= First => Fragments(len) = 1
         /\ len > First => Fragments(len) >= 2 /\ First + Body * (Fragments(len) - 2) < len
         /\ len <= First + Body * (Fragments(len) - 1)
<1>1. First \in Nat \ {0} /\ Body \in Nat \ {0}
  BY Widths
<1>2. CASE len <= First
  BY <1>1, <1>2 DEF Fragments
<1>3. CASE len > First
  <2> DEFINE a == len - First
             q == a \div Body
  <2>1. a \in Nat \ {0}
    BY <1>1, <1>3
  <2>2. a = Body * q + (a % Body) /\ a % Body \in 0 .. Body - 1 /\ q \in Nat
    BY <1>1, <2>1, Quotient
  <2>3. Fragments(len) = IF len > First + (q + 1 - 1) * Body THEN q + 1 + 1 ELSE q + 1
    BY <1>1, <1>3 DEF Fragments
  <2>4. len = First + Body * q + (a % Body)
    BY <1>1, <2>2
  <2> HIDE DEF q, a
  <2>5. (q + 1 - 1) * Body = Body * q
    BY <1>1, <2>2
  <2>6. CASE a % Body = 0
    <3>1. Fragments(len) = q + 1
      BY <1>1, <2>2, <2>3, <2>4, <2>5, <2>6
    <3>2. q >= 1
      BY <1>1, <1>3, <2>2, <2>4, <2>6
    <3>3. Body * (q - 1) = Body * q - Body
      BY <1>1, <2>2
    <3>4. Fragments(len) - 2 = q - 1 /\ Fragments(len) - 1 = q
      BY <2>2, <3>1
    <3>5. Body * (Fragments(len) - 2) = Body * q - Body
          /\ Body * (Fragments(len) - 1) = Body * q
      BY <3>3, <3>4
    <3>6. Body * q \in Nat
      BY <1>1, <2>2
    <3>7. len = First + Body * q
      BY <1>1, <2>4, <2>6, <3>6
    <3>8. Fragments(len) \in Nat /\ Fragments(len) >= 2
      BY <2>2, <3>1, <3>2
    <3> QED
      BY <1>1, <1>3, <3>5, <3>6, <3>7, <3>8
  <2>7. CASE a % Body # 0
    <3>1. Fragments(len) = q + 2
      BY <1>1, <2>2, <2>3, <2>4, <2>5, <2>7
    <3>2. Body * (q + 1) = Body * q + Body
      BY <1>1, <2>2
    <3> QED
      BY <1>1, <1>3, <2>2, <2>4, <2>7, <3>1, <3>2
  <2> QED
    BY <2>6, <2>7
<1> QED
  BY <1>1, <1>2, <1>3

\* The offset at the start of fragment k gives the number k.
LEMMA NumberAt ==
  ASSUME NEW k \in Nat \ {0}, NEW offset, offset = First + Body * (k - 1)
  PROVE  offset # 0 /\ ~(offset < First) /\ (offset - First) \div Body + 1 = k
<1>1. First \in Nat \ {0} /\ Body \in Nat \ {0} /\ Body * (k - 1) \in Nat
  BY Widths
<1>2. offset - First = Body * (k - 1) /\ ~(offset < First) /\ offset # 0
  BY <1>1
<1>3. (offset - First) \div Body = k - 1
  BY <1>1, <1>2, QuotientOfMultiple
<1> QED
  BY <1>2, <1>3

-----------------------------------------------------------------------------
(* The inductive invariant.  The device takes a command only when all of its *)
(* packets have arrived, and the phone, which knows which packets arrived,   *)
(* sends none of them twice: so from then on nothing of the phone's disturbs *)
(* g_apdu until the reply is acknowledged, and the phone acknowledges only a *)
(* reply whose last fragment has been sent.                                  *)

\* The packets of the command that the phone counts on, and those that have
\* arrived at some time.
Expected == Upto(Packets(phone.msg))
Seen == Expected \ (phone.todo \cup phone.lost)

\* The bytes of the packets marked in ucaRevPackN: the last packet may be short.
Counted ==
  Body * Cardinality(ucaRevPackN)
    - (IF Packets(phone.msg) - 1 \in ucaRevPackN
       THEN Body * Packets(phone.msg) - Size[phone.msg] ELSE 0)

\* The reply in g_apdu, and its fragments on the way and at the phone.
Reply == g_apdu[0]
Total == Fragments(RSize[Reply])
Composed == Reply \in Replies /\ \A i \in Upto(Total) : g_apdu[i] = Reply
InAir == {i \in 1 .. Len(hvn) : hvn[i].kind = "fragment"}
Numbers == {f[1] : f \in phone.got} \cup {hvn[i].num : i \in InAir}
Heard == phone.got # {} \/ InAir # {}

\* The device is busy with a command it took.
Serving ==
  blueRecivSendflag # "NOdata" \/ owed \/ lr # 0 \/ SumPackNumber # 0

\* A phone that asks nothing finds nothing of an earlier exchange.
AskingOK ==
  /\ Asking => connected
  /\ phone.todo \cap phone.lost = {}
  /\ Asking => phone.todo \cup phone.lost \subseteq Expected
  /\ ~Asking => /\ phone.todo = {} /\ phone.lost = {} /\ phone.got = {}
                /\ ~Serving /\ ~Heard /\ ucaRevPackN = {} /\ Apdufinsh = 0

\* Either packets were dropped, and the command will never be complete, or
\* what is marked has been counted and stored.
CollectOK ==
  /\ Asking => ucaRevPackN \subseteq Seen
  /\ Apdufinsh # 0 => Asking /\ Seen # {}
  /\ Asking /\ ucaRevPackN = Seen /\ Seen # {} =>
       /\ Apdufinsh # 0 /\ g_apdu_length = Counted
       /\ \A i \in Seen : g_apdu[i] = phone.msg
  /\ Asking /\ Seen = {} => Apdufinsh = 0
  /\ Apdufinsh = 1 => Seen = Expected /\ (ucaRevPackN = Seen \/ pc = "clear")
  /\ pc = "clear" => blueRecivSendflag = "Recivedata"
  /\ pc = "drop" => Asking /\ ucaRevPackN # Seen /\ ~Serving /\ ~Heard

\* One command is served at a time, and one stage follows the other.
StageOK ==
  /\ Serving \/ Heard =>
       /\ Asking /\ phone.todo = {} /\ phone.lost = {} /\ ucaRevPackN = {}
       /\ Apdufinsh = 0 \/ pc = "clear"
  /\ blueRecivSendflag # "NOdata" \/ owed =>
       lr = 0 /\ SumPackNumber = 0 /\ ~Heard
  /\ blueRecivSendflag # "NOdata" => ~owed
  /\ blueRecivSendflag = "Recivedata" =>
       /\ g_apdu_length = Size[phone.msg] - 2
       /\ \A i \in Expected : g_apdu[i] = phone.msg
  /\ blueRecivSendflag = "Senddata" => Composed /\ g_apdu_length = RSize[Reply]
  /\ lr # 0 \/ SumPackNumber # 0 \/ Heard => Composed
  /\ lr # 0 => lr = RSize[Reply]
  /\ SumPackNumber # 0 => SumPackNumber = Total

\* The offset moves from fragment to fragment, and back to zero.
OffsetOK ==
  /\ SumPackNumber = 0 => Sendlenth = 0
  /\ lr # 0 /\ lr <= First => Sendlenth = 0
  /\ lr > First /\ Sendlenth # 0 =>
       \E k \in 1 .. SumPackNumber - 1 : Sendlenth = First + Body * (k - 1)
  /\ pc \in {"sentFirst", "sentNext"} => SumPackNumber # 0 /\ lr > First
  /\ pc = "sentFirst" => Sendlenth = 0
  /\ pc = "sentNext" => Sendlenth # 0 /\ NextNumber + 1 < SumPackNumber
  /\ pc = "sentLast" => lr = 0 \/ SumPackNumber # 0

\* The number of the fragment that goes out next.
Upcoming ==
  CASE pc = "sentFirst" -> 1
    [] pc = "sentNext" -> NextNumber + 1
    [] pc = "sentLast" -> Total
    [] OTHER -> IF Sendlenth = 0 THEN 0 ELSE NextNumber

\* Fragments on the way are of this reply, and of a number the phone has not.
AirOK ==
  /\ \A i \in InAir : /\ hvn[i].num \in Upto(Total) /\ hvn[i].total = Total
                      /\ hvn[i].tag = Reply
                      /\ \A f \in phone.got : f[1] # hvn[i].num
  /\ \A i, j \in InAir : hvn[i].num = hvn[j].num => i = j
  /\ \A f \in phone.got : f[1] \in Upto(Total) /\ f[2] = Reply
  /\ phone.got # {} => phone.total = Total
  /\ phone.got = {} => phone.total = 0
  /\ lr # 0 => \A n \in Numbers : n < Upcoming

\* The fragments of the phone's list that have not been looked at.
Ahead ==
  {n \in ucaPackMsg.missing : /\ remberPackn <= Positions => n >= remberPackn
                              /\ pc = "resent" => n # remberPackn}

ResendOK ==
  /\ ucResend = 1 /\ SumPackNumber = 0 => ~Asking /\ ucaPackMsg.missing = {}
  /\ ucResend = 1 /\ SumPackNumber # 0 =>
       /\ lr = 0 /\ phone.got # {} /\ ucaPackMsg.missing \subseteq Upto(Total)
       /\ Positions < U8 /\ \A n \in ucaPackMsg.missing : n < Positions
       /\ Ahead \cap Numbers = {}
  /\ pc = "resent" => ucResend = 1

\* When a reply is given up none of its fragments has reached the phone, or some
\* of them have not been sent.
GiveUpOK ==
  (T_Connect = "expired" \/ pc \in {"txtimeout", "abandon"})
      /\ SumPackNumber # 0 /\ lr = 0 => ~Heard

ExchangeOK ==
  /\ AskingOK /\ CollectOK /\ StageOK /\ OffsetOK /\ AirOK /\ ResendOK /\ GiveUpOK

-----------------------------------------------------------------------------
(* What stays when the variables it is made of stay.                        *)

LEMMA PhoneKept ==
  ASSUME phone' = phone
  PROVE  Asking' = Asking /\ Expected' = Expected /\ Seen' = Seen
BY DEF Asking, Expected, Seen

LEMMA ReplyKept ==
  ASSUME g_apdu' = g_apdu
  PROVE  Reply' = Reply /\ Total' = Total /\ Composed' = Composed
BY DEF Reply, Total, Composed

\* Notifications on the way that are not touched.
AirSame ==
  /\ InAir' = InAir /\ Numbers' = Numbers /\ Heard' = Heard
  /\ \A i \in InAir : hvn'[i] = hvn[i]

LEMMA AirKept ==
  ASSUME phone'.got = phone.got, hvn' = hvn
  PROVE  AirSame
BY DEF AirSame, InAir, Numbers, Heard

LEMMA AirIndex ==
  ASSUME IInv
  PROVE  /\ hvn \in Seq(Notification) /\ Len(hvn) \in Nat
         /\ \A i \in InAir : i \in Nat /\ i >= 1 /\ i <= Len(hvn)
BY DEF IInv, TypeOK, EnvType, InAir

\* A list of missing packets is not a fragment.
LEMMA AirTold ==
  ASSUME IInv, phone'.got = phone.got, NEW report, TellMissed(report)
  PROVE  AirSame
<1> DEFINE x == [kind |-> "report", missing |-> report.missing]
<1>1. CASE hvn' = hvn
  BY <1>1, AirKept
<1>2. CASE hvn' = Append(hvn, x)
  <2>1. Len(hvn') = Len(hvn) + 1 /\ hvn'[Len(hvn) + 1].kind = "report"
        /\ \A i \in 1 .. Len(hvn) : hvn'[i] = hvn[i]
    BY <1>2, AirIndex
  <2>2. InAir' = InAir
    BY <2>1, AirIndex DEF InAir
  <2>3. \A i \in InAir : hvn'[i] = hvn[i]
    BY <2>1 DEF InAir
  <2> QED
    BY <2>2, <2>3 DEF AirSame, Numbers, Heard
<1> QED
  BY <1>1, <1>2 DEF TellMissed, Notify

\* A fragment that is sent is refused, or one more is on the way.
LEMMA AirSent ==
  ASSUME IInv, phone'.got = phone.got, NEW num, NEW total, NEW slot, Fragment(num, total, slot)
  PROVE  \/ AirSame
         \/ \E n \in Nat \ InAir :
              /\ InAir' = InAir \cup {n} /\ Numbers' = Numbers \cup {num}
              /\ \A i \in InAir : hvn'[i] = hvn[i]
              /\ hvn'[n].num = num /\ hvn'[n].total = total
              /\ slot \in Upto(Slots) => hvn'[n].tag = g_apdu[slot]
<1> DEFINE x == [kind |-> "fragment", num |-> num, total |-> total,
                 tag |-> IF slot \in Upto(Slots) THEN g_apdu[slot] ELSE NoTag]
<1>1. CASE hvn' = hvn
  BY <1>1, AirKept
<1>2. CASE hvn' = Append(hvn, x)
  <2>1. Len(hvn') = Len(hvn) + 1 /\ hvn'[Len(hvn) + 1] = x
        /\ \A i \in 1 .. Len(hvn) : hvn'[i] = hvn[i]
    BY <1>2, AirIndex
  <2>2. PICK n \in Nat : n = Len(hvn) + 1
    BY AirIndex
  <2>3. n \notin InAir /\ InAir' = InAir \cup {n}
    BY <2>1, <2>2, AirIndex DEF InAir
  <2>4. \A i \in InAir : hvn'[i] = hvn[i]
    BY <2>1 DEF InAir
  <2>5. Numbers' = Numbers \cup {num}
    BY <2>1, <2>2, <2>3, <2>4 DEF Numbers
  <2> QED
    BY <2>1, <2>2, <2>3, <2>4, <2>5
<1> QED
  BY <1>1, <1>2 DEF Fragment, Notify

\* What is read is the first notification; the others move up.
LEMMA AirRead ==
  ASSUME IInv, hvn # <<>>, hvn' = Tail(hvn)
  PROVE  /\ \A i \in InAir' : i \in Nat /\ i >= 1 /\ i + 1 \in InAir /\ hvn'[i] = hvn[i + 1]
         /\ \A i \in InAir : i = 1 \/ (i - 1 \in InAir' /\ hvn'[i - 1] = hvn[i])
         /\ 1 \in InAir <=> Head(hvn).kind = "fragment"
         /\ Head(hvn) = hvn[1]
<1>1. hvn \in Seq(Notification) /\ Len(hvn) \in Nat
  BY AirIndex
<1>2. Len(hvn') = Len(hvn) - 1 /\ Head(hvn) = hvn[1] /\ Len(hvn) >= 1
  BY <1>1
<1>3. \A i \in 1 .. Len(hvn) - 1 : hvn'[i] = hvn[i + 1]
  BY <1>1
<1> QED
  BY <1>1, <1>2, <1>3 DEF InAir

\* Steps that change nothing but where the main loop is, flags and timers.
Plain == {"entry", "recv", "send", "resend", "timeout", "txtimeout", "cmd", "uart"}

LEMMA ControlStep ==
  ASSUME ExchangeOK, AirSame,
         phone' = phone, connected => connected', g_apdu' = g_apdu,
         Apdufinsh' = Apdufinsh, g_apdu_length' = g_apdu_length,
         ucaRevPackN' = ucaRevPackN, blueRecivSendflag' = blueRecivSendflag,
         owed' = owed, lr' = lr, SumPackNumber' = SumPackNumber,
         Sendlenth' = Sendlenth, ucaPackMsg' = ucaPackMsg,
         ucResend' = ucResend, remberPackn' = remberPackn,
         pc' = pc \/ {pc, pc'} \subseteq Plain,
         T_Connect' = "expired" \/ pc' \in {"txtimeout", "abandon"}
            => T_Connect = "expired" \/ pc \in {"txtimeout", "abandon"}
  PROVE  ExchangeOK'
<1> USE DEF ExchangeOK, AirSame
<1>1. Asking' = Asking /\ Expected' = Expected /\ Seen' = Seen
  BY PhoneKept
<1>2. Reply' = Reply /\ Total' = Total /\ Composed' = Composed
  BY ReplyKept
<1>3. Serving' = Serving
  BY DEF Serving
<1>4. AskingOK'
  BY <1>1, <1>3 DEF AskingOK
<1>5. CollectOK'
  BY <1>1, <1>3 DEF CollectOK, Counted, Plain
<1>6. StageOK'
  BY <1>1, <1>2, <1>3 DEF StageOK, Plain
<1>7. OffsetOK'
  BY <1>1, <1>2, <1>3 DEF OffsetOK, Plain, NextNumber
<1>8. AirOK'
  <2>1. Upcoming' = Upcoming
    BY <1>2 DEF Upcoming, Plain, NextNumber
  <2> QED
    BY <1>2, <2>1 DEF AirOK
<1>9. ResendOK'
  <2>1. Positions' = Positions
    BY DEF Positions
  <2>2. Ahead' = Ahead
    BY <2>1 DEF Ahead, Plain
  <2> QED
    BY <1>1, <1>2, <2>1, <2>2 DEF ResendOK, Plain
<1>10. GiveUpOK'
  BY DEF GiveUpOK
<1> QED
  BY <1>4, <1>5, <1>6, <1>7, <1>8, <1>9, <1>10

-----------------------------------------------------------------------------
(* The steps of the main loop.                                              *)

Steady == IInv /\ Undisturbed /\ SizesFit /\ phone.prompt /\ ExchangeOK

LEMMA ExchangeBegins == Init /\ phone.prompt => ExchangeOK
<1> SUFFICES ASSUME Init PROVE ExchangeOK
  OBVIOUS
<1>1. phone = Idle(phone.prompt) /\ hvn = <<>>
  BY DEF Init, Idle
<1>2. ~Asking /\ ~Serving /\ ~Heard /\ InAir = {} /\ Numbers = {}
  BY <1>1 DEF Init, Idle, Asking, Serving, Heard, InAir, Numbers
<1>3. phone.todo = {} /\ phone.lost = {} /\ phone.got = {} /\ phone.total = 0
  BY <1>1 DEF Idle
<1>4. AskingOK
  BY <1>2, <1>3 DEF Init, AskingOK
<1>5. CollectOK
  BY <1>2 DEF Init, CollectOK
<1>6. StageOK
  BY <1>2 DEF Init, StageOK
<1>7. OffsetOK
  BY DEF Init, OffsetOK
<1>8. AirOK
  BY <1>2, <1>3 DEF Init, AirOK
<1>9. ResendOK /\ GiveUpOK
  BY DEF Init, ResendOK, GiveUpOK
<1> QED
  BY <1>4, <1>5, <1>6, <1>7, <1>8, <1>9 DEF ExchangeOK

LEMMA ControlSteps ==
  ASSUME Steady,
         \/ NothingToHandOver \/ NothingToSend \/ NothingToResend \/ NotExpired
         \/ AskMissing \/ WaitAgain \/ UartIdle \/ Connect \/ UNCHANGED vars
  PROVE  ExchangeOK'
<1> USE DEF At, flow, rx, mark, redo, tx, env, Plain
<1>1. IInv /\ ExchangeOK
  BY DEF Steady
<1>2. CASE NothingToHandOver
  <2>1. AirSame
    BY <1>2, AirKept DEF NothingToHandOver
  <2> QED
    BY <1>1, <1>2, <2>1, ControlStep DEF NothingToHandOver
<1>3. CASE NothingToSend
  <2>1. AirSame
    BY <1>3, AirKept DEF NothingToSend
  <2> QED
    BY <1>1, <1>3, <2>1, ControlStep DEF NothingToSend
<1>4. CASE NothingToResend
  <2>1. AirSame
    BY <1>4, AirKept DEF NothingToResend
  <2> QED
    BY <1>1, <1>4, <2>1, ControlStep DEF NothingToResend
<1>5. CASE NotExpired
  <2>1. AirSame
    BY <1>5, AirKept DEF NotExpired
  <2> QED
    BY <1>1, <1>5, <2>1, ControlStep DEF NotExpired
<1>6. CASE AskMissing
  <2>1. AirSame
    <3>1. CASE Apdufinsh = 2
      BY <1>1, <1>6, <3>1, AirTold DEF AskMissing
    <3>2. CASE Apdufinsh # 2
      BY <1>6, <3>2, AirKept DEF AskMissing
    <3> QED
      BY <3>1, <3>2
  <2> QED
    BY <1>1, <1>6, <2>1, ControlStep DEF AskMissing
<1>7. CASE WaitAgain
  <2>1. AirSame
    BY <1>7, AirKept DEF WaitAgain
  <2>2. ~(pc' \in {"txtimeout", "abandon"}) /\ pc = "txtimeout"
    BY <1>7 DEF WaitAgain
  <2> QED
    BY <1>1, <1>7, <2>1, <2>2, ControlStep DEF WaitAgain
<1>8. CASE UartIdle
  <2>1. AirSame
    BY <1>8, AirKept DEF UartIdle
  <2> QED
    BY <1>1, <1>8, <2>1, ControlStep DEF UartIdle
<1>9. CASE Connect
  <2>1. AirSame
    BY <1>9, AirKept DEF Connect
  <2> QED
    BY <1>1, <1>9, <2>1, ControlStep DEF Connect
<1>10. CASE UNCHANGED vars
  <2>1. AirSame
    BY <1>10, AirKept DEF vars
  <2> QED
    BY <1>1, <1>10, <2>1, ControlStep DEF vars
<1> QED
  BY <1>2, <1>3, <1>4, <1>5, <1>6, <1>7, <1>8, <1>9, <1>10

\* The timer runs out only when the phone has nothing left to read or to ask.
LEMMA ExpireStep ==
  ASSUME Steady, Expire
  PROVE  ExchangeOK'
<1> USE DEF flow, rx, mark, redo, tx, env
<1> DEFINE quiet == hvn = <<>> /\ phone.got = {}
<1>1. ExchangeOK /\ quiet
  BY DEF Steady, Expire, PhoneBusy
<1>2. ~Heard
  BY <1>1 DEF Heard, InAir
<1>3. AirSame
  BY AirKept DEF Expire
<1>4. Asking' = Asking /\ Expected' = Expected /\ Seen' = Seen
  BY PhoneKept DEF Expire
<1>5. Reply' = Reply /\ Total' = Total /\ Composed' = Composed
  BY ReplyKept DEF Expire
<1>6. Serving' = Serving
  BY DEF Serving, Expire
<1>7. AskingOK'
  BY <1>1, <1>3, <1>4, <1>6 DEF Expire, ExchangeOK, AskingOK, AirSame
<1>8. CollectOK'
  BY <1>1, <1>3, <1>4, <1>6 DEF Expire, ExchangeOK, CollectOK, Counted, AirSame
<1>9. StageOK'
  BY <1>1, <1>3, <1>4, <1>5, <1>6 DEF Expire, ExchangeOK, StageOK, AirSame
<1>10. OffsetOK'
  BY <1>1 DEF Expire, ExchangeOK, OffsetOK, NextNumber
<1>11. AirOK'
  <2>1. Upcoming' = Upcoming
    BY <1>5 DEF Expire, Upcoming, NextNumber
  <2> QED
    BY <1>1, <1>3, <1>5, <2>1 DEF Expire, ExchangeOK, AirOK, AirSame
<1>12. ResendOK'
  <2>1. Positions' = Positions /\ Ahead' = Ahead
    BY DEF Expire, Ahead, Positions
  <2> QED
    BY <1>1, <1>3, <1>4, <1>5, <2>1 DEF Expire, ExchangeOK, ResendOK, AirSame
<1>13. GiveUpOK'
  BY <1>2, <1>3 DEF GiveUpOK, AirSame
<1> QED
  BY <1>7, <1>8, <1>9, <1>10, <1>11, <1>12, <1>13 DEF ExchangeOK

\* Without a connection nothing has been asked: there is nothing to reset.
LEMMA ResetStep ==
  ASSUME Steady, ResetWhenDown
  PROVE  ExchangeOK'
<1> USE DEF At, flow, rx, mark, redo, tx, env
<1>1. ExchangeOK /\ ~connected
  BY DEF Steady, ResetWhenDown
<1>2. ~Asking /\ phone' = phone /\ hvn' = hvn
  BY <1>1 DEF ExchangeOK, AskingOK, ResetWhenDown
<1>3. /\ phone.todo = {} /\ phone.lost = {} /\ phone.got = {}
      /\ ~Serving /\ ~Heard /\ ucaRevPackN = {} /\ Apdufinsh = 0
  BY <1>1, <1>2 DEF ExchangeOK, AskingOK
<1>4. AirSame
  BY <1>2, AirKept
<1>5. Asking' = Asking /\ Heard' = Heard /\ ~Serving'
  BY <1>2, <1>3, <1>4, PhoneKept DEF AirSame, Serving, ResetWhenDown, ForgetReply
<1>6. AskingOK'
  BY <1>2, <1>3, <1>5 DEF AskingOK, ResetWhenDown, ble_transfer_init
<1>7. CollectOK' /\ ResendOK' /\ GiveUpOK'
  BY <1>2, <1>5 DEF CollectOK, ResendOK, GiveUpOK, ResetWhenDown, ForgetReply, ble_transfer_init
<1>8. StageOK'
  BY <1>3, <1>5 DEF StageOK, Serving, ResetWhenDown, ForgetReply
<1>9. OffsetOK'
  BY DEF OffsetOK, ResetWhenDown, ForgetReply
<1>10. AirOK'
  <2>1. InAir' = {} /\ phone'.got = {} /\ phone'.total = 0
    BY <1>1, <1>2, <1>3, <1>4 DEF Heard, AirSame, ExchangeOK, AirOK
  <2> QED
    BY <2>1 DEF AirOK, ResetWhenDown, ForgetReply
<1> QED
  BY <1>6, <1>7, <1>8, <1>9, <1>10 DEF ExchangeOK

\* What a step leaves when it touches neither g_apdu nor anything of the phone's.
LEMMA Kept ==
  ASSUME phone' = phone, hvn' = hvn, g_apdu' = g_apdu
  PROVE  /\ Asking' = Asking /\ Expected' = Expected /\ Seen' = Seen
         /\ Reply' = Reply /\ Total' = Total /\ Composed' = Composed
         /\ InAir' = InAir /\ Numbers' = Numbers /\ Heard' = Heard
BY PhoneKept, ReplyKept, AirKept DEF AirSame

LEMMA TakeReplyStep ==
  ASSUME Steady, TakeReply
  PROVE  ExchangeOK'
<1> USE DEF At, flow, rx, mark, redo, tx, env
<1>1. IInv /\ ExchangeOK
  BY DEF Steady
<1>2. CASE blueRecivSendflag # "Senddata"
  <2>1. AirSame
    BY AirKept DEF TakeReply
  <2> QED
    BY <1>1, <1>2, <2>1, ControlStep DEF TakeReply, Plain
<1>3. CASE blueRecivSendflag = "Senddata"
  <2>1. /\ phone' = phone /\ hvn' = hvn /\ g_apdu' = g_apdu
        /\ lr' = g_apdu_length /\ blueRecivSendflag' = "NOdata" /\ owed' = owed
        /\ pc = "entry" /\ pc' = "recv"
    BY <1>3 DEF TakeReply
  <2>2. /\ Serving /\ Composed /\ g_apdu_length = RSize[Reply] /\ lr = 0
        /\ SumPackNumber = 0 /\ ~Heard /\ ~owed
    BY <1>1, <1>3 DEF ExchangeOK, StageOK, Serving
  <2>3. Asking /\ phone.todo = {} /\ phone.lost = {} /\ ucaRevPackN = {} /\ Apdufinsh = 0
    BY <1>1, <2>1, <2>2 DEF ExchangeOK, StageOK
  <2>4. RSize[Reply] \in Nat \ {0}
    BY <2>2, LinkAssumption DEF Composed
  <2>5. Serving'
    BY <2>1, <2>2, <2>4 DEF Serving
  <2>6. Sendlenth = 0 /\ ucResend # 1 /\ Numbers = {} /\ InAir = {}
    BY <1>1, <2>2, <2>3 DEF ExchangeOK, OffsetOK, ResendOK, Heard, Numbers
  <2>7. AskingOK'
    BY <1>1, <2>1, <2>3, Kept DEF TakeReply, ExchangeOK, AskingOK
  <2>8. CollectOK'
    BY <1>1, <2>1, <2>3, Kept DEF TakeReply, ExchangeOK, CollectOK, Counted
  <2>9. StageOK'
    BY <2>1, <2>2, <2>3, Kept DEF TakeReply, StageOK, Serving
  <2>10. OffsetOK'
    BY <2>1, <2>6 DEF TakeReply, OffsetOK
  <2>11. AirOK'
    BY <1>1, <2>1, <2>6, Kept DEF ExchangeOK, AirOK
  <2>12. ResendOK'
    BY <2>1, <2>6 DEF TakeReply, ResendOK
  <2>13. GiveUpOK'
    BY <2>1, <2>2, Kept DEF GiveUpOK
  <2> QED
    BY <2>7, <2>8, <2>9, <2>10, <2>11, <2>12, <2>13 DEF ExchangeOK
<1> QED
  BY <1>2, <1>3

\* The packets of a whole command add up to its length.
LEMMA CountedWhole ==
  ASSUME Asking, phone.msg \in Msgs, ucaRevPackN = Expected
  PROVE  Counted = Size[phone.msg] /\ Expected # {}
<1> DEFINE P == Packets(phone.msg)
<1>1. P \in Nat \ {0} /\ Body \in Nat /\ Size[phone.msg] \in Nat
  BY PacketsFit, LinkAssumption
<1>2. Cardinality(Upto(P)) = P
  BY <1>1, FS_Interval DEF Upto
<1>3. P - 1 \in Upto(P)
  BY <1>1 DEF Upto
<1>4. Counted = Body * P - (Body * P - Size[phone.msg])
  BY <1>2, <1>3 DEF Counted, Expected
<1>5. Body * P \in Nat
  BY <1>1
<1> QED
  BY <1>1, <1>3, <1>4, <1>5 DEF Expected

\* A complete command is a whole one, and the phone has nothing more to send.
LEMMA HandOverStep ==
  ASSUME Steady, HandOver
  PROVE  ExchangeOK'
<1> USE DEF At, flow, rx, mark, redo, tx, env
<1>1. /\ IInv /\ ExchangeOK /\ pc = "recv" /\ pc' = "clear" /\ Apdufinsh = 1
      /\ phone' = phone /\ hvn' = hvn /\ g_apdu' = g_apdu
  BY DEF Steady, HandOver
<1>2. /\ Asking /\ Seen = Expected /\ ucaRevPackN = Seen /\ Seen # {}
      /\ g_apdu_length = Counted /\ \A i \in Expected : g_apdu[i] = phone.msg
  BY <1>1 DEF ExchangeOK, CollectOK
<1>3. ~Serving /\ ~Heard
  BY <1>1 DEF ExchangeOK, StageOK
<1>4. phone.todo = {} /\ phone.lost = {}
  BY <1>1, <1>2 DEF Seen, ExchangeOK, AskingOK
<1>5. phone.msg \in Msgs
  BY <1>1, <1>2 DEF IInv, TypeOK, EnvType, Asking
<1>6. g_apdu_length' = Size[phone.msg] - 2
  <2>1. Counted = Size[phone.msg]
    BY <1>2, <1>5, CountedWhole
  <2>2. Size[phone.msg] \in 2 .. U16 - 1 /\ U16 \in Nat \ {0}
    BY <1>5, LinkAssumption DEF Steady, SizesFit
  <2> QED
    BY <1>2, <2>1, <2>2 DEF HandOver
<1>7. ~Heard' /\ InAir' = {} /\ Serving'
  BY <1>1, <1>3, Kept DEF Heard, Serving, HandOver
<1>8. AskingOK'
  BY <1>1, <1>2, Kept DEF ExchangeOK, AskingOK, HandOver
<1>9. CollectOK'
  BY <1>1, <1>2, Kept DEF CollectOK, HandOver, ble_transfer_init
<1>10. StageOK'
  BY <1>1, <1>2, <1>3, <1>4, <1>6, Kept DEF StageOK, Serving, HandOver, ble_transfer_init
<1>11. OffsetOK'
  BY <1>1 DEF ExchangeOK, OffsetOK, HandOver
<1>12. AirOK'
  BY <1>1, <1>3, <1>7 DEF ExchangeOK, AirOK, Serving, Heard, HandOver
<1>13. ResendOK'
  BY DEF ResendOK, HandOver, ble_transfer_init
<1>14. GiveUpOK'
  BY <1>7 DEF GiveUpOK
<1> QED
  BY <1>8, <1>9, <1>10, <1>11, <1>12, <1>13, <1>14 DEF ExchangeOK

LEMMA ClearFinishStep ==
  ASSUME Steady, ClearFinish
  PROVE  ExchangeOK'
<1> USE DEF At, flow, rx, mark, redo, tx, env
<1>1. /\ ExchangeOK /\ pc = "clear" /\ pc' = "send"
      /\ phone' = phone /\ hvn' = hvn /\ g_apdu' = g_apdu
  BY DEF Steady, ClearFinish
<1>2. Serving' = Serving /\ Serving /\ Apdufinsh' = 0
  BY <1>1 DEF ExchangeOK, CollectOK, Serving, ClearFinish
<1>3. /\ Asking /\ ucaRevPackN = {} /\ lr = 0 /\ SumPackNumber = 0 /\ ~Heard
      /\ phone.todo = {} /\ phone.lost = {}
  BY <1>1, <1>2 DEF ExchangeOK, StageOK, CollectOK
<1>4. Seen = Expected /\ ucResend # 1
  BY <1>1, <1>3 DEF Seen, ExchangeOK, ResendOK
<1>5. AskingOK'
  BY <1>1, <1>2, <1>3, Kept DEF ExchangeOK, AskingOK, ClearFinish
<1>6. CollectOK'
  <2>1. Seen # {}
    <3>1. phone.msg \in Msgs
      BY <1>3 DEF Steady, IInv, TypeOK, EnvType, Asking
    <3>2. Packets(phone.msg) \in Nat \ {0}
      BY <3>1, PacketsFit
    <3> QED
      BY <1>4, <3>2 DEF Expected, Upto
  <2> QED
    BY <1>1, <1>2, <1>3, <2>1, Kept DEF CollectOK, ClearFinish
<1>7. StageOK'
  BY <1>1, <1>2, Kept DEF ExchangeOK, StageOK, ClearFinish
<1>8. OffsetOK' /\ GiveUpOK'
  BY <1>1, <1>3 DEF ExchangeOK, OffsetOK, GiveUpOK, ClearFinish
<1>9. AirOK'
  BY <1>1, <1>3, Kept DEF ExchangeOK, AirOK, ClearFinish
<1>10. ResendOK'
  BY <1>1, <1>4 DEF ResendOK, ClearFinish
<1> QED
  BY <1>5, <1>6, <1>7, <1>8, <1>9, <1>10 DEF ExchangeOK

\* An incomplete command is dropped: what arrives of it later cannot complete it.
LEMMA DropCommandStep ==
  ASSUME Steady, DropCommand
  PROVE  ExchangeOK'
<1> USE DEF At, flow, rx, mark, redo, tx, env
<1>1. /\ ExchangeOK /\ pc = "timeout" /\ pc' = "drop" /\ Apdufinsh = 2
      /\ phone' = phone /\ hvn' = hvn /\ g_apdu' = g_apdu /\ Apdufinsh' = Apdufinsh
      /\ ucaRevPackN' = {} /\ ucResend' = 0 /\ lr' = lr
  BY DEF Steady, DropCommand, ble_transfer_init
<1>2. Asking /\ Seen # {} /\ ~Serving /\ ~Heard
  BY <1>1 DEF ExchangeOK, CollectOK, StageOK
<1>3. ~Serving' /\ ~Heard' /\ lr = 0 /\ SumPackNumber' = 0
  BY <1>1, <1>2, Kept DEF Serving, DropCommand
<1>4. AskingOK'
  BY <1>1, <1>2, Kept DEF ExchangeOK, AskingOK, DropCommand
<1>5. CollectOK'
  BY <1>1, <1>2, <1>3, Kept DEF ExchangeOK, CollectOK
<1>6. StageOK'
  BY <1>3 DEF StageOK, Serving
<1>7. OffsetOK'
  BY <1>1, <1>3 DEF ExchangeOK, OffsetOK, DropCommand
<1>8. AirOK'
  BY <1>1, <1>3, Kept DEF ExchangeOK, AirOK, DropCommand
<1>9. ResendOK' /\ GiveUpOK'
  BY <1>1, <1>3 DEF ResendOK, GiveUpOK
<1> QED
  BY <1>4, <1>5, <1>6, <1>7, <1>8, <1>9 DEF ExchangeOK

LEMMA DropRestStep ==
  ASSUME Steady, DropRest
  PROVE  ExchangeOK'
<1> USE DEF At, flow, rx, mark, redo, tx, env
<1>1. /\ ExchangeOK /\ pc = "drop" /\ pc' = "txtimeout" /\ Apdufinsh' = 0 /\ lr' = 0
      /\ phone' = phone /\ hvn' = hvn /\ g_apdu' = g_apdu /\ ucaRevPackN' = ucaRevPackN
  BY DEF Steady, DropRest
<1>2. Asking /\ ucaRevPackN # Seen /\ ~Serving /\ ~Heard
  BY <1>1 DEF ExchangeOK, CollectOK
<1>3. ~Serving' /\ ~Heard' /\ SumPackNumber = 0 /\ SumPackNumber' = 0
  BY <1>1, <1>2, Kept DEF Serving, DropRest
<1>4. AskingOK'
  BY <1>1, <1>2, Kept DEF ExchangeOK, AskingOK, DropRest
<1>5. CollectOK'
  BY <1>1, <1>2, <1>3, Kept DEF ExchangeOK, CollectOK
<1>6. StageOK'
  BY <1>3 DEF StageOK, Serving
<1>7. OffsetOK'
  BY <1>1, <1>3 DEF ExchangeOK, OffsetOK, DropRest
<1>8. AirOK'
  BY <1>1, <1>3, Kept DEF ExchangeOK, AirOK, DropRest
<1>9. ResendOK' /\ GiveUpOK'
  BY <1>1, <1>2, <1>3, Kept DEF ExchangeOK, ResendOK, GiveUpOK, DropRest
<1> QED
  BY <1>4, <1>5, <1>6, <1>7, <1>8, <1>9 DEF ExchangeOK

LEMMA AbandonReplyStep ==
  ASSUME Steady, AbandonReply
  PROVE  ExchangeOK'
<1> USE DEF At, flow, rx, mark, redo, tx, env
<1>1. /\ ExchangeOK /\ pc = "txtimeout" /\ pc' = "abandon" /\ SumPackNumber # 0
      /\ phone' = phone /\ hvn' = hvn /\ g_apdu' = g_apdu /\ Apdufinsh' = Apdufinsh
      /\ ucaRevPackN' = {} /\ ucResend' = 0 /\ lr' = lr /\ SumPackNumber' = SumPackNumber
      /\ Sendlenth' = Sendlenth
  BY DEF Steady, AbandonReply, ble_transfer_init
<1>2. Serving /\ Serving' = Serving
  BY <1>1 DEF Serving, AbandonReply
<1>3. Asking /\ ucaRevPackN = {} /\ Apdufinsh = 0
  BY <1>1, <1>2 DEF ExchangeOK, StageOK
<1>4. AskingOK'
  BY <1>1, <1>3, Kept DEF ExchangeOK, AskingOK, AbandonReply
<1>5. CollectOK'
  BY <1>1, <1>3, Kept DEF ExchangeOK, CollectOK
<1>6. StageOK'
  BY <1>1, <1>2, <1>3, Kept DEF ExchangeOK, StageOK, AbandonReply
<1>7. OffsetOK'
  BY <1>1 DEF ExchangeOK, OffsetOK, NextNumber
<1>8. AirOK'
  <2>1. Upcoming' = Upcoming
    BY <1>1, Kept DEF Upcoming, NextNumber
  <2> QED
    BY <1>1, <2>1, Kept DEF ExchangeOK, AirOK
<1>9. ResendOK' /\ GiveUpOK'
  BY <1>1, Kept DEF ExchangeOK, ResendOK, GiveUpOK
<1> QED
  BY <1>4, <1>5, <1>6, <1>7, <1>8, <1>9 DEF ExchangeOK

LEMMA AbandonRestStep ==
  ASSUME Steady, AbandonRest
  PROVE  ExchangeOK'
<1> USE DEF At, flow, rx, mark, redo, tx, env
<1>1. /\ ExchangeOK /\ pc = "abandon" /\ pc' = "cmd"
      /\ phone' = phone /\ hvn' = hvn /\ g_apdu' = g_apdu
      /\ SumPackNumber' = 0 /\ Sendlenth' = 0 /\ lr' = 0
  BY DEF Steady, AbandonRest, ForgetReply
<1>2. Serving' => Serving
  BY <1>1 DEF Serving, AbandonRest
<1>3. AskingOK'
  BY <1>1, <1>2, Kept DEF ExchangeOK, AskingOK, AbandonRest
<1>4. CollectOK'
  BY <1>1, Kept DEF ExchangeOK, CollectOK, Counted, AbandonRest
<1>5. StageOK'
  BY <1>1, <1>2, Kept DEF ExchangeOK, StageOK, AbandonRest
<1>6. OffsetOK' /\ GiveUpOK'
  BY <1>1 DEF OffsetOK, GiveUpOK
<1>7. AirOK'
  BY <1>1, Kept DEF ExchangeOK, AirOK
<1>8. ResendOK'
  <2>1. ucResend = 1 => SumPackNumber = 0
    BY <1>1 DEF ExchangeOK, ResendOK, GiveUpOK, Heard
  <2> QED
    BY <1>1, <2>1, Kept DEF ExchangeOK, ResendOK, AbandonRest
<1> QED
  BY <1>3, <1>4, <1>5, <1>6, <1>7, <1>8 DEF ExchangeOK

\* A reply is composed over the command it answers.
LEMMA ReplyComposed ==
  ASSUME NEW r \in Replies, Send_bluetoothdata(r)
  PROVE  Composed' /\ g_apdu_length' = RSize[Reply']
<1>1. /\ Fragments(RSize[r]) \in 1 .. Slots /\ Slots \in Nat \ {0}
      /\ \A i \in Upto(Slots) : i < Fragments(RSize[r]) => g_apdu'[i] = r
  BY LinkAssumption DEF Send_bluetoothdata
<1>2. Reply' = r
  BY <1>1 DEF Reply, Upto
<1>3. \A i \in Upto(Fragments(RSize[r])) : g_apdu'[i] = r
  BY <1>1 DEF Upto
<1> QED
  BY <1>2, <1>3 DEF Composed, Total, Send_bluetoothdata

LEMMA ComposeStep ==
  ASSUME Steady, NEW r \in Replies, Send_bluetoothdata(r),
         blueRecivSendflag = "Recivedata" \/ owed, owed' = FALSE,
         pc \in {"cmd", "uart"}, pc' \in {"uart", "entry"},
         UNCHANGED <<connected, Apdufinsh, ucaRevPackN, redo, tx, hvn, phone>>
  PROVE  ExchangeOK'
<1> USE DEF mark, redo, tx
<1>1. ExchangeOK /\ phone' = phone /\ hvn' = hvn
  BY DEF Steady
<1>2. /\ Serving /\ lr = 0 /\ SumPackNumber = 0 /\ ~Heard
  BY <1>1 DEF ExchangeOK, StageOK, Serving
<1>3. /\ Asking /\ phone.todo = {} /\ phone.lost = {} /\ ucaRevPackN = {} /\ Apdufinsh = 0
  BY <1>1, <1>2 DEF ExchangeOK, StageOK
<1>4. blueRecivSendflag' = "Senddata" /\ Composed' /\ g_apdu_length' = RSize[Reply']
  BY ReplyComposed DEF Send_bluetoothdata
<1>5. AirSame /\ ~Heard'
  BY <1>1, <1>2, AirKept DEF AirSame
<1>6. InAir' = {} /\ phone'.got = {} /\ phone'.total = 0
  BY <1>1, <1>5 DEF Heard, ExchangeOK, AirOK
<1>7. AskingOK'
  BY <1>1, <1>3, PhoneKept DEF ExchangeOK, AskingOK
<1>8. CollectOK'
  BY <1>1, <1>3, PhoneKept DEF ExchangeOK, CollectOK
<1>9. StageOK'
  BY <1>2, <1>3, <1>4, <1>5, PhoneKept DEF StageOK, Serving
<1>10. OffsetOK' /\ GiveUpOK'
  BY <1>1, <1>2 DEF ExchangeOK, OffsetOK, GiveUpOK
<1>11. AirOK'
  BY <1>2, <1>6 DEF AirOK
<1>12. ResendOK'
  BY <1>1, <1>2, <1>3 DEF ExchangeOK, ResendOK
<1> QED
  BY <1>7, <1>8, <1>9, <1>10, <1>11, <1>12 DEF ExchangeOK

LEMMA CmdStep ==
  ASSUME Steady, BleCmdProcess
  PROVE  ExchangeOK'
<1> USE DEF At, flow, rx, mark, redo, tx, env
<1>1. /\ IInv /\ ExchangeOK /\ pc = "cmd" /\ pc' = "uart" /\ phone' = phone /\ hvn' = hvn
      /\ UNCHANGED <<connected, Apdufinsh, ucaRevPackN, redo, tx, hvn, phone>>
  BY DEF Steady, BleCmdProcess
<1>2. CASE ~Acceptable
  <2>1. AirSame
    BY <1>1, AirKept
  <2>2. UNCHANGED <<blueRecivSendflag, g_apdu, g_apdu_length, owed, ucaPackMsg, T_Connect>>
    BY <1>2 DEF BleCmdProcess
  <2> QED
    BY <1>1, <2>1, <2>2, ControlStep DEF Plain
<1>3. CASE Acceptable /\ \E r \in Replies : Send_bluetoothdata(r) /\ UNCHANGED owed
  <2>1. PICK r \in Replies : Send_bluetoothdata(r) /\ UNCHANGED owed
    BY <1>3
  <2>2. blueRecivSendflag = "Recivedata" /\ owed \in BOOLEAN /\ ~owed
    BY <1>1, <1>3 DEF Acceptable, ExchangeOK, StageOK, IInv, TypeOK, BoolType
  <2>3. owed' = FALSE
    BY <2>1, <2>2
  <2> QED
    BY <1>1, <2>1, <2>2, <2>3, ComposeStep
<1>4. CASE /\ Acceptable /\ blueRecivSendflag' = "NOdata" /\ owed' \in {TRUE}
           /\ UNCHANGED <<g_apdu, g_apdu_length>>
  <2>1. g_apdu' = g_apdu /\ g_apdu_length' = g_apdu_length /\ owed'
        /\ blueRecivSendflag' = "NOdata" /\ blueRecivSendflag = "Recivedata"
    BY <1>4 DEF Acceptable
  <2>2. /\ Serving /\ lr = 0 /\ SumPackNumber = 0 /\ ~Heard
    BY <1>1, <2>1 DEF ExchangeOK, StageOK, Serving
  <2>3. /\ Asking /\ phone.todo = {} /\ phone.lost = {} /\ ucaRevPackN = {} /\ Apdufinsh = 0
    BY <1>1, <2>2 DEF ExchangeOK, StageOK
  <2>4. AskingOK'
    BY <1>1, <2>1, <2>3, Kept DEF ExchangeOK, AskingOK
  <2>5. CollectOK'
    BY <1>1, <2>3, PhoneKept DEF ExchangeOK, CollectOK
  <2>6. StageOK'
    BY <1>1, <2>1, <2>2, <2>3, Kept DEF StageOK, Serving
  <2>7. OffsetOK' /\ GiveUpOK'
    BY <1>1, <2>2 DEF ExchangeOK, OffsetOK, GiveUpOK
  <2>8. AirOK'
    BY <1>1, <2>1, <2>2, Kept DEF ExchangeOK, AirOK
  <2>9. ResendOK'
    BY <1>1, <2>2, <2>3 DEF ExchangeOK, ResendOK
  <2> QED
    BY <2>4, <2>5, <2>6, <2>7, <2>8, <2>9 DEF ExchangeOK
<1>5. Patient
  BY DEF Steady, Undisturbed
<1> QED
  BY <1>2, <1>3, <1>4, <1>5 DEF BleCmdProcess

LEMMA UartStep ==
  ASSUME Steady, Uart_cmdprogam
  PROVE  ExchangeOK'
<1> USE DEF At, rx, redo, tx
<1>1. owed /\ owed' = FALSE /\ pc = "uart" /\ pc' = "entry"
      /\ UNCHANGED <<connected, Apdufinsh, ucaRevPackN, redo, tx, hvn, phone>>
  BY DEF Steady, Undisturbed, Uart_cmdprogam
<1>2. PICK r \in Replies : Send_bluetoothdata(r)
  BY DEF Uart_cmdprogam
<1> QED
  BY <1>1, <1>2, ComposeStep

\* A fragment goes out: it is the next one, and none of a greater number has.
LEMMA SendStep ==
  ASSUME Steady, lr # 0, pc = "send", pc' \in {"sentFirst", "sentNext", "sentLast"},
         pc' # "sentLast" => lr > First,
         pc' = "sentFirst" => Sendlenth = 0,
         pc' = "sentNext" => Sendlenth # 0 /\ NextNumber + 1 < Total,
         Upcoming \in Upto(Total), Fragment(Upcoming, Total, Upcoming),
         Upcoming' = Upcoming + 1, SumPackNumber' = Total,
         UNCHANGED <<flow, rx, ucaPackMsg, redo, Sendlenth, lr, phone, owed>>
  PROVE  ExchangeOK'
<1> USE DEF flow, rx, mark, redo
<1>1. /\ IInv /\ ExchangeOK /\ phone' = phone /\ g_apdu' = g_apdu /\ lr' = lr
      /\ Sendlenth' = Sendlenth
  BY DEF Steady
<1>2. /\ Composed /\ lr = RSize[Reply] /\ Serving /\ Serving'
      /\ SumPackNumber # 0 => SumPackNumber = Total
  BY <1>1 DEF ExchangeOK, StageOK, Serving
<1>3. /\ Asking /\ phone.todo = {} /\ phone.lost = {} /\ ucaRevPackN = {} /\ Apdufinsh = 0
      /\ blueRecivSendflag = "NOdata" /\ ~owed
  BY <1>1, <1>2 DEF ExchangeOK, StageOK
<1>4. Total \in 1 .. Slots /\ Slots \in Nat
  BY <1>2, LinkAssumption DEF Composed, Total
<1>5. ucResend # 1
  BY <1>1, <1>3 DEF ExchangeOK, ResendOK
<1>6. Reply' = Reply /\ Total' = Total /\ Composed' = Composed
  BY <1>1, ReplyKept
<1>7. AskingOK'
  BY <1>1, <1>3, PhoneKept DEF ExchangeOK, AskingOK
<1>8. CollectOK'
  BY <1>1, <1>3, PhoneKept DEF ExchangeOK, CollectOK
<1>9. StageOK'
  BY <1>1, <1>2, <1>3, <1>6, PhoneKept DEF StageOK
<1>10. OffsetOK'
  <2>1. NextNumber' = NextNumber
    BY <1>1 DEF NextNumber
  <2> QED
    BY <1>1, <1>2, <1>4, <2>1 DEF ExchangeOK, OffsetOK
<1>11. AirOK'
  <2>1. CASE AirSame
    <3>1. \A n \in Numbers' : n < Upcoming'
      <4>1. \A n \in Numbers : n < Upcoming /\ n \in Int
        BY <1>1, <1>4 DEF ExchangeOK, AirOK, Numbers, Upto
      <4> QED
        BY <2>1, <4>1, <1>4 DEF AirSame, Upto
    <3> QED
      BY <1>1, <1>6, <2>1, <3>1 DEF ExchangeOK, AirOK, AirSame
  <2>2. CASE \E n \in Nat \ InAir :
               /\ InAir' = InAir \cup {n} /\ Numbers' = Numbers \cup {Upcoming}
               /\ \A i \in InAir : hvn'[i] = hvn[i]
               /\ hvn'[n].num = Upcoming /\ hvn'[n].total = Total
               /\ Upcoming \in Upto(Slots) => hvn'[n].tag = g_apdu[Upcoming]
    <3>1. PICK n \in Nat \ InAir :
               /\ InAir' = InAir \cup {n} /\ Numbers' = Numbers \cup {Upcoming}
               /\ \A i \in InAir : hvn'[i] = hvn[i]
               /\ hvn'[n].num = Upcoming /\ hvn'[n].total = Total
               /\ Upcoming \in Upto(Slots) => hvn'[n].tag = g_apdu[Upcoming]
      BY <2>2
    <3>2. hvn'[n].tag = Reply
      BY <1>2, <1>4, <3>1 DEF Composed, Upto
    <3>3. \A k \in Numbers : k < Upcoming /\ k \in Int
      BY <1>1, <1>4 DEF ExchangeOK, AirOK, Numbers, Upto
    <3>4. \A i \in InAir : hvn[i].num # Upcoming
      BY <3>3 DEF Numbers
    <3>5. \A f \in phone.got : f[1] # Upcoming
      BY <3>3 DEF Numbers
    <3>6. \A k \in Numbers' : k < Upcoming'
      BY <1>4, <3>1, <3>3 DEF Upto
    <3> QED
      BY <1>1, <1>6, <3>1, <3>2, <3>4, <3>5, <3>6 DEF ExchangeOK, AirOK
  <2> QED
    BY <1>1, <2>1, <2>2, AirSent
<1>12. ResendOK' /\ GiveUpOK'
  BY <1>1, <1>5 DEF ResendOK, GiveUpOK
<1> QED
  BY <1>7, <1>8, <1>9, <1>10, <1>11, <1>12 DEF ExchangeOK

\* What a reply that is going out looks like.
LEMMA Outgoing ==
  ASSUME Steady, lr # 0
  PROVE  /\ Composed /\ lr = RSize[Reply] /\ lr \in Nat \ {0} /\ lr < U16
         /\ Total = Fragments(lr) /\ Total \in 1 .. Slots
         /\ SumPackNumber # 0 => SumPackNumber = Total
         /\ Slots < U8 /\ U16 \in Nat
<1>1. Composed /\ lr = RSize[Reply] /\ (SumPackNumber # 0 => SumPackNumber = Total)
  BY DEF Steady, ExchangeOK, StageOK
<1>2. Reply \in Replies /\ {Slots, Word, U8, U16} \subseteq Nat \ {0}
  BY <1>1, LinkAssumption, WordAssumption DEF Composed
<1> QED
  BY <1>1, <1>2, LinkAssumption DEF Steady, SizesFit, Total

LEMMA SendSingleStep ==
  ASSUME Steady, SendSingle
  PROVE  ExchangeOK'
<1> USE DEF At, flow, rx, mark, redo, tx, env
<1>1. lr > 0 /\ lr <= First /\ lr # 0 /\ pc = "send" /\ pc' = "sentLast"
  BY DEF SendSingle
<1>2. Total = 1
  BY <1>1, Outgoing DEF Fragments
<1>3. Upcoming = 0
  BY <1>1 DEF Steady, ExchangeOK, OffsetOK, Upcoming
<1>4. Upcoming' = 1
  BY <1>1, <1>2, ReplyKept DEF Upcoming, SendSingle
<1>5. Upcoming \in Upto(Total)
  BY <1>2, <1>3 DEF Upto
<1>6. Fragment(Upcoming, Total, Upcoming)
  BY <1>2, <1>3 DEF SendSingle
<1>7. Upcoming' = Upcoming + 1 /\ SumPackNumber' = Total
  BY <1>2, <1>3, <1>4 DEF SendSingle
<1>8. UNCHANGED <<flow, rx, ucaPackMsg, redo, Sendlenth, lr, phone, owed>>
  BY DEF SendSingle
<1> QED
  BY <1>1, <1>5, <1>6, <1>7, <1>8, SendStep

LEMMA SendFirstStep ==
  ASSUME Steady, SendFirst
  PROVE  ExchangeOK'
<1> USE DEF At, flow, rx, mark, redo, tx, env
<1>1. lr > First /\ Sendlenth = 0 /\ lr # 0 /\ pc = "send" /\ pc' = "sentFirst"
  BY Widths DEF SendFirst
<1>2. Total = Fragments(lr) /\ Total \in Nat /\ Total >= 1
  BY <1>1, Outgoing, LinkAssumption
<1>3. Upcoming = 0 /\ Upcoming' = 1
  BY <1>1 DEF Upcoming
<1>4. Upcoming \in Upto(Total)
  BY <1>2, <1>3 DEF Upto
<1>5. Fragment(Upcoming, Total, Upcoming)
  BY <1>2, <1>3 DEF SendFirst
<1>6. Upcoming' = Upcoming + 1 /\ SumPackNumber' = Total
  BY <1>2, <1>3 DEF SendFirst
<1>7. UNCHANGED <<flow, rx, ucaPackMsg, redo, Sendlenth, lr, phone, owed>>
  BY DEF SendFirst
<1> QED
  BY <1>1, <1>4, <1>5, <1>6, <1>7, SendStep

\* The fragment the offset is at.
LEMMA FragmentAt ==
  ASSUME Steady, lr > First, Sendlenth # 0
  PROVE  /\ SumPackNumber = Total
         /\ \E k \in 1 .. Total - 1 : Sendlenth = First + Body * (k - 1) /\ NextNumber = k
<1>1. lr # 0
  BY Widths
<1>2. SumPackNumber = Total /\ Total \in Nat
  BY <1>1, Outgoing, LinkAssumption DEF Steady, ExchangeOK, OffsetOK
<1>3. PICK k \in 1 .. Total - 1 : Sendlenth = First + Body * (k - 1)
  BY <1>2 DEF Steady, ExchangeOK, OffsetOK
<1>4. k \in Nat \ {0}
  BY <1>2
<1>5. NextNumber = k
  BY <1>3, <1>4, NumberAt DEF NextNumber
<1> QED
  BY <1>2, <1>3, <1>5

LEMMA SendNextStep ==
  ASSUME Steady, SendNext
  PROVE  ExchangeOK'
<1> USE DEF At, flow, rx, mark, redo, tx, env
<1>1. lr > First /\ Sendlenth # 0 /\ lr # 0 /\ pc = "send"
  BY Widths DEF SendNext
<1>2. /\ Total = Fragments(lr) /\ Total \in Nat /\ Total <= Slots /\ Slots < U8
      /\ Slots \in Nat /\ U8 \in Nat
  BY <1>1, Outgoing, LinkAssumption
<1>3. NextNumber \in 1 .. Total - 1
  BY <1>1, FragmentAt
<1>4. NextNumber % U8 = NextNumber
  BY <1>2, <1>3
<1>5. pc' = IF Total - NextNumber = 1 THEN "sentLast" ELSE "sentNext"
  BY <1>2, <1>4 DEF SendNext
<1>6. Upcoming = NextNumber
  BY <1>1 DEF Upcoming
<1>7. Upcoming' = Upcoming + 1
  <2>1. NextNumber' = NextNumber /\ Total' = Total
    BY ReplyKept DEF SendNext, NextNumber
  <2> QED
    BY <1>2, <1>3, <1>5, <1>6, <2>1 DEF Upcoming
<1>8. Upcoming \in Upto(Total) /\ (pc' = "sentNext" => NextNumber + 1 < Total)
  BY <1>2, <1>3, <1>5, <1>6 DEF Upto
<1>9. Fragment(Upcoming, Total, Upcoming) /\ SumPackNumber' = Total
  BY <1>2, <1>4, <1>6 DEF SendNext
<1>10. UNCHANGED <<flow, rx, ucaPackMsg, redo, Sendlenth, lr, phone, owed>>
  BY DEF SendNext
<1> QED
  BY <1>1, <1>5, <1>7, <1>8, <1>9, <1>10, SendStep

\* The offset moves on to the fragment that follows the one that went out.
LEMMA OffsetStep ==
  ASSUME Steady, NEW k \in 1 .. Total - 1, Upcoming = k, lr > First,
         Sendlenth' = First + Body * (k - 1),
         pc \in {"sentFirst", "sentNext"}, pc' = "resend",
         UNCHANGED <<flow, rx, ucaPackMsg, T_Connect, redo, SumPackNumber, lr, hvn,
                     phone, owed>>
  PROVE  ExchangeOK'
<1> USE DEF flow, rx, mark, redo
<1>1. ExchangeOK /\ phone' = phone /\ hvn' = hvn /\ g_apdu' = g_apdu
  BY DEF Steady
<1>2. lr # 0
  BY Widths
<1>3. SumPackNumber = Total /\ Total \in Nat /\ Serving' = Serving
  BY <1>1, <1>2, Outgoing, LinkAssumption DEF ExchangeOK, OffsetOK, Serving
<1>4. k \in Nat \ {0}
  BY <1>3
<1>5. Sendlenth' # 0 /\ NextNumber' = k
  BY <1>4, NumberAt DEF NextNumber
<1>6. Total' = Total /\ Composed' = Composed /\ Reply' = Reply
  BY <1>1, ReplyKept
<1>7. AskingOK'
  BY <1>1, <1>3, Kept DEF ExchangeOK, AskingOK
<1>8. CollectOK'
  BY <1>1, <1>3, Kept DEF ExchangeOK, CollectOK, Counted
<1>9. StageOK'
  BY <1>1, <1>3, Kept DEF ExchangeOK, StageOK
<1>10. OffsetOK'
  <2>1. lr' = lr /\ lr \in Nat /\ First \in Nat /\ SumPackNumber' = Total
    BY <1>2, <1>3, Outgoing, Widths
  <2>2. ~(lr' <= First) /\ SumPackNumber' # 0
    BY <1>3, <2>1
  <2> QED
    BY <1>3, <2>1, <2>2 DEF OffsetOK
<1>11. AirOK'
  <2>1. Upcoming' = Upcoming
    BY <1>5 DEF Upcoming
  <2> QED
    BY <1>1, <2>1, Kept DEF ExchangeOK, AirOK
<1>12. ResendOK'
  <2>1. Positions' = Positions /\ Ahead' = Ahead
    BY DEF Positions, Ahead
  <2> QED
    BY <1>1, <2>1, Kept DEF ExchangeOK, ResendOK
<1>13. GiveUpOK'
  BY <1>2 DEF GiveUpOK
<1> QED
  BY <1>7, <1>8, <1>9, <1>10, <1>11, <1>12, <1>13 DEF ExchangeOK

LEMMA FirstSentStep ==
  ASSUME Steady, FirstSent
  PROVE  ExchangeOK'
<1> USE DEF At, flow, rx, mark, redo, tx, env
<1>1. pc = "sentFirst" /\ pc' = "resend" /\ lr > First /\ Sendlenth' = First
  BY DEF FirstSent, Steady, ExchangeOK, OffsetOK
<1>2. lr # 0 /\ lr \in Nat /\ First \in Nat
  BY <1>1, Widths DEF Steady, IInv, TypeOK, TxType
<1>3. Total >= 2 /\ Total \in Nat
  BY <1>1, <1>2, Outgoing, FragmentsFit
<1>4. 1 \in 1 .. Total - 1 /\ Upcoming = 1
  BY <1>1, <1>3 DEF Upcoming
<1>5. Sendlenth' = First + Body * (1 - 1)
  BY <1>1, Widths
<1>6. UNCHANGED <<flow, rx, ucaPackMsg, T_Connect, redo, SumPackNumber, lr, hvn,
                  phone, owed>>
  BY DEF FirstSent
<1> QED
  BY <1>1, <1>4, <1>5, <1>6, OffsetStep

LEMMA NextSentStep ==
  ASSUME Steady, NextSent
  PROVE  ExchangeOK'
<1> USE DEF At, flow, rx, mark, redo, tx, env
<1>1. /\ pc = "sentNext" /\ pc' = "resend" /\ lr > First /\ Sendlenth # 0
      /\ NextNumber + 1 < SumPackNumber
  BY DEF NextSent, Steady, ExchangeOK, OffsetOK
<1>2. /\ lr # 0 /\ lr \in Nat /\ lr < U16 /\ U16 \in Nat \ {0} /\ Total = Fragments(lr)
      /\ {First, Body} \subseteq Nat \ {0}
  BY <1>1, Widths, Outgoing DEF Steady, IInv, TypeOK, TxType
<1>3. Total \in Nat /\ Total >= 2 /\ First + Body * (Total - 2) < lr
  BY <1>1, <1>2, FragmentsFit
<1>4. PICK k \in 1 .. Total - 1 : Sendlenth = First + Body * (k - 1) /\ NextNumber = k
  BY <1>1, FragmentAt
<1>5. k + 1 < Total /\ k \in Nat
  BY <1>1, <1>3, <1>4, FragmentAt
<1>6. Body * k <= Body * (Total - 2) /\ Body * (k - 1) = Body * k - Body /\ Body * k \in Nat
      /\ Body * (Total - 2) \in Nat
  BY <1>2, <1>3, <1>5, TimesMonotonic
<1>7. Sendlenth + Body = First + Body * k
  BY <1>2, <1>4, <1>6
<1>8. First + Body * k \in 0 .. U16 - 1
  BY <1>2, <1>3, <1>6
<1>9. Sendlenth' = First + Body * k
  BY <1>2, <1>7, <1>8 DEF NextSent, NextOffset
<1>10. Sendlenth' = First + Body * ((k + 1) - 1)
  BY <1>5, <1>9
<1>11. k + 1 \in 1 .. Total - 1 /\ Upcoming = k + 1
  BY <1>1, <1>3, <1>4, <1>5 DEF Upcoming
<1>12. UNCHANGED <<flow, rx, ucaPackMsg, T_Connect, redo, SumPackNumber, lr, hvn,
                   phone, owed>>
  BY DEF NextSent
<1> QED
  BY <1>1, <1>10, <1>11, <1>12, OffsetStep

LEMMA LastSentStep ==
  ASSUME Steady, LastSent
  PROVE  ExchangeOK'
<1> USE DEF At, flow, rx, mark, redo, tx, env
<1>1. /\ ExchangeOK /\ phone' = phone /\ hvn' = hvn /\ g_apdu' = g_apdu
      /\ pc = "sentLast" /\ pc' = "resend" /\ lr' = 0 /\ Sendlenth' = lr
      /\ SumPackNumber' = SumPackNumber
  BY DEF Steady, LastSent
<1>2. Serving' => Serving
  BY <1>1 DEF Serving, LastSent
<1>3. AskingOK'
  BY <1>1, <1>2, Kept DEF ExchangeOK, AskingOK, LastSent
<1>4. CollectOK'
  BY <1>1, Kept DEF ExchangeOK, CollectOK, Counted, LastSent
<1>5. StageOK'
  BY <1>1, <1>2, Kept DEF ExchangeOK, StageOK, LastSent
<1>6. OffsetOK'
  BY <1>1, Widths DEF ExchangeOK, OffsetOK
<1>7. AirOK'
  BY <1>1, Kept DEF ExchangeOK, AirOK
<1>8. ResendOK'
  <2>1. Positions' = Positions /\ Ahead' = Ahead
    BY <1>1 DEF Positions, Ahead, LastSent
  <2> QED
    BY <1>1, <2>1, Kept DEF ExchangeOK, ResendOK, LastSent
<1>9. GiveUpOK'
  BY <1>1 DEF GiveUpOK, LastSent, TP_START
<1> QED
  BY <1>3, <1>4, <1>5, <1>6, <1>7, <1>8, <1>9 DEF ExchangeOK

\* A fragment is sent again only if the phone has not got it and it is not on
\* the way.
LEMMA ReSendStep ==
  ASSUME Steady, ReSendNotification
  PROVE  ExchangeOK'
<1> USE DEF At, flow, rx, mark, redo, tx, env
<1>1. /\ IInv /\ ExchangeOK /\ phone' = phone /\ g_apdu' = g_apdu
      /\ pc = "resend" /\ pc' = "resent" /\ ucResend = 1 /\ ucResend' = ucResend
      /\ lr' = lr /\ SumPackNumber' = SumPackNumber /\ Sendlenth' = Sendlenth
      /\ T_Connect' = T_Connect /\ ucaPackMsg' = ucaPackMsg /\ remberPackn' = remberPackn
  BY DEF Steady, ReSendNotification
<1>2. Serving' = Serving /\ Positions' = Positions
  BY DEF Serving, Positions, ReSendNotification
<1>3. remberPackn \in Nat
  BY <1>1 DEF IInv, TypeOK, ListType, Upto
<1>4. Ahead' = Ahead \ {remberPackn}
  BY <1>1, <1>2 DEF Ahead
<1>5. CASE AirSame
  <2>1. AskingOK'
    BY <1>1, <1>2, <1>5, PhoneKept DEF ExchangeOK, AskingOK, AirSame, ReSendNotification
  <2>2. CollectOK'
    BY <1>1, <1>2, <1>5, PhoneKept DEF ExchangeOK, CollectOK, Counted, AirSame, ReSendNotification
  <2>3. StageOK'
    BY <1>1, <1>2, <1>5, PhoneKept, ReplyKept DEF ExchangeOK, StageOK, AirSame, ReSendNotification
  <2>4. OffsetOK'
    BY <1>1, <1>2 DEF ExchangeOK, OffsetOK
  <2>5. AirOK'
    <3>1. Upcoming' = Upcoming
      BY <1>1, ReplyKept DEF Upcoming, NextNumber
    <3> QED
      BY <1>1, <1>5, <3>1, ReplyKept DEF ExchangeOK, AirOK, AirSame
  <2>6. ResendOK'
    BY <1>1, <1>2, <1>4, <1>5, PhoneKept, ReplyKept DEF ExchangeOK, ResendOK, AirSame
  <2>7. GiveUpOK'
    BY <1>1, <1>5 DEF ExchangeOK, GiveUpOK, AirSame
  <2> QED
    BY <2>1, <2>2, <2>3, <2>4, <2>5, <2>6, <2>7 DEF ExchangeOK
<1>6. CASE ~AirSame
  <2>1. Wanted # 0 /\ Fragment(Wanted - 1, SumPackNumber, Wanted - 1)
    BY <1>1, <1>6, AirKept DEF ReSendNotification
  <2>2. remberPackn \in ucaPackMsg.missing /\ Wanted - 1 = remberPackn
    BY <1>3, <2>1 DEF Wanted, NextExpPack
  <2>3. SumPackNumber # 0
    BY <1>1, <2>2 DEF ExchangeOK, ResendOK
  <2>4. /\ Serving /\ Composed /\ SumPackNumber = Total /\ lr = 0 /\ phone.got # {}
        /\ remberPackn \in Upto(Total) /\ Heard
    BY <1>1, <2>2, <2>3 DEF ExchangeOK, StageOK, ResendOK, Serving, Heard
  <2>5. /\ Asking /\ phone.todo = {} /\ phone.lost = {} /\ ucaRevPackN = {} /\ Apdufinsh = 0
        /\ blueRecivSendflag = "NOdata" /\ ~owed
    BY <1>1, <2>4 DEF ExchangeOK, StageOK
  <2>6. Total \in 1 .. Slots /\ Slots \in Nat
    BY <2>4, LinkAssumption DEF Composed, Total
  <2>7. remberPackn \in Ahead
    BY <1>1, <1>3, <2>2 DEF Ahead
  <2>8. remberPackn \notin Numbers /\ Ahead \cap Numbers = {}
    BY <1>1, <2>3, <2>7 DEF ExchangeOK, ResendOK
  <2>9. PICK n \in Nat \ InAir :
               /\ InAir' = InAir \cup {n} /\ Numbers' = Numbers \cup {remberPackn}
               /\ \A i \in InAir : hvn'[i] = hvn[i]
               /\ hvn'[n].num = remberPackn /\ hvn'[n].total = SumPackNumber
               /\ remberPackn \in Upto(Slots) => hvn'[n].tag = g_apdu[remberPackn]
    BY <1>1, <1>6, <2>1, <2>2, AirSent
  <2>10. hvn'[n].tag = Reply
    BY <2>4, <2>6, <2>9 DEF Composed, Upto
  <2>11. AskingOK'
    BY <1>1, <2>5, PhoneKept DEF ExchangeOK, AskingOK, ReSendNotification
  <2>12. CollectOK'
    BY <1>1, <2>5, PhoneKept DEF ExchangeOK, CollectOK, ReSendNotification
  <2>13. StageOK'
    BY <1>1, <2>4, <2>5, PhoneKept, ReplyKept DEF StageOK, Serving, ReSendNotification
  <2>14. OffsetOK'
    BY <1>1, <1>2 DEF ExchangeOK, OffsetOK
  <2>15. AirOK'
    <3>1. \A i \in InAir : hvn[i].num # remberPackn
      BY <2>8 DEF Numbers
    <3>2. \A f \in phone.got : f[1] # remberPackn
      BY <2>8 DEF Numbers
    <3> QED
      BY <1>1, <2>4, <2>9, <2>10, <3>1, <3>2, ReplyKept DEF ExchangeOK, AirOK
  <2>16. ResendOK'
    <3>1. Ahead' \cap Numbers' = {} /\ Total' = Total
      BY <1>1, <1>4, <2>8, <2>9, ReplyKept
    <3>2. /\ ucaPackMsg.missing \subseteq Upto(Total)
          /\ Positions < U8 /\ \A k \in ucaPackMsg.missing : k < Positions
      BY <1>1, <2>3 DEF ExchangeOK, ResendOK
    <3> QED
      BY <1>1, <1>2, <2>3, <2>4, <3>1, <3>2 DEF ResendOK
  <2>17. GiveUpOK'
    BY <1>1, <2>4 DEF ExchangeOK, GiveUpOK
  <2> QED
    BY <2>11, <2>12, <2>13, <2>14, <2>15, <2>16, <2>17 DEF ExchangeOK
<1> QED
  BY <1>5, <1>6

LEMMA ResentStep ==
  ASSUME Steady, Resent
  PROVE  ExchangeOK'
<1> USE DEF At, flow, rx, mark, redo, tx, env
<1>1. /\ IInv /\ ExchangeOK /\ phone' = phone /\ hvn' = hvn /\ g_apdu' = g_apdu
      /\ pc = "resent" /\ pc' = "timeout"
      /\ lr' = lr /\ SumPackNumber' = SumPackNumber /\ Sendlenth' = Sendlenth
      /\ ucaPackMsg' = ucaPackMsg
  BY DEF Steady, Resent
<1>2. Serving' = Serving /\ Positions' = Positions
  BY DEF Serving, Positions, Resent
<1>3. AskingOK'
  BY <1>1, <1>2, Kept DEF ExchangeOK, AskingOK, Resent
<1>4. CollectOK'
  BY <1>1, Kept DEF ExchangeOK, CollectOK, Counted, Resent
<1>5. StageOK'
  BY <1>1, <1>2, Kept DEF ExchangeOK, StageOK, Resent
<1>6. OffsetOK'
  BY <1>1 DEF ExchangeOK, OffsetOK
<1>7. AirOK'
  <2>1. Upcoming' = Upcoming
    BY <1>1, Kept DEF Upcoming, NextNumber
  <2> QED
    BY <1>1, <2>1, Kept DEF ExchangeOK, AirOK
<1>8. GiveUpOK'
  BY <1>1, Kept DEF ExchangeOK, GiveUpOK, Resent, TP_START
<1>9. ResendOK'
  <2>1. CASE ucResend' = 0
    BY <1>1, <2>1 DEF ResendOK
  <2>2. CASE ucResend' # 0
    <3>1. Positions # remberPackn /\ remberPackn' = (remberPackn + 1) % U8
          /\ ucResend' = ucResend
      BY <2>2 DEF Resent, ResendOver
    <3>2. SumPackNumber # 0 => Ahead' \subseteq Ahead
      <4> SUFFICES ASSUME SumPackNumber # 0, NEW n \in Ahead' PROVE n \in Ahead
        OBVIOUS
      <4>1. ucResend = 1 /\ Positions < U8 /\ \A i \in ucaPackMsg.missing : i < Positions
        BY <1>1 DEF ExchangeOK, ResendOK
      <4>2. remberPackn \in Nat /\ U8 \in Nat /\ Positions \in Int /\ n \in Nat
            /\ remberPackn < U8
        BY <1>1, LinkAssumption, WordAssumption
           DEF IInv, TypeOK, ListType, Upto, Positions, Ahead
      <4>3. n \in ucaPackMsg.missing /\ n < Positions
            /\ (remberPackn' <= Positions => n >= remberPackn')
        BY <1>1, <1>2, <4>1 DEF Ahead
      <4>4. CASE remberPackn < Positions
        <5>1. remberPackn' = remberPackn + 1
          BY <3>1, <4>1, <4>2, <4>4
        <5> QED
          BY <4>2, <4>3, <4>4, <5>1 DEF Ahead
      <4>5. CASE remberPackn > Positions
        BY <4>2, <4>3, <4>5 DEF Ahead
      <4> QED
        BY <3>1, <4>2, <4>4, <4>5
    <3> QED
      BY <1>1, <1>2, <3>1, <3>2, Kept DEF ExchangeOK, ResendOK
  <2> QED
    BY <2>1, <2>2
<1> QED
  BY <1>3, <1>4, <1>5, <1>6, <1>7, <1>8, <1>9 DEF ExchangeOK

-----------------------------------------------------------------------------
(* The steps of the phone.                                                  *)

LEMMA PhoneStartsStep ==
  ASSUME Steady, NEW m \in Msgs, PhoneStarts(m)
  PROVE  ExchangeOK'
<1> USE DEF flow, rx, mark, redo, tx, PhoneOnly
<1>1. ExchangeOK /\ ~Asking /\ ucResend = 0 /\ connected /\ hvn' = hvn
  BY DEF Steady, Undisturbed, PhoneStarts
<1>2. ~Serving /\ ~Heard /\ ucaRevPackN = {} /\ Apdufinsh = 0
  BY <1>1 DEF ExchangeOK, AskingOK
<1>3. /\ phone'.msg = m /\ phone'.todo = Upto(Packets(m)) /\ phone'.lost = {}
      /\ phone'.got = {} /\ phone'.total = 0
  BY DEF PhoneStarts, Idle
<1>4. Asking' /\ Expected' = Upto(Packets(m)) /\ Seen' = {}
  BY <1>3, LinkAssumption DEF Asking, Expected, Seen
<1>5. ~Serving' /\ ~Heard' /\ InAir' = {}
  BY <1>1, <1>2, <1>3 DEF Serving, Heard, InAir, PhoneStarts
<1>6. pc # "clear" /\ pc # "drop" /\ pc' = pc
  BY <1>1, <1>2 DEF ExchangeOK, CollectOK, Serving, PhoneStarts
<1>7. AskingOK'
  BY <1>1, <1>3, <1>4 DEF AskingOK, Expected, PhoneStarts
<1>8. CollectOK'
  BY <1>2, <1>4, <1>6 DEF CollectOK, PhoneStarts
<1>9. StageOK'
  BY <1>5 DEF StageOK, Serving
<1>10. OffsetOK'
  BY <1>1 DEF ExchangeOK, OffsetOK, NextNumber, PhoneStarts
<1>11. AirOK'
  BY <1>3, <1>5 DEF AirOK, Serving
<1>12. ResendOK' /\ GiveUpOK'
  BY <1>1, <1>5 DEF ExchangeOK, ResendOK, GiveUpOK, PhoneStarts
<1> QED
  BY <1>7, <1>8, <1>9, <1>10, <1>11, <1>12 DEF ExchangeOK

\* One packet more in the bitmap, and its bytes in the count.
LEMMA CountedGrows ==
  ASSUME NEW m \in Msgs, NEW rev \in SUBSET Upto(Packets(m)), NEW n \in Upto(Packets(m)),
         n \notin rev,
         NEW before, NEW after,
         before = Body * Cardinality(rev)
                    - (IF Packets(m) - 1 \in rev THEN Body * Packets(m) - Size[m] ELSE 0),
         after = Body * Cardinality(rev \cup {n})
                    - (IF Packets(m) - 1 \in rev \cup {n} THEN Body * Packets(m) - Size[m] ELSE 0)
  PROVE  /\ after = before + PacketBytes(m, n)
         /\ after \in 0 .. Size[m] /\ before \in Int
         /\ rev = {} => before = 0
<1> DEFINE P == Packets(m)
           c == Cardinality(rev)
           d == Cardinality(rev \cup {n})
<1>1. /\ P \in Nat \ {0} /\ Body \in Nat \ {0} /\ Size[m] \in Nat \ {0}
      /\ Body * (P - 1) < Size[m] /\ Size[m] <= Body * P
  BY PacketsFit, LinkAssumption
<1>2. IsFiniteSet(Upto(P)) /\ Cardinality(Upto(P)) = P
  <2>1. Upto(P) = 0 .. (P - 1) /\ P - 1 \in Int /\ 0 \in Int /\ ~(0 > P - 1) /\ (P - 1) - 0 + 1 = P
    BY <1>1 DEF Upto
  <2>2. /\ IsFiniteSet(0 .. (P - 1))
        /\ Cardinality(0 .. (P - 1)) = IF 0 > P - 1 THEN 0 ELSE (P - 1) - 0 + 1
    BY <2>1, FS_Interval
  <2> QED BY <2>1, <2>2
<1>3. IsFiniteSet(rev) /\ IsFiniteSet(rev \cup {n}) /\ d <= P
  BY <1>2, FS_Subset
<1>4. c \in Nat /\ d = c + 1
  BY <1>3, FS_AddElement, FS_CardinalityType
<1>5. n \in 0 .. P - 1 /\ n \in Nat
  BY <1>1 DEF Upto
<1>6. Body * d = Body * c + Body /\ Body * c \in Nat /\ Body * (P - 1) = Body * P - Body
      /\ Body * P \in Nat
  BY <1>1, <1>4
<1>7. rev = {} => c = 0
  BY FS_EmptySet
<1>8. PacketBytes(m, n) = IF n + 1 < P THEN Body ELSE Size[m] - n * Body
  BY DEF PacketBytes
<1>9. Body * d <= Body * P
  BY <1>1, <1>3, <1>4, TimesMonotonic
<1>10. CASE n = P - 1
  <2>1. n * Body = Body * P - Body
    BY <1>1, <1>6, <1>10
  <2>2. PacketBytes(m, n) = Size[m] - (Body * P - Body)
    BY <1>1, <1>8, <1>10, <2>1
  <2>3. before = Body * c - 0 /\ after = Body * d - (Body * P - Size[m])
    <3>1. P - 1 \notin rev /\ P - 1 \in rev \cup {n}
      BY <1>10
    <3> QED
      BY <3>1
  <2> HIDE DEF P, c, d
  <2> QED
    BY <1>1, <1>4, <1>6, <1>7, <1>9, <2>2, <2>3
<1>11. CASE n # P - 1
  <2>1. PacketBytes(m, n) = Body
    BY <1>1, <1>5, <1>8, <1>11
  <2>2. P - 1 \in rev \cup {n} <=> P - 1 \in rev
    BY <1>11
  <2>3. CASE P - 1 \in rev
    <3>1. before = Body * c - (Body * P - Size[m]) /\ after = Body * d - (Body * P - Size[m])
      BY <2>2, <2>3
    <3>2. rev # {}
      BY <2>3
    <3>3. c >= 1
      BY <1>3, <1>4, <3>2, FS_EmptySet
    <3>4. Body * c >= Body
      <4>1. Body * 1 <= Body * c
        BY <1>1, <1>4, <3>3, TimesMonotonic
      <4> QED
        BY <1>1, <4>1
    <3> HIDE DEF P, c, d
    <3> QED
      BY <1>1, <1>4, <1>6, <1>9, <2>1, <3>1, <3>2, <3>4
  <2>4. CASE P - 1 \notin rev
    <3>1. before = Body * c /\ after = Body * d
      BY <2>2, <2>4, <1>1, <1>4, <1>6
    <3>2. rev \cup {n} \subseteq Upto(P) \ {P - 1} /\ P - 1 \in Upto(P)
      BY <1>1, <1>11, <2>4 DEF Upto
    <3>3. Cardinality(Upto(P) \ {P - 1}) = P - 1 /\ IsFiniteSet(Upto(P) \ {P - 1})
      BY <1>1, <1>2, <3>2, FS_RemoveElement
    <3>4. d <= P - 1
      BY <3>2, <3>3, FS_Subset
    <3>5. Body * d <= Body * (P - 1)
      BY <1>1, <1>4, <3>4, TimesMonotonic
    <3> HIDE DEF P, c, d
    <3> QED
      BY <1>1, <1>4, <1>6, <1>7, <2>1, <3>1, <3>5
  <2> QED
    BY <2>3, <2>4
<1> QED
  BY <1>10, <1>11

\* A packet that the phone has still to send: nothing is being served.
LEMMA Collecting ==
  ASSUME Steady, NEW n \in phone.todo
  PROVE  /\ Asking /\ phone.msg \in Msgs /\ ~Serving /\ ~Heard
         /\ lr = 0 /\ SumPackNumber = 0 /\ Apdufinsh # 1 /\ ucResend # 1
         /\ n \in Expected /\ n \notin Seen /\ n \notin ucaRevPackN /\ ucaRevPackN \subseteq Seen
         /\ pc # "clear"
<1>1. ExchangeOK /\ Asking
  BY DEF Steady, ExchangeOK, AskingOK
<1>2. ~Serving /\ ~Heard
  BY <1>1 DEF ExchangeOK, StageOK
<1>3. n \in Expected /\ n \notin Seen
  BY <1>1 DEF ExchangeOK, AskingOK, Seen
<1>4. phone.msg \in Msgs
  BY <1>1 DEF Steady, IInv, TypeOK, EnvType, Asking
<1>5. ucaRevPackN \subseteq Seen /\ Apdufinsh # 1
  BY <1>1, <1>3 DEF ExchangeOK, CollectOK
<1>6. lr = 0 /\ SumPackNumber = 0 /\ blueRecivSendflag = "NOdata"
  BY <1>2 DEF Serving
<1>7. ucResend # 1 /\ pc # "clear"
  BY <1>1, <1>6 DEF ExchangeOK, ResendOK, CollectOK
<1> QED
  BY <1>1, <1>2, <1>3, <1>4, <1>5, <1>6, <1>7

\* While nothing is served, a step that ends with the packets in order is safe.
LEMMA CollectStep ==
  ASSUME Steady, ~Serving, ~Heard, Asking, ucResend # 1, AirSame,
         UNCHANGED <<flow, redo, tx, pc, owed>>,
         phone'.msg = phone.msg, phone'.got = phone.got, phone'.total = phone.total,
         phone'.todo \cap phone'.lost = {}, phone'.todo \cup phone'.lost \subseteq Expected,
         CollectOK'
  PROVE  ExchangeOK'
<1> USE DEF flow, redo, tx
<1>1. ExchangeOK
  BY DEF Steady
<1>2. Asking' = Asking /\ Expected' = Expected /\ Serving' = Serving /\ Heard' = Heard
      /\ InAir' = InAir
  BY DEF Asking, Expected, Serving, AirSame
<1>3. /\ lr = 0 /\ SumPackNumber = 0 /\ InAir = {} /\ phone.got = {} /\ phone.total = 0
  BY <1>1 DEF Serving, Heard, ExchangeOK, AirOK
<1>4. AskingOK'
  BY <1>1, <1>2 DEF ExchangeOK, AskingOK
<1>5. StageOK'
  BY <1>2 DEF StageOK, Serving
<1>6. OffsetOK'
  BY <1>1 DEF ExchangeOK, OffsetOK, NextNumber
<1>7. AirOK'
  BY <1>2, <1>3 DEF AirOK
<1>8. ResendOK' /\ GiveUpOK'
  BY <1>1, <1>3 DEF ExchangeOK, ResendOK, GiveUpOK
<1> QED
  BY <1>4, <1>5, <1>6, <1>7, <1>8 DEF ExchangeOK

\* A packet is stored and counted, or left out for good.
LEMMA PhoneSendsStep ==
  ASSUME Steady, NEW n \in Upto(Slots), PhoneSends(n)
  PROVE  ExchangeOK'
<1> USE DEF flow, rx, mark, redo, tx
<1> DEFINE m == phone.msg
           P == Packets(phone.msg)
           rev == MarkRev(n, ucaRevPackN)
           bytes == PacketBytes(phone.msg, n)
<1>1. IInv /\ ExchangeOK /\ n \in phone.todo /\ PacketArrives(m, n, bytes)
  BY DEF Steady, PhoneSends
<1>2. /\ Asking /\ m \in Msgs /\ ~Serving /\ ~Heard
      /\ lr = 0 /\ SumPackNumber = 0 /\ Apdufinsh # 1 /\ ucResend # 1
      /\ n \in Expected /\ n \notin Seen /\ n \notin ucaRevPackN /\ ucaRevPackN \subseteq Seen
      /\ pc # "clear"
  BY <1>1, Collecting
<1>3. /\ phone'.msg = m /\ phone'.got = phone.got /\ phone'.total = phone.total
      /\ phone'.todo = phone.todo \ {n} /\ phone'.lost = phone.lost
  BY <1>1 DEF PhoneSends, IInv, TypeOK, EnvType
<1>4. /\ phone.todo \cap phone.lost = {} /\ phone.todo \cup phone.lost \subseteq Expected
  BY <1>1, <1>2 DEF ExchangeOK, AskingOK
<1>5. Asking' /\ Expected' = Expected /\ Seen' = Seen \cup {n}
  BY <1>1, <1>2, <1>3, <1>4 DEF Asking, Expected, Seen
<1>6. UNCHANGED <<flow, redo, tx, pc, owed>>
  BY <1>1 DEF PhoneSends, PacketArrives
<1>7. Serving' = Serving
  BY <1>6 DEF Serving
<1>8. CASE PacketDropped(n, bytes)
  <2>1. UNCHANGED <<Apdufinsh, g_apdu, ucaRevPackN, hvn>>
    BY <1>8 DEF PacketDropped
  <2>2. AirSame
    BY <1>3, <2>1, AirKept
  <2>3. CollectOK'
    BY <1>1, <1>2, <1>5, <1>6, <1>7, <2>1, <2>2 DEF ExchangeOK, CollectOK, AirSame
  <2> QED
    BY <1>2, <1>3, <1>4, <1>6, <2>2, <2>3, CollectStep
<1>9. CASE PacketStored(m, n, P, bytes)
  <2> DEFINE report == MarkMissing(P, rev)
             started == IF Apdufinsh = 0 THEN 2 ELSE Apdufinsh
  <2>1. /\ ucaRevPackN' = ucaRevPackN \cup {n} /\ g_apdu' = [g_apdu EXCEPT ![n] = m]
        /\ g_apdu_length' = (IF Apdufinsh = 0 THEN bytes ELSE g_apdu_length + bytes) % U16
    BY <1>9 DEF PacketStored, MarkRev
  <2>2. \/ Apdufinsh' = started /\ (UNCHANGED hvn \/ TellMissed(report))
        \/ Apdufinsh' = 1 /\ report.missing = {} /\ UNCHANGED hvn
    BY <1>9 DEF PacketStored, Incomplete
  <2>3. AirSame
    BY <1>1, <1>3, <2>2, AirKept, AirTold
  <2>4. Apdufinsh' \in {1, 2} /\ (Apdufinsh' = 1 => Expected \subseteq ucaRevPackN')
    <3>1. report.missing = Upto(P) \ rev
      BY DEF MarkMissing, Report
    <3>2. Apdufinsh \in {0, 2}
      BY <1>1, <1>2 DEF IInv, TypeOK, RxType
    <3>3. rev = ucaRevPackN' /\ Expected = Upto(P)
      BY <2>1 DEF MarkRev, Expected
    <3>4. started = 2
      BY <3>2
    <3>5. report.missing = {} => Expected \subseteq ucaRevPackN'
      BY <3>1, <3>3
    <3> HIDE DEF report, started, rev, P
    <3> QED
      BY <2>2, <3>4, <3>5
  <2>5. ucaRevPackN' = Seen' => ucaRevPackN = Seen
    BY <1>2, <1>5, <2>1
  <2>6. ucaRevPackN = Seen => g_apdu_length' = Counted'
    <3> SUFFICES ASSUME ucaRevPackN = Seen PROVE g_apdu_length' = Counted'
      OBVIOUS
    <3>1. ucaRevPackN \subseteq Upto(P)
      BY <1>2 DEF Seen, Expected
    <3>2. Counted' = Body * Cardinality(ucaRevPackN \cup {n})
                - (IF P - 1 \in ucaRevPackN \cup {n} THEN Body * P - Size[m] ELSE 0)
      BY <1>3, <2>1 DEF Counted
    <3>3. /\ Counted' = Counted + PacketBytes(m, n) /\ Counted' \in 0 .. Size[m]
          /\ Counted \in Int /\ (ucaRevPackN = {} => Counted = 0)
      <4>1. n \in Upto(P)
        BY <1>2 DEF Expected
      <4> HIDE DEF P, m
      <4> QED
        BY <1>2, <3>1, <3>2, <4>1, CountedGrows DEF Counted, P, m
    <3>4. Size[m] \in 2 .. U16 - 1 /\ U16 \in Nat \ {0}
      BY <1>2, LinkAssumption DEF Steady, SizesFit
    <3>5. Counted' \in 0 .. U16 - 1
      BY <3>3, <3>4
    <3>6. CASE Seen = {}
      <4>1. Apdufinsh = 0 /\ Counted = 0
        BY <1>1, <1>2, <3>3, <3>6 DEF ExchangeOK, CollectOK
      <4>2. bytes \in Int
        BY <1>2, PacketBytesType
      <4>3. bytes = Counted'
        BY <3>3, <4>1, <4>2
      <4>4. g_apdu_length' = Counted' % U16
        BY <2>1, <4>1, <4>3
      <4> QED
        BY <3>4, <3>5, <4>4, SmallMod
    <3>7. CASE Seen # {}
      <4>1. Apdufinsh # 0 /\ g_apdu_length = Counted
        BY <1>1, <1>2, <3>7 DEF ExchangeOK, CollectOK
      <4> QED
        BY <2>1, <3>3, <3>4, <3>5, <4>1
    <3> QED
      BY <3>6, <3>7
  <2>7. ucaRevPackN = Seen => \A i \in Seen' : g_apdu'[i] = m
    <3> SUFFICES ASSUME ucaRevPackN = Seen, NEW i \in Seen' PROVE g_apdu'[i] = m
      OBVIOUS
    <3>1. g_apdu \in [Upto(Slots) -> Tags] /\ ucaRevPackN \subseteq Upto(Slots)
      BY <1>1 DEF IInv, TypeOK, RxType
    <3>2. i \in Seen => g_apdu[i] = m
      BY <1>1, <1>2 DEF ExchangeOK, CollectOK
    <3> QED
      BY <1>5, <2>1, <3>1, <3>2
  <2>8. CollectOK'
    <3>1. pc' = "drop" => pc = "drop" /\ ~Serving' /\ ~Heard'
      BY <1>2, <1>6, <1>7, <2>3 DEF AirSame
    <3>2. pc = "drop" => ucaRevPackN # Seen
      BY <1>1 DEF ExchangeOK, CollectOK
    <3>3. ucaRevPackN' \subseteq Seen' /\ Seen' # {} /\ Seen' \subseteq Expected'
      BY <1>2, <1>5, <2>1 DEF Seen
    <3>4. pc' # "clear" /\ phone'.msg = m
      BY <1>2, <1>3, <1>6
    <3>5. Apdufinsh' = 1 => Seen' = Expected' /\ ucaRevPackN' = Seen'
      BY <1>5, <2>4, <3>3
    <3> HIDE DEF m, P, rev, bytes, report, started
    <3> QED
      BY <1>5, <2>4, <2>5, <2>6, <2>7, <3>1, <3>2, <3>3, <3>4, <3>5 DEF CollectOK
  <2> QED
    BY <1>2, <1>3, <1>4, <1>6, <2>3, <2>8, CollectStep
<1>10. ~PacketRepeated(n, bytes)
  BY <1>2 DEF PacketRepeated, CheckExist
<1> QED
  BY <1>1, <1>8, <1>9, <1>10 DEF PacketArrives

LEMMA PacketLostStep ==
  ASSUME Steady, NEW n \in Upto(Slots), PacketLost(n)
  PROVE  ExchangeOK'
<1> USE DEF flow, rx, mark, redo, tx, PhoneOnly
<1>1. IInv /\ ExchangeOK /\ n \in phone.todo /\ hvn' = hvn
  BY DEF Steady, PacketLost
<1>2. /\ Asking /\ ~Serving /\ ~Heard /\ ucResend # 1 /\ n \in Expected /\ n \notin Seen
  BY <1>1, Collecting
<1>3. /\ phone'.msg = phone.msg /\ phone'.got = phone.got /\ phone'.total = phone.total
      /\ phone'.todo = phone.todo \ {n} /\ phone'.lost = phone.lost \cup {n}
  BY <1>1 DEF PacketLost, IInv, TypeOK, EnvType
<1>4. /\ phone.todo \cap phone.lost = {} /\ phone.todo \cup phone.lost \subseteq Expected
  BY <1>1, <1>2 DEF ExchangeOK, AskingOK
<1>5. Asking' = Asking /\ Expected' = Expected /\ Seen' = Seen
  BY <1>1, <1>3 DEF Asking, Expected, Seen
<1>6. AirSame /\ Serving' = Serving
  BY <1>1, <1>3, AirKept DEF Serving, PacketLost
<1>7. UNCHANGED <<flow, redo, tx, pc, owed>>
  BY DEF PacketLost
<1>8. CollectOK'
  <2>1. Counted' = Counted
    BY <1>3 DEF Counted, PacketLost
  <2> QED
    BY <1>1, <1>3, <1>5, <1>6, <2>1 DEF ExchangeOK, CollectOK, PacketLost, AirSame
<1>9. phone'.todo \cap phone'.lost = {} /\ phone'.todo \cup phone'.lost \subseteq Expected
  BY <1>1, <1>3, <1>4
<1> QED
  BY <1>2, <1>3, <1>6, <1>7, <1>8, <1>9, CollectStep

\* The reply the phone is told of: Heard, so the command has been served.
LEMMA Hearing ==
  ASSUME Steady, Heard
  PROVE  /\ Asking /\ phone.todo = {} /\ phone.lost = {} /\ ucaRevPackN = {} /\ Apdufinsh = 0
         /\ blueRecivSendflag = "NOdata" /\ ~owed /\ Composed
         /\ Total \in 1 .. Slots /\ Slots \in Nat /\ pc # "clear" /\ pc # "drop"
<1>1. ExchangeOK
  BY DEF Steady
<1>2. /\ Asking /\ phone.todo = {} /\ phone.lost = {} /\ ucaRevPackN = {}
      /\ blueRecivSendflag = "NOdata" /\ ~owed /\ Composed
      /\ Apdufinsh = 0 \/ pc = "clear"
  BY <1>1 DEF ExchangeOK, StageOK
<1>3. pc # "clear" /\ pc # "drop"
  BY <1>1, <1>2 DEF ExchangeOK, CollectOK
<1>4. Total \in 1 .. Slots /\ Slots \in Nat
  BY <1>2, LinkAssumption DEF Composed, Total
<1> QED
  BY <1>2, <1>3, <1>4

\* A report brings back only packets that were lost; a fragment goes from the air
\* to the phone.
LEMMA PhoneReadsStep ==
  ASSUME Steady, PhoneReads
  PROVE  ExchangeOK'
<1> USE DEF flow, rx, mark, redo, tx, PhoneOnly
<1> DEFINE x == Head(hvn)
           again == x.missing \cap phone.lost
<1>1. /\ IInv /\ ExchangeOK /\ hvn # <<>> /\ hvn' = Tail(hvn)
      /\ UNCHANGED <<flow, Apdufinsh, g_apdu, g_apdu_length, ucaRevPackN, ucaPackMsg,
                     T_Connect, redo, tx, pc, owed>>
  BY DEF Steady, PhoneReads
<1>2. /\ \A i \in InAir' : i \in Nat /\ i + 1 \in InAir /\ i >= 1 /\ hvn'[i] = hvn[i + 1]
      /\ 1 \in InAir <=> x.kind = "fragment"
      /\ x = hvn[1]
  BY <1>1, AirRead
<1>3. phone'.msg = phone.msg
  BY <1>1 DEF PhoneReads, IInv, TypeOK, EnvType
<1>4. Asking' = Asking /\ Expected' = Expected /\ Serving' = Serving
  BY <1>1, <1>3 DEF Asking, Expected, Serving
<1>5. Reply' = Reply /\ Total' = Total /\ Composed' = Composed
  BY <1>1, ReplyKept
<1>6. /\ phone'.todo \cap phone'.lost = {}
      /\ phone'.todo \cup phone'.lost = phone.todo \cup phone.lost
      /\ ~Asking => phone'.todo = {} /\ phone'.lost = {}
      /\ phone.todo = {} /\ phone.lost = {} => phone'.todo = {} /\ phone'.lost = {}
  <2>1. CASE phone'.todo = phone.todo /\ phone'.lost = phone.lost
    BY <1>1, <2>1 DEF ExchangeOK, AskingOK
  <2>2. CASE Asking /\ phone'.todo = phone.todo \cup again /\ phone'.lost = phone.lost \ again
    BY <1>1, <2>2 DEF ExchangeOK, AskingOK
  <2>3. Polite
    BY DEF Steady, Undisturbed
  <2> QED
    BY <1>1, <2>1, <2>2, <2>3 DEF PhoneReads, IInv, TypeOK, EnvType
<1>7. Seen' = Seen
  BY <1>4, <1>6 DEF Seen
<1>8. \/ /\ 1 \notin InAir /\ phone'.got = phone.got /\ phone'.total = phone.total
      \/ /\ 1 \in InAir /\ phone'.got = phone.got \cup {<<hvn[1].num, hvn[1].tag>>}
         /\ phone'.total = hvn[1].total
  <2>1. CASE x.kind = "fragment"
    BY <1>1, <1>2, <2>1 DEF PhoneReads, IInv, TypeOK, EnvType
  <2>2. CASE x.kind # "fragment"
    BY <1>1, <1>2, <2>2 DEF PhoneReads, IInv, TypeOK, EnvType
  <2> QED
    BY <2>1, <2>2
<1>9. Heard' => Heard
  BY <1>2, <1>8 DEF Heard
<1>10. Numbers' \subseteq Numbers
  <2>1. \A f \in phone'.got : f[1] \in Numbers
    BY <1>8 DEF Numbers
  <2>2. \A i \in InAir' : hvn'[i].num \in Numbers
    BY <1>2 DEF Numbers
  <2> QED
    BY <2>1, <2>2 DEF Numbers
<1>11. AskingOK'
  <2>1. ~Asking => phone'.got = {}
    BY <1>1, <1>8 DEF ExchangeOK, AskingOK, Heard
  <2> QED
    BY <1>1, <1>4, <1>6, <1>9, <2>1 DEF ExchangeOK, AskingOK
<1>12. CollectOK'
  <2>1. Counted' = Counted
    BY <1>1, <1>3 DEF Counted
  <2> QED
    BY <1>1, <1>3, <1>4, <1>7, <1>9, <2>1 DEF ExchangeOK, CollectOK
<1>13. StageOK'
  BY <1>1, <1>3, <1>4, <1>5, <1>6, <1>9 DEF ExchangeOK, StageOK
<1>14. OffsetOK'
  BY <1>1 DEF ExchangeOK, OffsetOK, NextNumber
<1>15. AirOK'
  <2>1. Upcoming' = Upcoming
    BY <1>1, <1>5 DEF Upcoming, NextNumber
  <2>2. ASSUME NEW i \in InAir'
        PROVE  /\ hvn'[i].num \in Upto(Total) /\ hvn'[i].total = Total /\ hvn'[i].tag = Reply
               /\ \A f \in phone'.got : f[1] # hvn'[i].num
               /\ \A j \in InAir' : hvn'[i].num = hvn'[j].num => i = j
    <3>1. i \in Nat /\ i >= 1 /\ i + 1 \in InAir /\ hvn'[i] = hvn[i + 1]
      BY <1>2
    <3>2. /\ hvn[i + 1].num \in Upto(Total) /\ hvn[i + 1].total = Total
          /\ hvn[i + 1].tag = Reply /\ \A f \in phone.got : f[1] # hvn[i + 1].num
          /\ \A j \in InAir : hvn[i + 1].num = hvn[j].num => i + 1 = j
      BY <1>1, <3>1 DEF ExchangeOK, AirOK
    <3>3. 1 \in InAir => hvn[1].num # hvn[i + 1].num
      BY <3>1, <3>2
    <3>4. ASSUME NEW j \in InAir', hvn'[i].num = hvn'[j].num PROVE i = j
      BY <1>2, <3>1, <3>2, <3>4
    <3> QED
      BY <1>8, <3>1, <3>2, <3>3, <3>4
  <2>3. /\ \A f \in phone'.got : f[1] \in Upto(Total) /\ f[2] = Reply
        /\ phone'.got # {} => phone'.total = Total
        /\ phone'.got = {} => phone'.total = 0
    <3>1. CASE 1 \notin InAir
      BY <1>1, <1>8, <3>1 DEF ExchangeOK, AirOK
    <3>2. CASE 1 \in InAir
      <4>1. hvn[1].num \in Upto(Total) /\ hvn[1].total = Total /\ hvn[1].tag = Reply
        BY <1>1, <3>2 DEF ExchangeOK, AirOK
      <4>2. \A f \in phone.got : f[1] \in Upto(Total) /\ f[2] = Reply
        BY <1>1 DEF ExchangeOK, AirOK
      <4>3. phone'.got = phone.got \cup {<<hvn[1].num, hvn[1].tag>>} /\ phone'.total = Total
        BY <1>8, <3>2, <4>1
      <4>4. phone'.got # {}
        BY <4>3
      <4>5. ASSUME NEW f \in phone'.got, f \notin phone.got
            PROVE  f[1] = hvn[1].num /\ f[2] = hvn[1].tag
        BY <4>3, <4>5
      <4> QED
        BY <4>1, <4>2, <4>3, <4>4, <4>5
    <3> QED
      BY <3>1, <3>2
  <2>4. lr' # 0 => \A n \in Numbers' : n < Upcoming'
    BY <1>1, <1>10, <2>1 DEF ExchangeOK, AirOK
  <2> QED
    BY <1>5, <2>2, <2>3, <2>4 DEF AirOK
<1>16. ResendOK'
  <2>1. Positions' = Positions /\ Ahead' = Ahead
    BY <1>1 DEF Positions, Ahead
  <2>2. phone.got # {} => phone'.got # {}
    BY <1>8
  <2> QED
    BY <1>1, <1>4, <1>5, <1>10, <2>1, <2>2 DEF ExchangeOK, ResendOK
<1>17. GiveUpOK'
  BY <1>1, <1>9 DEF ExchangeOK, GiveUpOK
<1> QED
  BY <1>11, <1>12, <1>13, <1>14, <1>15, <1>16, <1>17 DEF ExchangeOK

\* The phone acknowledges a reply when its last fragment has gone out and none is
\* on the way.
LEMMA PhoneAcksStep ==
  ASSUME Steady, PhoneAcks
  PROVE  ExchangeOK'
<1> USE DEF flow, rx, mark, redo, tx
<1>1. /\ IInv /\ ExchangeOK /\ Complete /\ AckArrives /\ hvn' = hvn
      /\ phone' = Idle(phone.prompt) /\ owed' = owed /\ pc' = pc /\ connected' = connected
      /\ blueRecivSendflag' = blueRecivSendflag /\ Apdufinsh' = Apdufinsh
      /\ ucResend' = ucResend
  BY DEF Steady, PhoneAcks, AckArrives
<1>2. phone.total > 0 /\ phone.got # {} /\ phone.total = Total
  BY <1>1 DEF Complete, ExchangeOK, AirOK
<1>3. /\ Heard /\ Asking /\ ucaRevPackN = {} /\ Apdufinsh = 0
      /\ blueRecivSendflag = "NOdata" /\ ~owed
      /\ Total \in 1 .. Slots /\ Slots \in Nat /\ pc # "clear" /\ pc # "drop"
  BY <1>2, Hearing DEF Heard
<1>4. \A n \in Upto(Total) : n \in Numbers /\ \E f \in phone.got : f[1] = n
  BY <1>1, <1>2 DEF Complete, Numbers
<1>5. InAir = {}
  BY <1>1, <1>4 DEF ExchangeOK, AirOK
<1>6. lr # 0 => Total - 1 < Upcoming
  <2>1. Total - 1 \in Upto(Total)
    BY <1>3 DEF Upto
  <2> QED
    BY <1>1, <1>4, <2>1 DEF ExchangeOK, AirOK
<1>7. pc \notin {"sentFirst", "sentNext"}
  <2> SUFFICES ASSUME pc \in {"sentFirst", "sentNext"} PROVE FALSE
    OBVIOUS
  <2>1. lr > First /\ SumPackNumber # 0 /\ lr # 0
    BY <1>1, Widths DEF ExchangeOK, OffsetOK
  <2>2. Total >= 2 /\ SumPackNumber = Total
    BY <2>1, Outgoing, FragmentsFit
  <2>3. CASE pc = "sentFirst"
    BY <1>3, <1>6, <2>1, <2>2, <2>3 DEF Upcoming
  <2>4. CASE pc = "sentNext"
    <3>1. NextNumber + 1 < Total /\ Sendlenth # 0
      BY <1>1, <2>2, <2>4 DEF ExchangeOK, OffsetOK
    <3>2. NextNumber \in Int
      BY <1>3, <2>1, <3>1, FragmentAt
    <3> QED
      BY <1>3, <1>6, <2>1, <2>4, <3>1, <3>2 DEF Upcoming
  <2> QED
    BY <2>3, <2>4
<1>8. SumPackNumber = 0 => lr = 0 /\ Sendlenth = 0
  <2> SUFFICES ASSUME SumPackNumber = 0, lr # 0 PROVE FALSE
    BY <1>1 DEF ExchangeOK, OffsetOK
  <2>1. Upcoming = 0
    BY <1>1, <1>7 DEF ExchangeOK, OffsetOK, Upcoming
  <2> QED
    BY <1>3, <1>6, <2>1
<1>9. SumPackNumber' = 0 /\ lr' = 0 /\ Sendlenth' = 0 /\ ucaRevPackN' = {}
  BY <1>1, <1>3, <1>8 DEF AckArrives, ForgetReply
<1>10. ucResend = 1 => ucaPackMsg'.missing = {}
  BY <1>1, <1>3 DEF AckArrives, NoReport, ExchangeOK, ResendOK
<1>11. /\ ~Asking' /\ phone'.todo = {} /\ phone'.lost = {} /\ phone'.got = {}
       /\ phone'.total = 0
  BY <1>1 DEF Asking, Idle
<1>12. InAir' = {} /\ ~Heard' /\ ~Serving'
  BY <1>1, <1>3, <1>5, <1>9, <1>11 DEF InAir, Heard, Serving
<1>13. AskingOK' /\ CollectOK' /\ StageOK'
  BY <1>1, <1>3, <1>9, <1>11, <1>12 DEF AskingOK, CollectOK, StageOK, Serving
<1>14. OffsetOK' /\ AirOK' /\ GiveUpOK'
  BY <1>1, <1>7, <1>9, <1>11, <1>12, Widths DEF OffsetOK, AirOK, GiveUpOK
<1>15. ResendOK'
  BY <1>1, <1>9, <1>10, <1>11 DEF ExchangeOK, ResendOK
<1> QED
  BY <1>13, <1>14, <1>15 DEF ExchangeOK

\* The list of a set of fragments reaches past the greatest of them, and
\* remberPackn can reach the end of it.
LEMMA ListEnds ==
  ASSUME NEW n \in 1 .. Slots, Slots \in Nat, Slots + Word <= U8, U8 \in Nat,
         NEW S \in SUBSET Upto(n), S # {}
  PROVE  /\ (ReportLen(S) - 1) * Word < U8
         /\ \A i \in S : i < (ReportLen(S) - 1) * Word
<1>1. n \in Nat /\ Word \in Nat \ {0}
  BY WordAssumption
<1>2. Top(S) \in S
  BY <1>1, TopExists
<1>3. \A i \in S : i \in Nat /\ i <= n - 1
  BY <1>1 DEF Upto
<1>4. \A i \in S : i <= Top(S)
  BY <1>1, TopExists
<1> DEFINE t == Top(S)
           q == t \div Word
<1>5. t \in Nat /\ t <= n - 1
  BY <1>2, <1>3
<1> HIDE DEF t
<1>6. q \in Nat /\ t % Word \in 0 .. Word - 1 /\ t = Word * q + (t % Word)
  BY <1>1, <1>5, Quotient
<1>7. (ReportLen(S) - 1) = q + 1
  BY <1>6 DEF ReportLen, t
<1> HIDE DEF q
<1>8. (ReportLen(S) - 1) * Word = Word * q + Word /\ Word * q \in Nat
  BY <1>1, <1>6, <1>7
<1>9. t < (ReportLen(S) - 1) * Word /\ (ReportLen(S) - 1) * Word <= t + Word
  BY <1>1, <1>5, <1>6, <1>8
<1>10. \A i \in S : i < (ReportLen(S) - 1) * Word
  BY <1>1, <1>3, <1>4, <1>5, <1>6, <1>8, <1>9 DEF t
<1> QED
  BY <1>1, <1>5, <1>6, <1>8, <1>9, <1>10

\* What the phone asks for again has not reached it and is not on the way.
LEMMA PhoneAsksStep ==
  ASSUME Steady, PhoneAsks
  PROVE  ExchangeOK'
<1> USE DEF flow, rx, mark, redo, tx, env
<1> DEFINE missing == Upto(phone.total) \ {f[1] : f \in phone.got}
<1>1. /\ IInv /\ ExchangeOK /\ phone.got # {} /\ ~Complete /\ hvn = <<>> /\ lr = 0 /\ ucResend = 0
      /\ ResendArrives(missing) /\ phone' = phone /\ hvn' = hvn /\ g_apdu' = g_apdu
      /\ lr' = lr /\ SumPackNumber' = SumPackNumber /\ Sendlenth' = Sendlenth /\ pc' = pc
      /\ T_Connect' = "off" /\ owed' = owed /\ blueRecivSendflag' = blueRecivSendflag
  BY DEF Steady, Undisturbed, PhoneAsks, ResendArrives, TP_CLOSE
<1>2. Serving' = Serving /\ Heard
  BY <1>1 DEF Serving, Heard, ResendArrives
<1>3. Total \in 1 .. Slots /\ Slots \in Nat /\ Asking
  BY <1>2, Hearing
<1>4. AskingOK'
  BY <1>1, <1>2, Kept DEF ExchangeOK, AskingOK, ResendArrives
<1>5. CollectOK'
  BY <1>1, <1>2, Kept DEF ExchangeOK, CollectOK, Counted, ResendArrives
<1>6. StageOK'
  BY <1>1, <1>2, Kept DEF ExchangeOK, StageOK, ResendArrives
<1>7. OffsetOK'
  BY <1>1 DEF ExchangeOK, OffsetOK, NextNumber
<1>8. AirOK'
  BY <1>1, Kept DEF ExchangeOK, AirOK
<1>9. GiveUpOK'
  BY <1>1, Kept DEF ExchangeOK, GiveUpOK
<1>10. pc # "resent"
  BY <1>1 DEF ExchangeOK, ResendOK
<1>11. ResendOK'
  <2>1. CASE SumPackNumber = 0
    <3>1. ucResend' = 0
      BY <1>1, <2>1 DEF ResendArrives
    <3> QED
      BY <1>1, <1>10, <3>1 DEF ResendOK
  <2>2. CASE SumPackNumber # 0
    <3>1. ucaPackMsg' = Report(missing)
      BY <1>1, <2>2 DEF ResendArrives
    <3>2. phone.total = Total
      BY <1>1 DEF ExchangeOK, AirOK
    <3>3. missing \in SUBSET Upto(Total) /\ missing # {}
      BY <1>1, <1>3, <3>2 DEF Complete
    <3>4. Slots + Word <= U8 /\ U8 \in Nat
      BY LinkAssumption DEF Steady, SizesFit
    <3>5. ucaPackMsg'.len = ReportLen(missing) /\ ucaPackMsg'.missing = missing
      BY <3>1 DEF Report
    <3>6. Positions' < U8 /\ \A n \in missing : n < Positions'
      BY <1>3, <3>3, <3>4, <3>5, ListEnds DEF Positions
    <3>7. Ahead' \cap Numbers' = {}
      <4>1. InAir = {}
        BY <1>1 DEF InAir
      <4>2. Numbers' = {f[1] : f \in phone.got}
        BY <1>1, <4>1, Kept DEF Numbers
      <4>3. Ahead' \subseteq missing
        BY <3>5 DEF Ahead
      <4> QED
        BY <4>2, <4>3
    <3>8. ucaPackMsg'.missing \subseteq Upto(Total') /\ phone'.got # {}
          /\ \A n \in ucaPackMsg'.missing : n < Positions'
      BY <1>1, <3>3, <3>5, <3>6, Kept
    <3> HIDE DEF missing
    <3> QED
      BY <1>1, <1>10, <2>2, <3>6, <3>7, <3>8 DEF ResendOK
  <2> QED
    BY <2>1, <2>2
<1> QED
  BY <1>4, <1>5, <1>6, <1>7, <1>8, <1>9, <1>11 DEF ExchangeOK

-----------------------------------------------------------------------------
(* The theorems.                                                            *)

\* Whether the phone answers in time is settled before the first step.
LEMMA PromptKept ==
  ASSUME IInv, [Next]_vars
  PROVE  phone'.prompt = phone.prompt
<1> USE DEF PhoneOnly, env
<1>1. phone.prompt \in BOOLEAN /\ DOMAIN phone = {"msg", "todo", "lost", "got", "total", "prompt"}
  BY DEF IInv, TypeOK, EnvType
<1>2. CASE phone' = phone
  BY <1>2
<1>3. CASE phone' = Idle(phone.prompt)
  BY <1>3 DEF Idle
<1>4. CASE \E n \in Upto(Slots) : PhoneSends(n) \/ PacketLost(n)
  BY <1>1, <1>4 DEF PhoneSends, PacketLost
<1>5. CASE PhoneReads
  BY <1>1, <1>5 DEF PhoneReads
<1>6. CASE \E m \in Msgs : PhoneStarts(m)
  BY <1>6 DEF PhoneStarts, Idle
<1>7. CASE MainLoop
  BY <1>2, <1>7 DEF MainLoop, ResetWhenDown, TakeReply, HandOver, ClearFinish,
       NothingToHandOver, SendSingle, SendFirst, SendNext, NothingToSend, FirstSent,
       NextSent, LastSent, ReSendNotification, Resent, NothingToResend, NotExpired,
       AskMissing, DropCommand, DropRest, WaitAgain, AbandonReply, AbandonRest,
       BleCmdProcess, UartIdle, Uart_cmdprogam
<1>8. CASE Expire \/ Connect \/ Stray \/ PhoneAsks \/ UNCHANGED vars
  BY <1>2, <1>8 DEF Expire, Connect, Stray, PhoneAsks, vars
<1>9. CASE Disconnect \/ PhoneGivesUp \/ PhoneAcks
  BY <1>3, <1>9 DEF Disconnect, PhoneGivesUp, PhoneAcks
<1> QED
  BY <1>4, <1>5, <1>6, <1>7, <1>8, <1>9 DEF Next, Phone

\* Every step of an undisturbed exchange.
LEMMA ExchangeStep ==
  ASSUME Steady, [Next]_vars
  PROVE  ExchangeOK'
<1>1. CASE MainLoop
  BY <1>1, ControlSteps, ResetStep, TakeReplyStep, HandOverStep, ClearFinishStep,
     SendSingleStep, SendFirstStep, SendNextStep, FirstSentStep, NextSentStep, LastSentStep,
     ReSendStep, ResentStep, DropCommandStep, DropRestStep, AbandonReplyStep, AbandonRestStep,
     CmdStep, UartStep DEF MainLoop
<1>2. CASE Phone
  BY <1>2, PhoneSendsStep, PhoneReadsStep, PhoneAcksStep, PhoneAsksStep DEF Phone
<1>3. CASE Expire \/ Connect \/ UNCHANGED vars
  BY <1>3, ExpireStep, ControlSteps
<1>4. CASE \/ \E m \in Msgs : PhoneStarts(m)
           \/ \E n \in Upto(Slots) : PacketLost(n)
  BY <1>4, PhoneStartsStep, PacketLostStep
<1>5. ~Disconnect /\ ~PhoneGivesUp /\ ~Stray
  <2>1. downs \in 0 .. 0 /\ strays \in 0 .. 0 /\ phone.prompt /\ MaxDown = 0 /\ MaxStray = 0
    BY DEF Steady, Undisturbed, IInv, TypeOK, EnvType
  <2> QED
    BY <2>1 DEF Disconnect, PhoneGivesUp, Stray
<1> QED
  BY <1>1, <1>2, <1>3, <1>4, <1>5 DEF Next

LEMMA ExchangeInvariance ==
  ASSUME Undisturbed, SizesFit
  PROVE  Spec => [](phone.prompt => ExchangeOK)
<1>1. Init => (phone.prompt => ExchangeOK)
  BY ExchangeBegins
<1>2. IInv /\ (phone.prompt => ExchangeOK) /\ [Next]_vars => (phone.prompt => ExchangeOK)'
  <2> SUFFICES ASSUME IInv, phone.prompt => ExchangeOK, [Next]_vars, phone'.prompt
               PROVE  ExchangeOK'
    OBVIOUS
  <2>1. phone.prompt
    BY PromptKept
  <2> QED
    BY <2>1, ExchangeStep DEF Steady
<1> QED
  BY <1>1, <1>2, Invariance, PTL DEF Spec

\* What BleCmdProcess is handed is the command of a phone that answers in time,
\* whole: HandOver needs every packet of it, and from then on nothing of the
\* phone's writes to g_apdu.
THEOREM CommandsArriveWhole ==
  ASSUME Undisturbed, SizesFit
  PROVE  Spec => []DeliveredIntact
<1>1. (phone.prompt => ExchangeOK) => DeliveredIntact
  BY DEF ExchangeOK, StageOK, Expected, DeliveredIntact
<1> QED
  BY <1>1, ExchangeInvariance, PTL

\* Whatever the phone holds of a reply is of one reply, and its numbers are the
\* reply's: g_apdu is not composed anew before the acknowledgement.
THEOREM RepliesArriveWhole ==
  ASSUME Undisturbed, SizesFit
  PROVE  Spec => []ReplyIntact
<1>1. (phone.prompt => ExchangeOK) => ReplyIntact
  <2> SUFFICES ASSUME ExchangeOK, phone.got # {}
               PROVE  /\ Reply \in Replies /\ First + (phone.total - 1) * Body >= RSize[Reply]
                      /\ \A f \in phone.got : f[1] < phone.total /\ f[2] = Reply
    BY DEF ReplyIntact
  <2>1. Composed /\ phone.total = Total
    BY DEF ExchangeOK, StageOK, AirOK, Heard
  <2>2. Reply \in Replies /\ RSize[Reply] \in Nat \ {0}
    BY <2>1, LinkAssumption DEF Composed
  <2>3. Total \in Nat \ {0} /\ RSize[Reply] <= First + Body * (Total - 1)
    BY <2>2, FragmentsFit DEF Total
  <2>4. Body * (Total - 1) = (Total - 1) * Body /\ First \in Nat /\ Body * (Total - 1) \in Nat
    BY <2>3, Widths
  <2>5. \A f \in phone.got : f[1] \in Upto(Total) /\ f[2] = Reply
    BY DEF ExchangeOK, AirOK
  <2>6. \A f \in phone.got : f[1] < Total
    BY <2>3, <2>5 DEF Upto
  <2> QED
    BY <2>1, <2>2, <2>3, <2>4, <2>5, <2>6
<1> QED
  BY <1>1, ExchangeInvariance, PTL

\* Every way a reply of a phone that answers in time can end leaves the send
\* offset at zero ...
THEOREM OffsetComesBack ==
  ASSUME Undisturbed, SizesFit
  PROVE  Spec => [](phone.prompt => IdleMeansFresh)
<1>1. (phone.prompt => ExchangeOK) => (phone.prompt => IdleMeansFresh)
  BY DEF ExchangeOK, OffsetOK, IdleMeansFresh
<1> QED
  BY <1>1, ExchangeInvariance, PTL

\* ... and while one goes out the offset is at the start of a fragment.
THEOREM OffsetStaysAligned ==
  ASSUME Undisturbed, SizesFit
  PROVE  Spec => [](phone.prompt => TxAligned)
<1>1. (phone.prompt => ExchangeOK) => (phone.prompt => TxAligned)
  BY DEF ExchangeOK, OffsetOK, TxAligned
<1> QED
  BY <1>1, ExchangeInvariance, PTL
=============================================================================
