----------------------------- MODULE Fds_proofs -----------------------------
(***************************************************************************)
(* Proofs about Fds while nothing is collected (Plain): any number of      *)
(* pages, any sizes, any calls but fds_gc, which the firmware makes only   *)
(* when the peer manager reports a bond deleted or flash full.  The power  *)
(* may fail at any moment, any number of times, during the initialization  *)
(* too.                                                                    *)
(***************************************************************************)
EXTENDS Fds, FiniteSetTheorems, WellFoundedInduction, TLAPS

\* No garbage collection; fstorage itself does not fail.
Plain == "gc" \notin Calls /\ Faults \subseteq {"power"}

----------------------------------------------------------------------------
\* Numbers.

LEMMA Sizes ==
  /\ VirtualPages \in Nat /\ VirtualPages >= 2 /\ MaxPages \in Nat /\ MaxPages >= 1
  /\ MaxPages = VirtualPages - 1
  /\ PageWords \in Nat /\ RecordWords \in Nat /\ RecordWords >= 1
  /\ OpQueueSize \in Nat /\ OpQueueSize >= 1 /\ ChunkQueueSize \in Nat /\ ChunkQueueSize >= 1
  /\ RecordWords + TagWords < PageWords
  /\ MaxCalls \in Nat /\ TagWords = 2
BY FdsAssumption DEF FdsAssumption, MaxPages, TagWords

\* Offsets and slots correspond.
LEMMA Divides == ASSUME NEW n \in Nat, NEW r \in Nat, r >= 1 PROVE (n * r) \div r = n
OBVIOUS

LEMMA Offset ==
  ASSUME NEW k \in Nat, k >= 1
  PROVE  /\ OffsetOf(k) \in Nat /\ OffsetOf(k) >= TagWords
         /\ OffsetOf(k + 1) = OffsetOf(k) + RecordWords
         /\ SlotAt(OffsetOf(k)) = k
<1>1. PICK n \in Nat : n = k - 1
  OBVIOUS
<1>2. n * RecordWords \in Nat /\ (n + 1) * RecordWords = n * RecordWords + RecordWords
  BY Sizes
<1>3. (n * RecordWords) \div RecordWords = n
  BY Divides, Sizes
<1>4. OffsetOf(k) = 2 + n * RecordWords
  BY <1>1 DEF OffsetOf, TagWords
<1>5. OffsetOf(k + 1) = 2 + (n + 1) * RecordWords
  BY <1>1 DEF OffsetOf, TagWords
<1>6. SlotAt(OffsetOf(k)) = (n * RecordWords) \div RecordWords + 1
  <2>1. OffsetOf(k) - TagWords = n * RecordWords
    BY <1>4, <1>2 DEF TagWords
  <2> QED
    BY <2>1 DEF SlotAt
<1> QED
  BY <1>1, <1>2, <1>3, <1>4, <1>5, <1>6, Sizes

LEMMA Wraps == ASSUME NEW n \in Nat, NEW m \in Nat, m >= 1 PROVE n % m \in 0 .. m - 1
OBVIOUS

LEMMA OffsetOne == OffsetOf(1) = TagWords
BY Sizes DEF OffsetOf, TagWords

\* Sets of numbers have a least and, when bounded, a greatest member.
LEMMA Less == \E R : IsWellFoundedOn(R, Nat) /\ \A a, b \in Nat : a < b => <<a, b>> \in R
<1>1. \A a, b \in Nat : a < b => <<a, b>> \in OpToRel(<, Nat)
  BY DEF OpToRel
<1> QED
  BY <1>1, NatLessThanWellFounded, Zenon

LEMMA Least ==
  ASSUME NEW S, S \subseteq Nat, S # {}
  PROVE  \E m \in S : \A n \in S : m <= n
<1>1. PICK R : IsWellFoundedOn(R, Nat) /\ \A a, b \in Nat : a < b => <<a, b>> \in R
  BY Less
<1>2. PICK m \in S : \A n \in S : ~(<<n, m>> \in R)
  <2>1. IsWellFoundedOn(R, Nat)
    BY <1>1
  <2> QED
    BY <2>1, WFMin, Zenon
<1>3. \A n \in S : ~(n < m)
  BY <1>1, <1>2
<1> QED
  BY <1>2, <1>3

LEMMA MinIn ==
  ASSUME NEW S, S \subseteq Nat, S # {}
  PROVE  Min(S) \in S /\ \A n \in S : Min(S) <= n
BY Least DEF Min

LEMMA MaxIn ==
  ASSUME NEW S, S \subseteq Nat, S # {}, NEW n \in Nat, \A x \in S : x <= n
  PROVE  Max(S) \in S /\ \A x \in S : x <= Max(S)
<1> DEFINE U == {k \in Nat : \A x \in S : x <= k}
<1>1. PICK m \in U : \A k \in U : m <= k
  <2>1. n \in U /\ U \subseteq Nat
    OBVIOUS
  <2> HIDE DEF U
  <2> QED
    BY <2>1, Least
<1>2. m \in S
  <2> SUFFICES ASSUME m \notin S PROVE FALSE
    OBVIOUS
  <2>1. PICK x \in S : x <= m /\ x # m /\ m \in Nat /\ x \in Nat
    OBVIOUS
  <2>2. m - 1 \in U
    BY <1>1, <2>1
  <2> QED
    BY <1>1, <2>1, <2>2
<1>3. \A x \in S : m >= x
  BY <1>1, <1>2
<1>4. Max(S) \in S /\ \A x \in S : Max(S) >= x
  BY <1>2, <1>3 DEF Max
<1> QED
  BY <1>4

\* The first record that was found is one of them, and no other is before it.
LEMMA FirstIn ==
  ASSUME NEW found, found \subseteq Nat \X Nat, found # {}
  PROVE  /\ First(found) \in found
         /\ \A g \in found : \/ First(found)[1] < g[1]
                             \/ First(found)[1] = g[1] /\ First(found)[2] <= g[2]
<1> DEFINE Pages == {g[1] : g \in found}
<1>1. PICK p \in Pages : \A q \in Pages : p <= q
  <2>1. Pages \subseteq Nat /\ Pages # {}
    OBVIOUS
  <2> HIDE DEF Pages
  <2> QED
    BY <2>1, Least
<1> DEFINE Of == {g[2] : g \in {h \in found : h[1] = p}}
<1>2. PICK i \in Of : \A j \in Of : i <= j
  <2>1. Of \subseteq Nat /\ Of # {}
    BY <1>1
  <2> HIDE DEF Of
  <2> QED
    BY <2>1, Least
<1>3. PICK f \in found : f[1] = p /\ f[2] = i
  BY <1>2
<1>4. \A g \in found : f[1] < g[1] \/ (f[1] = g[1] /\ f[2] <= g[2])
  <2> TAKE g \in found
  <2>1. g[1] \in Pages /\ p \in Nat /\ g[1] \in Nat
    BY <1>1
  <2>2. CASE g[1] = p
    <3>1. g[2] \in Of
      BY <2>2
    <3> QED
      BY <2>2, <3>1, <1>2, <1>3
  <2>3. CASE g[1] # p
    BY <2>1, <2>3, <1>1, <1>3
  <2> QED
    BY <2>2, <2>3
<1> HIDE DEF Pages, Of
<1> QED
  BY <1>3, <1>4 DEF First

----------------------------------------------------------------------------
\* Pages.

PageSet == [tag : {"erased", "data", "swap"}, recs : Seq(SlotType)]

\* A page within its size on which no slot was passed over.
Whole(page) ==
  /\ page \in PageSet
  /\ OffsetOf(Len(page.recs) + 1) <= PageWords
  /\ \A i \in DOMAIN page.recs : page.recs[i].st # "hole"

ValidSlots(page) == {i \in DOMAIN page.recs : page.recs[i].st = "valid"}

LEMMA NoHoles ==
  ASSUME NEW page, Whole(page)
  PROVE  Reach(page) = 1 .. Len(page.recs) /\ ValidOn(page) = ValidSlots(page)
<1>1. DOMAIN page.recs = 1 .. Len(page.recs) /\ Len(page.recs) \in Nat
  BY DEF Whole, PageSet
<1> QED
  BY <1>1 DEF Whole, Reach, ValidOn, ValidSlots

LEMMA ScanOf ==
  ASSUME NEW page, Whole(page)
  PROVE  /\ page_scan(page).offset = OffsetOf(Len(page.recs) + 1)
         /\ page_scan(page).can_gc \in BOOLEAN
         /\ page_scan(page).latest = {0} \cup {page.recs[i].id : i \in ValidSlots(page)}
<1>1. Len(page.recs) \in Nat
  BY DEF Whole, PageSet
<1>2. Cardinality(1 .. Len(page.recs)) = Len(page.recs)
  BY <1>1, FS_Interval
<1> QED
  BY <1>2, NoHoles DEF page_scan

\* What a store does to a page.
LEMMA PutOn ==
  ASSUME NEW page \in PageSet, NEW i \in 1 .. Len(page.recs) + 1, NEW v \in SlotType
  PROVE  /\ Put(page, i, v) \in PageSet /\ Put(page, i, v).tag = page.tag
         /\ Len(Put(page, i, v).recs) = IF i > Len(page.recs) THEN i ELSE Len(page.recs)
         /\ \A k \in 1 .. Len(Put(page, i, v).recs) :
                Put(page, i, v).recs[k] = IF k = i THEN v ELSE page.recs[k]
<1> DEFINE n == IF i > Len(page.recs) THEN i ELSE Len(page.recs)
           r == [k \in 1 .. n |-> IF k = i THEN v
                                  ELSE IF k <= Len(page.recs) THEN page.recs[k] ELSE Hole]
<1>1. page.recs \in Seq(SlotType) /\ Len(page.recs) \in Nat
  BY DEF PageSet
<1>2. Put(page, i, v) = [page EXCEPT !.recs = r]
  BY DEF Put
<1>3. \A k \in 1 .. n : k # i => k \in 1 .. Len(page.recs)
  BY <1>1
<1>4. \A k \in 1 .. n : r[k] \in SlotType /\ r[k] = IF k = i THEN v ELSE page.recs[k]
  BY <1>1, <1>3
<1>5. n \in Nat
  BY <1>1
<1> HIDE DEF n
<1>6. r \in Seq(SlotType) /\ Len(r) = n
  BY <1>4, <1>5
<1> HIDE DEF r
<1>7. Put(page, i, v).recs = r /\ Put(page, i, v).tag = page.tag /\ Put(page, i, v) \in PageSet
  BY <1>2, <1>6 DEF PageSet
<1> QED
  BY <1>4, <1>6, <1>7 DEF n

----------------------------------------------------------------------------
\* Flash.  The page at address 1 is always the swap, or the initialization
\* has not tagged it yet; the others are the pages of data.

Data  == 2 .. VirtualPages
Rec(a, i) == flash[a].recs[i]
Valid(a)  == ValidSlots(flash[a])
Top(a)    == Len(flash[a].recs)

SwapPage == [tag |-> "swap", recs |-> <<>>]
EmptyDataPage == [tag |-> "data", recs |-> <<>>]

Blank == \A a \in Addrs : flash[a] = Erased

\* No record that is valid has this identifier.
Fresh(id) == \A a \in Data : \A i \in Valid(a) : Rec(a, i).id # id

Unique ==
  \A a, b \in Data : \A i \in Valid(a), j \in Valid(b) :
      Rec(a, i).id = Rec(b, j).id => a = b /\ i = j

FlashOK ==
  /\ DOMAIN flash = Addrs
  /\ \A a \in Addrs : Whole(flash[a])
  /\ flash[1] \in {Erased, SwapPage}
  /\ \A a \in Data : flash[a].tag = "data" \/ flash[a] = Erased
  /\ flash[1] = Erased => Blank
  /\ \A a \in Data : \A i \in Valid(a) : Rec(a, i).id <= calls
  /\ Unique

----------------------------------------------------------------------------
\* What pages_init finds.

IsErased(a) == flash[a].tag = "erased"

Known(a) == IF IsErased(a) THEN ErasedPage(a)
            ELSE [DataPage EXCEPT !.p_addr = a,
                                  !.write_offset = page_scan(flash[a]).offset,
                                  !.can_gc = page_scan(flash[a]).can_gc]

IdsOn(a)  == IF IsErased(a) THEN {} ELSE page_scan(flash[a]).latest
KindOf(a) == IF IsErased(a) THEN "ERASED" ELSE "DATA"

Start == [pages |-> <<>>, swap |-> NoSwap, not_found |-> FALSE, cur |-> 1,
          ids |-> {0}, seen |-> {}]

NotFound   == IF IsErased(1) THEN TRUE ELSE FALSE
FirstKind  == IF IsErased(1) THEN "ERASED" ELSE "SWAP_CLEAN"
PagesTo(n) == [k \in 1 .. n - 1 |-> Known(k + 1)]
CurTo(n)   == Max({1} \cup {k \in 1 .. n - 1 : IsErased(k + 1)})
IdsTo(n)   == {0} \cup UNION {IdsOn(a) : a \in 2 .. n}
SeenTo(n)  == {FirstKind} \cup {KindOf(a) : a \in 2 .. n}

\* After n pages.
After(n) ==
  IF n = 0 THEN Start
  ELSE [pages |-> PagesTo(n), swap |-> [p_addr |-> 1, write_offset |-> TagWords],
        not_found |-> NotFound, cur |-> CurTo(n), ids |-> IdsTo(n), seen |-> SeenTo(n)]

LEMMA FirstPage ==
  ASSUME FlashOK
  PROVE  PageInit(After(0), 1) = After(1)
<1>1. Whole(flash[1]) /\ 1 \in Addrs
  BY Sizes DEF FlashOK, Addrs
<1>2. After(0) = Start
  BY DEF After
<1>3. (1 .. 0) = {} /\ (2 .. 1) = {}
  OBVIOUS
<1>4. PagesTo(1) = <<>>
  BY DEF PagesTo
<1>5. CurTo(1) = 1
  <2>1. {1} \cup {k \in 1 .. 0 : IsErased(k + 1)} = {1}
    OBVIOUS
  <2> QED
    BY <2>1 DEF Max, CurTo
<1>6. IdsTo(1) = {0}
  BY <1>3 DEF IdsTo
<1>7. SeenTo(1) = {FirstKind}
  BY <1>3 DEF SeenTo
<1>8. After(1) =
        [pages |-> <<>>, swap |-> [p_addr |-> 1, write_offset |-> TagWords],
         not_found |-> NotFound, cur |-> 1, ids |-> {0},
         seen |-> {FirstKind}]
  <2>1. After(1) =
          [pages |-> PagesTo(1), swap |-> [p_addr |-> 1, write_offset |-> TagWords],
           not_found |-> NotFound, cur |-> CurTo(1), ids |-> IdsTo(1), seen |-> SeenTo(1)]
    BY DEF After
  <2> QED
    BY <1>4, <1>5, <1>6, <1>7, <2>1, Zenon
<1>9. CASE flash[1] = Erased
  <2>1. flash[1].tag = "erased" /\ Start.swap.p_addr = 0
    BY <1>9 DEF Erased, Start, NoSwap
  <2>2. PageInit(Start, 1) =
          [Start EXCEPT !.swap = [p_addr |-> 1, write_offset |-> TagWords],
                        !.not_found = TRUE, !.seen = @ \cup {"ERASED"}]
    BY <2>1 DEF PageInit
  <2>3. NotFound = TRUE /\ FirstKind = "ERASED"
    BY <2>1 DEF IsErased, NotFound, FirstKind
  <2>4. PageInit(Start, 1) =
          [pages |-> <<>>, swap |-> [p_addr |-> 1, write_offset |-> TagWords],
           not_found |-> TRUE, cur |-> 1, ids |-> {0}, seen |-> {} \cup {"ERASED"}]
    BY <2>2 DEF Start
  <2>5. {} \cup {"ERASED"} = {"ERASED"}
    OBVIOUS
  <2> QED
    BY <1>2, <1>8, <2>3, <2>4, <2>5
<1>10. CASE flash[1] = SwapPage
  <2>1. flash[1].tag = "swap" /\ Start.not_found = FALSE
    BY <1>10 DEF SwapPage, Start
  <2>2. page_scan(flash[1]).offset = TagWords
    <3>1. Len(flash[1].recs) + 1 = 1
      BY <1>10 DEF SwapPage
    <3> QED
      BY <1>1, <3>1, ScanOf, OffsetOne
  <2>3. page_scan(flash[1]).latest = {0}
    <3>1. ValidSlots(flash[1]) = {}
      BY <1>10 DEF SwapPage, ValidSlots
    <3> QED
      BY <1>1, <3>1, ScanOf
  <2>4. PageInit(Start, 1) =
          [Start EXCEPT !.pages = @,
                        !.swap = [p_addr |-> 1, write_offset |-> TagWords],
                        !.ids = @ \cup {0}, !.seen = @ \cup {"SWAP_CLEAN"}]
    BY <2>1, <2>2, <2>3 DEF PageInit
  <2>5. NotFound = FALSE /\ FirstKind = "SWAP_CLEAN"
    BY <2>1 DEF IsErased, NotFound, FirstKind
  <2>6. PageInit(Start, 1) =
          [pages |-> <<>>, swap |-> [p_addr |-> 1, write_offset |-> TagWords],
           not_found |-> FALSE, cur |-> 1, ids |-> {0} \cup {0}, seen |-> {} \cup {"SWAP_CLEAN"}]
    BY <2>4 DEF Start
  <2>7. {} \cup {"SWAP_CLEAN"} = {"SWAP_CLEAN"} /\ {0} \cup {0} = {0}
    OBVIOUS
  <2> QED
    BY <1>2, <1>8, <2>5, <2>6, <2>7
<1> QED
  BY <1>9, <1>10 DEF FlashOK

LEMMA NextPage ==
  ASSUME FlashOK, NEW n \in Data
  PROVE  PageInit(After(n - 1), n) = After(n)
<1>0. PICK m : m = n - 1
  OBVIOUS
<1>1. /\ n - 1 # 0 /\ n # 0 /\ n \in Nat /\ n - 1 \in Nat /\ n >= 2 /\ n - 2 \in Nat
      /\ (n - 1) - 1 = n - 2 /\ m = n - 1 /\ m # 0
  BY <1>0, Sizes DEF Data
<1>2. After(m) =
        [pages |-> PagesTo(m), swap |-> [p_addr |-> 1, write_offset |-> TagWords],
         not_found |-> NotFound, cur |-> CurTo(m), ids |-> IdsTo(m),
         seen |-> SeenTo(m)]
  BY <1>1 DEF After
<1>3. After(n) =
        [pages |-> PagesTo(n), swap |-> [p_addr |-> 1, write_offset |-> TagWords],
         not_found |-> NotFound, cur |-> CurTo(n), ids |-> IdsTo(n), seen |-> SeenTo(n)]
  BY <1>1 DEF After
<1>4. PagesTo(m) \in Seq({Known(a) : a \in Data}) /\ Len(PagesTo(m)) = n - 2
  <2>1. PagesTo(m) = [k \in 1 .. n - 2 |-> Known(k + 1)]
    BY <1>1 DEF PagesTo
  <2>2. \A k \in 1 .. n - 2 : Known(k + 1) \in {Known(a) : a \in Data}
    <3> TAKE k \in 1 .. n - 2
    <3>1. k + 1 \in Data
      BY <1>1, Sizes DEF Data
    <3> QED
      BY <3>1
  <2> QED
    BY <1>1, <2>1, <2>2
<1>5. PagesTo(n) = Append(PagesTo(m), Known(n))
  <2>1. Append(PagesTo(m), Known(n)) =
          [k \in 1 .. n - 1 |-> IF k = n - 1 THEN Known(n) ELSE PagesTo(m)[k]]
    BY <1>1, <1>4
  <2>2. \A k \in 1 .. n - 1 :
           Known(k + 1) = IF k = n - 1 THEN Known(n) ELSE PagesTo(m)[k]
    BY <1>1 DEF PagesTo
  <2> QED
    BY <2>1, <2>2 DEF PagesTo
<1>6. IdsTo(n) = IdsTo(m) \cup IdsOn(n)
  BY <1>1 DEF IdsTo
<1>7. SeenTo(n) = SeenTo(m) \cup {KindOf(n)}
  BY <1>1 DEF SeenTo
<1>8. CASE IsErased(n)
  <2>1. CurTo(n) = n - 1
    <3> DEFINE S == {1} \cup {k \in 1 .. n - 1 : IsErased(k + 1)}
    <3>1. n - 1 \in S /\ S \subseteq Nat /\ \A x \in S : x <= n - 1
      BY <1>1, <1>8
    <3>2. CurTo(n) = Max(S)
      BY DEF CurTo
    <3> HIDE DEF S
    <3>3. Max(S) \in S /\ \A x \in S : x <= Max(S)
      BY <1>1, <3>1, MaxIn
    <3>4. Max(S) \in Nat /\ Max(S) <= n - 1 /\ n - 1 <= Max(S)
      BY <3>1, <3>3
    <3> QED
      BY <1>1, <3>2, <3>4
  <2>2. /\ flash[n].tag = "erased" /\ After(m).swap.p_addr # 0
        /\ Known(n) = ErasedPage(n) /\ IdsOn(n) = {} /\ KindOf(n) = "ERASED"
    BY <1>2, <1>8 DEF IsErased, Known, IdsOn, KindOf
  <2>3. PageInit(After(m), n) =
          [After(m) EXCEPT !.pages = Append(After(m).pages, ErasedPage(n)),
                               !.cur = Len(After(m).pages) + 1,
                               !.seen = After(m).seen \cup {"ERASED"}]
    BY <2>2 DEF PageInit
  <2>4. PageInit(After(m), n) =
          [pages |-> Append(PagesTo(m), Known(n)),
           swap |-> [p_addr |-> 1, write_offset |-> TagWords],
           not_found |-> NotFound, cur |-> Len(PagesTo(m)) + 1, ids |-> IdsTo(m),
           seen |-> SeenTo(m) \cup {"ERASED"}]
    <3>1. /\ After(m).pages = PagesTo(m) /\ After(m).seen = SeenTo(m)
          /\ ErasedPage(n) = Known(n)
      BY <1>2, <2>2
    <3>2. PageInit(After(m), n) =
            [After(m) EXCEPT !.pages = Append(PagesTo(m), Known(n)),
                                 !.cur = Len(PagesTo(m)) + 1,
                                 !.seen = SeenTo(m) \cup {"ERASED"}]
      BY <2>3, <3>1, Zenon
    <3> DEFINE p == Append(PagesTo(m), Known(n))
               c == Len(PagesTo(m)) + 1
               k == SeenTo(m) \cup {"ERASED"}
    <3>3. PageInit(After(m), n) = [After(m) EXCEPT !.pages = p, !.cur = c, !.seen = k]
      BY <3>2
    <3> HIDE DEF p, c, k
    <3>4. PageInit(After(m), n) =
            [pages |-> p, swap |-> [p_addr |-> 1, write_offset |-> TagWords],
             not_found |-> NotFound, cur |-> c, ids |-> IdsTo(m), seen |-> k]
      <4>1. PICK s, x, q, w, z, i : /\ s = After(m) /\ x = PageInit(After(m), n)
                                   /\ q = PagesTo(m) /\ z = NotFound /\ i = IdsTo(m)
                                   /\ w = [p_addr |-> 1, write_offset |-> TagWords]
        OBVIOUS
      <4>2. PICK a, d : a = CurTo(m) /\ d = SeenTo(m)
        OBVIOUS
      <4>3. PICK p1, c1, k1 : p1 = p /\ c1 = c /\ k1 = k
        OBVIOUS
      <4>4. s = [pages |-> q, swap |-> w, not_found |-> z, cur |-> a, ids |-> i, seen |-> d]
        BY <1>2, <4>1, <4>2, Zenon
      <4>5. x = [s EXCEPT !.pages = p1, !.cur = c1, !.seen = k1]
        BY <3>3, <4>1, <4>3, Zenon
      <4>6. x = [pages |-> p1, swap |-> w, not_found |-> z, cur |-> c1, ids |-> i, seen |-> k1]
        BY <4>4, <4>5
      <4> QED
        BY <4>1, <4>3, <4>6, Zenon
    <3> QED
      BY <3>4 DEF p, c, k
  <2>5. Len(PagesTo(m)) + 1 = n - 1 /\ IdsTo(n) = IdsTo(m)
    BY <1>1, <1>4, <1>6, <2>2
  <2>6. /\ Append(PagesTo(m), Known(n)) = PagesTo(n) /\ Len(PagesTo(m)) + 1 = CurTo(n)
        /\ IdsTo(m) = IdsTo(n) /\ SeenTo(m) \cup {"ERASED"} = SeenTo(n)
    BY <1>5, <1>7, <2>1, <2>2, <2>5
  <2>7. PageInit(After(m), n) = After(n)
    BY <1>3, <2>4, <2>6, Zenon
  <2> QED
    BY <1>0, <2>7
<1>9. CASE ~IsErased(n)
  <2>1. /\ flash[n].tag = "data"
        /\ IdsOn(n) = page_scan(flash[n]).latest /\ KindOf(n) = "DATA"
    BY <1>9 DEF FlashOK, IsErased, Erased, IdsOn, KindOf
  <2>2. CurTo(n) = CurTo(m)
    <3>1. {k \in 1 .. n - 1 : IsErased(k + 1)} = {k \in 1 .. n - 2 : IsErased(k + 1)}
      BY <1>1, <1>9
    <3> QED
      BY <1>1, <3>1 DEF CurTo
  <2>3. PageInit(After(m), n) =
          [After(m) EXCEPT !.pages = Append(After(m).pages, Known(n)),
                               !.ids = After(m).ids \cup page_scan(flash[n]).latest,
                               !.seen = After(m).seen \cup {"DATA"}]
    BY <1>9, <2>1 DEF PageInit, Known
  <2>4. PageInit(After(m), n) =
          [pages |-> Append(PagesTo(m), Known(n)),
           swap |-> [p_addr |-> 1, write_offset |-> TagWords],
           not_found |-> NotFound, cur |-> CurTo(m),
           ids |-> IdsTo(m) \cup IdsOn(n), seen |-> SeenTo(m) \cup {"DATA"}]
    <3>1. /\ After(m).pages = PagesTo(m) /\ After(m).seen = SeenTo(m)
          /\ After(m).ids = IdsTo(m) /\ page_scan(flash[n]).latest = IdsOn(n)
      BY <1>2, <2>1
    <3>2. PageInit(After(m), n) =
            [After(m) EXCEPT !.pages = Append(PagesTo(m), Known(n)),
                                 !.ids = IdsTo(m) \cup IdsOn(n),
                                 !.seen = SeenTo(m) \cup {"DATA"}]
      BY <2>3, <3>1, Zenon
    <3> DEFINE p == Append(PagesTo(m), Known(n))
               i == IdsTo(m) \cup IdsOn(n)
               k == SeenTo(m) \cup {"DATA"}
    <3>3. PageInit(After(m), n) = [After(m) EXCEPT !.pages = p, !.ids = i, !.seen = k]
      BY <3>2
    <3> HIDE DEF p, i, k
    <3>4. PageInit(After(m), n) =
            [pages |-> p, swap |-> [p_addr |-> 1, write_offset |-> TagWords],
             not_found |-> NotFound, cur |-> CurTo(m), ids |-> i, seen |-> k]
      <4>1. PICK s, x, q, w, z, a : /\ s = After(m) /\ x = PageInit(After(m), n)
                                   /\ q = PagesTo(m) /\ z = NotFound /\ a = CurTo(m)
                                   /\ w = [p_addr |-> 1, write_offset |-> TagWords]
        OBVIOUS
      <4>2. PICK b, d : b = IdsTo(m) /\ d = SeenTo(m)
        OBVIOUS
      <4>3. PICK p1, i1, k1 : p1 = p /\ i1 = i /\ k1 = k
        OBVIOUS
      <4>4. s = [pages |-> q, swap |-> w, not_found |-> z, cur |-> a, ids |-> b, seen |-> d]
        BY <1>2, <4>1, <4>2, Zenon
      <4>5. x = [s EXCEPT !.pages = p1, !.ids = i1, !.seen = k1]
        BY <3>3, <4>1, <4>3, Zenon
      <4>6. x = [pages |-> p1, swap |-> w, not_found |-> z, cur |-> a, ids |-> i1, seen |-> k1]
        BY <4>4, <4>5
      <4> QED
        BY <4>1, <4>3, <4>6, Zenon
    <3> QED
      BY <3>4 DEF p, i, k
  <2>5. /\ Append(PagesTo(m), Known(n)) = PagesTo(n) /\ CurTo(m) = CurTo(n)
        /\ IdsTo(m) \cup IdsOn(n) = IdsTo(n) /\ SeenTo(m) \cup {"DATA"} = SeenTo(n)
    BY <1>5, <1>6, <1>7, <2>1, <2>2
  <2>6. PageInit(After(m), n) = After(n)
    BY <1>3, <2>4, <2>5, Zenon
  <2> QED
    BY <1>0, <2>6
<1> QED
  BY <1>0, <1>8, <1>9

\* The loop of pages_init finds the pages as they are.
LEMMA ScanEnds ==
  ASSUME FlashOK
  PROVE  pages_init = After(VirtualPages)
<1> DEFINE Is(g) == g = [a \in 0 .. VirtualPages |->
                            IF a = 0 THEN Start ELSE PageInit(g[a - 1], a)]
           G == [a \in 0 .. VirtualPages |-> After(a)]
<1>1. \A a \in 1 .. VirtualPages : PageInit(After(a - 1), a) = After(a)
  <2> TAKE a \in 1 .. VirtualPages
  <2>1. CASE a = 1
    BY <2>1, FirstPage
  <2>2. CASE a # 1
    <3>1. a \in Data
      BY <2>2 DEF Data
    <3> QED
      BY <3>1, NextPage
  <2> QED
    BY <2>1, <2>2
<1>2. Is(G)
  <2>1. \A a \in 0 .. VirtualPages :
           After(a) = IF a = 0 THEN Start ELSE PageInit(G[a - 1], a)
    <3> TAKE a \in 0 .. VirtualPages
    <3>1. CASE a = 0
      BY <3>1 DEF After
    <3>2. CASE a # 0
      <4>1. a \in 1 .. VirtualPages /\ a - 1 \in 0 .. VirtualPages
        BY <3>2, Sizes
      <4>2. G[a - 1] = After(a - 1)
        BY <4>1
      <4> QED
        BY <3>2, <4>1, <4>2, <1>1
    <3> QED
      BY <3>1, <3>2
  <2> QED
    BY <2>1
<1>3. Scanned = CHOOSE g : Is(g)
  BY DEF Scanned, Start
<1>4. Is(Scanned)
  <2> HIDE DEF Is
  <2>1. Is(CHOOSE g : Is(g))
    BY <1>2, Zenon
  <2> QED
    BY <1>3, <2>1
<1> DEFINE Wrong == {a \in 0 .. VirtualPages : Scanned[a] # After(a)}
<1>5. Wrong = {}
  <2> SUFFICES ASSUME Wrong # {} PROVE FALSE
    OBVIOUS
  <2>1. PICK m \in Wrong : \A a \in Wrong : m <= a
    <3>1. Wrong \subseteq Nat
      BY Sizes
    <3> HIDE DEF Wrong
    <3> QED
      BY <3>1, Least
  <2>2. Scanned[m] = IF m = 0 THEN Start ELSE PageInit(Scanned[m - 1], m)
    BY <1>4
  <2>3. CASE m = 0
    BY <2>2, <2>3 DEF After
  <2>4. CASE m # 0
    <3>1. m \in 1 .. VirtualPages /\ m - 1 \in 0 .. VirtualPages /\ ~(m <= m - 1)
      BY <2>4, Sizes
    <3>2. Scanned[m - 1] = After(m - 1)
      BY <2>1, <3>1
    <3>3. Scanned[m] = After(m)
      BY <2>2, <2>4, <3>1, <3>2, <1>1
    <3> QED
      BY <3>3
  <2> QED
    BY <2>3, <2>4
<1> QED
  BY <1>5, Sizes DEF pages_init

----------------------------------------------------------------------------
\* The inductive invariant.  After a reset everything but flash is as zeroed.

OffState ==
  /\ m_flags = {} /\ m_op_queue = <<>> /\ m_chunk_queue = NoChunks
  /\ m_latest_rec_id = 0 /\ m_pages = <<>> /\ m_swap_page = NoSwap /\ m_gc = GcIdle
  /\ tok = NoTok /\ request = None /\ turn = "none" /\ result = "none"
  /\ reader = NoReader

\* What fds knows of the pages: without garbage collection they keep their places.
PageRec ==
  [page_type : {"data", "erased"}, p_addr : Addrs, write_offset : 0 .. PageWords,
   words_reserved : 0 .. PageWords, records_open : 0 .. MaxCalls, can_gc : BOOLEAN]

PagesOK ==
  /\ m_pages \in [1 .. MaxPages -> PageRec]
  /\ \A p \in 1 .. MaxPages :
       /\ m_pages[p].p_addr = p + 1
       /\ m_pages[p].write_offset + m_pages[p].words_reserved <= PageWords
  /\ m_swap_page = [p_addr |-> 1, write_offset |-> TagWords]
  /\ m_gc.state = "BEGIN" /\ m_gc.run_count = 0

\* Identifiers: the one given out last is the greatest.
IdsOK ==
  /\ m_latest_rec_id \in 0 .. calls
  /\ \A a \in Data : \A i \in Valid(a) : Rec(a, i).id <= m_latest_rec_id

OpType ==
  [code : {"init", "write", "update", "delete", "file_delete"},
   step : {"TAG_SWAP", "TAG_DATA", "FIND_RECORD", "HEADER_BEGIN", "RECORD_ID", "CHUNKS",
           "HEADER_FINALIZE", "FLAG_DIRTY", "DONE", "DEL_RECORD", "DEL_FILE", "DEL_DONE"},
   page : 1 .. MaxPages, id : Ids, file : Files \cup {0}, old : Ids]

Due      == turn = "ok" /\ request = None
InFlight == turn = "none"

\* The initialization, step by step; the page types run ahead of the tags.
Tagging ==
  \/ /\ p_op.step = "TAG_SWAP" /\ Due /\ Blank
     /\ \A p \in 1 .. MaxPages : m_pages[p].page_type = "erased"
  \/ /\ p_op.step = "TAG_DATA" /\ InFlight /\ Blank
     /\ request = [kind |-> "tag", addr |-> 1, slot |-> 0, page |-> SwapPage]
     /\ \A p \in 1 .. MaxPages : m_pages[p].page_type = "erased"
  \/ /\ p_op.step = "TAG_DATA" /\ Due /\ flash[1] = SwapPage
     /\ \A p \in 1 .. MaxPages : m_pages[p].page_type = flash[p + 1].tag
  \/ /\ p_op.step = "TAG_DATA" /\ InFlight /\ flash[1] = SwapPage
     /\ \E q \in 1 .. MaxPages :
          /\ request = [kind |-> "tag", addr |-> q + 1, slot |-> 0, page |-> EmptyDataPage]
          /\ m_pages[q].page_type = "data" /\ flash[q + 1] = Erased
          /\ \A p \in 1 .. MaxPages : p # q => m_pages[p].page_type = flash[p + 1].tag

Starting ==
  /\ m_flags = {"INITIALIZING", "PROCESSING"}
  /\ m_op_queue \in Seq(OpType) /\ Len(m_op_queue) = 1 /\ p_op.code = "init" /\ Tagging
  /\ m_chunk_queue = NoChunks /\ tok = NoTok /\ reader = NoReader /\ result = "none"
  /\ \A p \in 1 .. MaxPages :
       /\ m_pages[p].words_reserved = 0 /\ m_pages[p].records_open = 0
       /\ m_pages[p].write_offset = OffsetOf(Top(p + 1) + 1)

\* How the calls of the application enter the queue.
AtStart(op) ==
  \/ op.code = "write" /\ op.step = "HEADER_BEGIN"
  \/ op.code = "update" /\ op.step = "FIND_RECORD"
  \/ op.code = "delete" /\ op.step = "DEL_RECORD"
  \/ op.code = "file_delete" /\ op.step = "DEL_FILE"

Writes == {"write", "update"}

\* fstorage is busy with a store.
Asks(kind, a, i, v) ==
  request = [kind |-> kind, addr |-> a, slot |-> i, page |-> Put(flash[a], i, v)]

Dirtied(a, i) == [Rec(a, i) EXCEPT !.st = "dirty"]

\* The operation at the head of the queue, step by step.  A write has the slot
\* at the end of its page, which is begun, whole, or not there yet.
Home(op)   == op.page + 1
New(op)    == Rec(Home(op), Top(Home(op)))
Begins(op) == Top(Home(op)) > 0 /\ New(op).st = "begun"
Stands(op) == Top(Home(op)) > 0 /\ New(op).st = "valid" /\ New(op).id = op.id

OldThere(op) ==
  op.code = "update" =>
    /\ desc.page \in 1 .. MaxPages /\ desc.p_addr = desc.page + 1
    /\ desc.slot \in Valid(desc.p_addr) /\ Rec(desc.p_addr, desc.slot).id = op.old

Starts(op) == Due /\ AtStart(op) /\ tok = NoTok

Opening(op) ==
  /\ InFlight /\ op.code \in Writes /\ Fresh(op.id) /\ OldThere(op)
  /\ op.step = "RECORD_ID" /\ Asks("begin", Home(op), Top(Home(op)) + 1, Begun)

Filling(op) ==
  /\ Due /\ op.code \in Writes /\ Fresh(op.id) /\ OldThere(op) /\ Begins(op)
  /\ op.step \in {"RECORD_ID", "CHUNKS", "HEADER_FINALIZE"}
  /\ op.step # "RECORD_ID" => New(op).id = op.id

Storing(op) ==
  /\ InFlight /\ op.code \in Writes /\ Fresh(op.id) /\ OldThere(op) /\ Begins(op)
  /\ op.step \in {"CHUNKS", "HEADER_FINALIZE"}
  /\ \E v \in SlotType, kind \in {"id", "chunk"} :
       v.st = "begun" /\ v.id = op.id /\ Asks(kind, Home(op), Top(Home(op)), v)

Sealing(op) ==
  /\ InFlight /\ op.code \in Writes /\ Fresh(op.id) /\ OldThere(op) /\ Begins(op)
  /\ op.step = IF op.code = "update" THEN "FLAG_DIRTY" ELSE "DONE"
  /\ \E v \in SlotType :
       v.st = "valid" /\ v.id = op.id /\ Asks("finalize", Home(op), Top(Home(op)), v)

Sealed(op) ==
  /\ Due /\ op.code = "update" /\ OldThere(op) /\ Stands(op) /\ op.step = "FLAG_DIRTY"

Replacing(op) ==
  /\ InFlight /\ op.code = "update" /\ OldThere(op) /\ Stands(op) /\ op.step = "DONE"
  /\ Asks("dirty", desc.p_addr, desc.slot, Dirtied(desc.p_addr, desc.slot))

Replaced(op) ==
  /\ Due /\ op.code \in Writes /\ Stands(op) /\ op.step = "DONE"
  /\ op.code = "update" => Fresh(op.old)

Marking(op) ==
  /\ InFlight /\ op.code = "delete" /\ op.step = "DEL_DONE"
  /\ \E a \in Data : \E i \in Valid(a) :
       Rec(a, i).id = op.old /\ Asks("dirty", a, i, Dirtied(a, i))

Marked(op) == Due /\ op.code = "delete" /\ op.step = "DEL_DONE" /\ Fresh(op.old)

\* A file is deleted in order: what is left of it is behind the token.
Behind(p, i) == p > tok.page \/ (p = tok.page /\ i > tok.slot)

Sweeping(op) ==
  /\ Due /\ op.code = "file_delete" /\ op.step = "DEL_FILE"
  /\ tok.page \in Nat /\ tok.slot \in Nat
  /\ \A p \in 1 .. MaxPages : \A i \in Valid(p + 1) :
       Rec(p + 1, i).file = op.file => Behind(p, i)

Clearing(op) ==
  /\ InFlight /\ op.code = "file_delete" /\ op.step = "DEL_FILE"
  /\ tok.page \in 1 .. MaxPages /\ tok.slot \in Valid(tok.page + 1)
  /\ Rec(tok.page + 1, tok.slot).file = op.file
  /\ Asks("dirty", tok.page + 1, tok.slot, Dirtied(tok.page + 1, tok.slot))
  /\ \A p \in 1 .. MaxPages : \A i \in Valid(p + 1) :
       Rec(p + 1, i).file = op.file => Behind(p, i) \/ (p = tok.page /\ i = tok.slot)

Truthful(op) ==
  /\ op.code \in Writes => \E a \in Data : \E i \in Valid(a) : Rec(a, i).id = op.id
  /\ op.code \in {"delete", "update"} => Fresh(op.old)
  /\ op.code = "file_delete" => \A a \in Data : \A i \in Valid(a) : Rec(a, i).file # op.file

Ended(op) ==
  /\ turn = "event" /\ request = None /\ result \in {"success", "not_found"} /\ tok = NoTok
  /\ result = "success" => Truthful(op)

Executing(op) ==
  \/ Starts(op) \/ Opening(op) \/ Filling(op) \/ Storing(op) \/ Sealing(op)
  \/ Sealed(op) \/ Replacing(op) \/ Replaced(op) \/ Marking(op) \/ Marked(op)
  \/ Sweeping(op) \/ Clearing(op) \/ Ended(op)

\* While the write offset of its page is behind the slot it has begun.
InSlot(op) ==
  /\ op.code \in Writes /\ turn # "event"
  /\ \/ op.step = "RECORD_ID" /\ turn = "ok"
     \/ op.step \in {"CHUNKS", "HEADER_FINALIZE", "FLAG_DIRTY", "DONE"}

HeadOK ==
  /\ m_op_queue = <<>> => turn = "none" /\ request = None /\ tok = NoTok
  /\ m_op_queue # <<>> => Executing(p_op) /\ (p_op.code = "file_delete" \/ tok = NoTok)
  /\ \A p \in 1 .. MaxPages :
       m_pages[p].write_offset =
         OffsetOf(IF m_op_queue # <<>> /\ p_op.page = p /\ InSlot(p_op)
                  THEN Top(p + 1) ELSE Top(p + 1) + 1)

\* The operations that still have something to do, and of these the writes
\* with words reserved on a page and the ones with a chunk, by identifier.
ToDo == IF turn = "event" THEN 2 .. Len(m_op_queue) ELSE 1 .. Len(m_op_queue)

Unwritten(p) ==
  {m_op_queue[i].id :
     i \in {j \in ToDo : m_op_queue[j].code \in Writes /\ m_op_queue[j].page = p}}

Holding == {m_op_queue[i].id : i \in {j \in ToDo : HasChunk(m_op_queue[j])}}

\* A write in the queue: its identifier is new until it has written.
WriteOK(op) ==
  /\ op.id <= m_latest_rec_id /\ op.old < op.id
  /\ AtStart(op) => Fresh(op.id)

QueueOK ==
  /\ m_op_queue \in Seq(OpType) /\ Len(m_op_queue) <= OpQueueSize
  /\ \A i \in 2 .. Len(m_op_queue) : AtStart(m_op_queue[i])
  /\ \A i \in 1 .. Len(m_op_queue) :
       m_op_queue[i].code \in Writes => WriteOK(m_op_queue[i])
  /\ \A i, j \in 1 .. Len(m_op_queue) :
       m_op_queue[i].code \in Writes /\ m_op_queue[j].code \in Writes /\ i < j =>
         m_op_queue[i].id < m_op_queue[j].id

\* Nothing is reserved twice, nothing is given back twice.  Words an update
\* that failed had reserved stay so.
AccountsOK ==
  /\ \A p \in 1 .. MaxPages :
       m_pages[p].words_reserved >= RecordWords * Cardinality(Unwritten(p))
  /\ m_chunk_queue.count \in 0 .. ChunkQueueSize
  /\ m_chunk_queue.count >= Cardinality(Holding)
  /\ m_chunk_queue.rp \in Nat
  /\ m_chunk_queue.chunk \in [0 .. ChunkQueueSize - 1 -> Ids]

\* The descriptor of the application points to the record it found, which may
\* have been deleted since.
Descriptor ==
  [kind : {"desc"}, record_id : Ids, p_addr : Addrs, slot : Nat, gc_run_count : {0},
   is_open : BOOLEAN]

ReaderOK ==
  /\ \/ reader = NoReader
     \/ /\ reader \in Descriptor /\ calls > 0
        /\ reader.p_addr \in Data /\ reader.slot \in DOMAIN flash[reader.p_addr].recs
        /\ Rec(reader.p_addr, reader.slot).id = reader.record_id
        /\ Rec(reader.p_addr, reader.slot).st \in {"valid", "dirty"}
        /\ reader.gc_run_count = 0
  /\ \A p \in 1 .. MaxPages :
       m_pages[p].records_open = IF reader.is_open /\ reader.p_addr = p + 1 THEN 1 ELSE 0

TagsOK ==
  /\ flash[1] = SwapPage /\ \A a \in Data : flash[a].tag = "data"
  /\ \A p \in 1 .. MaxPages : m_pages[p].page_type = "data"

Flags == {"INITIALIZED"} \cup IF m_op_queue = <<>> THEN {} ELSE {"PROCESSING"}

Running ==
  m_flags = Flags /\ TagsOK /\ HeadOK /\ QueueOK /\ AccountsOK /\ ReaderOK

IInv ==
  /\ calls \in 0 .. MaxCalls /\ FlashOK
  /\ OffState \/ (PagesOK /\ IdsOK /\ (Starting \/ Running))

----------------------------------------------------------------------------
\* The parts of the invariant a step keeps by leaving variables alone.

LEMMA DataIsAddr == \A a \in Data : a \in Addrs /\ a \in Nat /\ a - 1 \in 1 .. MaxPages
BY Sizes DEF Data, Addrs

LEMMA PageIsData ==
  \A p \in 1 .. MaxPages : p \in Nat /\ p + 1 \in Data /\ p + 1 \in Addrs /\ p + 1 # 1
BY Sizes DEF Data, Addrs

LEMMA EmptyCounts == Cardinality({}) = 0
BY FS_EmptySet

----------------------------------------------------------------------------
\* fds_init

LEMMA Steps ==
  /\ InitStep({"ERASED"}) = "TAG_SWAP"
  /\ InitStep({"SWAP_CLEAN", "DATA"}) = "INSTALLED"
  /\ InitStep({"SWAP_CLEAN", "ERASED"}) = "TAG_DATA"
  /\ InitStep({"SWAP_CLEAN", "ERASED", "DATA"}) = "TAG_DATA"
<1>1. InitStep({"ERASED"}) = "TAG_SWAP"
  BY DEF InitStep
<1>2. InitStep({"SWAP_CLEAN", "DATA"}) = "INSTALLED"
  BY DEF InitStep
<1>3. InitStep({"SWAP_CLEAN", "ERASED"}) = "TAG_DATA"
  BY DEF InitStep
<1>4. InitStep({"SWAP_CLEAN", "ERASED", "DATA"}) = "TAG_DATA"
  BY DEF InitStep
<1> QED
  BY <1>1, <1>2, <1>3, <1>4

LEMMA KnownPage ==
  ASSUME FlashOK, NEW a \in Data
  PROVE  /\ Known(a) \in PageRec /\ Known(a).p_addr = a
         /\ Known(a).write_offset = OffsetOf(Top(a) + 1)
         /\ Known(a).words_reserved = 0 /\ Known(a).records_open = 0
         /\ IsErased(a) => Known(a).page_type = "erased"
         /\ ~IsErased(a) => Known(a).page_type = "data" /\ flash[a].tag = "data"
<1>1. a \in Addrs /\ Whole(flash[a])
  BY DataIsAddr DEF FlashOK
<1>2. Len(flash[a].recs) \in Nat
  BY <1>1 DEF Whole, PageSet
<1>3. /\ OffsetOf(Top(a) + 1) \in Nat /\ OffsetOf(Top(a) + 1) <= PageWords
      /\ OffsetOf(Top(a) + 1) \in 0 .. PageWords
  <2>1. PICK k \in Nat : k = Top(a) + 1 /\ k >= 1
    BY <1>2 DEF Top
  <2>2. OffsetOf(k) \in Nat
    BY <2>1, Offset
  <2>3. OffsetOf(k) <= PageWords
    BY <1>1, <2>1 DEF Whole, Top
  <2> QED
    BY <2>1, <2>2, <2>3, Sizes
<1>4. 0 \in 0 .. PageWords /\ 0 \in 0 .. MaxCalls /\ TagWords \in 0 .. PageWords
  BY Sizes
<1>5. CASE IsErased(a)
  <2>1. flash[a] = Erased
    BY <1>5 DEF FlashOK, IsErased
  <2>2. OffsetOf(Top(a) + 1) = TagWords
    BY <2>1, OffsetOne DEF Top, Erased
  <2>3. Known(a) = [page_type |-> "erased", p_addr |-> a, write_offset |-> TagWords,
                    words_reserved |-> 0, records_open |-> 0, can_gc |-> FALSE]
    BY <1>5 DEF Known, ErasedPage, DataPage
  <2> QED
    BY <1>1, <1>4, <1>5, <2>2, <2>3 DEF PageRec
<1>6. CASE ~IsErased(a)
  <2>1. flash[a].tag = "data"
    BY <1>6 DEF FlashOK, IsErased, Erased
  <2>2. PICK scan : scan = page_scan(flash[a])
    OBVIOUS
  <2>3. scan.offset = OffsetOf(Top(a) + 1) /\ scan.can_gc \in BOOLEAN
    BY <1>1, <2>2, ScanOf DEF Top
  <2>4. PICK g \in BOOLEAN : g = scan.can_gc
    BY <2>3
  <2>5. Known(a) = [page_type |-> "data", p_addr |-> a, write_offset |-> OffsetOf(Top(a) + 1),
                    words_reserved |-> 0, records_open |-> 0, can_gc |-> g]
    BY <1>6, <2>2, <2>3, <2>4 DEF Known, DataPage
  <2> QED
    BY <1>1, <1>3, <1>4, <1>6, <2>1, <2>5 DEF PageRec
<1> QED
  BY <1>5, <1>6

\* The identifiers that a scan of the pages finds.
LEMMA KnownIds ==
  ASSUME FlashOK, calls \in Nat
  PROVE  /\ Max(IdsTo(VirtualPages)) \in 0 .. calls
         /\ \A a \in Data : \A i \in Valid(a) : Rec(a, i).id <= Max(IdsTo(VirtualPages))
<1> DEFINE S == IdsTo(VirtualPages)
<1>1. \A a \in Data : IdsOn(a) = IF IsErased(a) THEN {} ELSE {0} \cup {Rec(a, i).id : i \in Valid(a)}
  <2> TAKE a \in Data
  <2>1. Whole(flash[a])
    BY DataIsAddr DEF FlashOK
  <2> QED
    BY <2>1, ScanOf DEF IdsOn, Rec, Valid
<1>2. \A a \in Data : \A i \in Valid(a) : Rec(a, i).id \in 0 .. calls
  <2> TAKE a \in Data
  <2> TAKE i \in Valid(a)
  <2>1. Whole(flash[a])
    BY DataIsAddr DEF FlashOK
  <2>2. Rec(a, i) \in SlotType
    BY <2>1 DEF Whole, PageSet, Rec, Valid, ValidSlots
  <2> QED
    BY <2>2, Sizes DEF FlashOK, SlotType, Ids
<1>3. S = {0} \cup UNION {IdsOn(a) : a \in Data}
  BY DEF IdsTo, Data
<1>4. 0 \in S /\ \A x \in S : x \in 0 .. calls
  BY <1>1, <1>2, <1>3
<1>5. \A a \in Data : \A i \in Valid(a) : Rec(a, i).id \in S
  <2> TAKE a \in Data
  <2> TAKE i \in Valid(a)
  <2>1. ~IsErased(a)
    <3> SUFFICES ASSUME IsErased(a) PROVE FALSE
      OBVIOUS
    <3>1. flash[a] = Erased
      BY DEF FlashOK, IsErased
    <3> QED
      BY <3>1 DEF Valid, ValidSlots, Erased
  <2> QED
    BY <1>1, <1>3, <2>1
<1>6. S \subseteq Nat /\ S # {} /\ \A x \in S : x <= calls
  BY <1>4
<1> HIDE DEF S
<1>7. Max(S) \in S /\ \A x \in S : x <= Max(S)
  BY <1>6, MaxIn
<1> QED
  BY <1>4, <1>5, <1>7 DEF S

LEMMA BootStep ==
  ASSUME Plain, calls \in 0 .. MaxCalls, FlashOK, OffState, fds_init
  PROVE  IInv'
<1>1. calls \in Nat /\ calls' = calls /\ flash' = flash
  BY Sizes DEF fds_init, env
<1>2. FlashOK'
  BY <1>1 DEF FlashOK, Whole, Valid, Rec, Blank, Unique
<1> DEFINE s == pages_init
<1>3. s = After(VirtualPages) /\ VirtualPages # 0
  BY ScanEnds, Sizes
<1>4. /\ s.pages = PagesTo(VirtualPages) /\ s.ids = IdsTo(VirtualPages)
      /\ s.swap = [p_addr |-> 1, write_offset |-> TagWords] /\ s.seen = SeenTo(VirtualPages)
  BY <1>3 DEF After
<1> HIDE DEF s
<1>5. /\ m_pages' = s.pages /\ m_swap_page' = s.swap /\ m_latest_rec_id' = Max(s.ids)
      /\ m_gc' = [m_gc EXCEPT !.cur_page = s.cur]
      /\ UNCHANGED <<m_chunk_queue, tok, request, result, reader>>
      /\ \/ /\ InitStep(s.seen) = "INSTALLED" /\ m_flags' = {"INITIALIZED"}
            /\ UNCHANGED <<m_op_queue, turn>>
         \/ /\ InitStep(s.seen) \notin {"NO_PAGES", "INSTALLED", "undefined"}
            /\ m_flags' = {"INITIALIZING", "PROCESSING"}
            /\ m_op_queue' = <<[NoOp EXCEPT !.code = "init", !.step = InitStep(s.seen)]>>
            /\ turn' = "ok"
  BY DEF fds_init, env, s
<1>6. m_pages' = [p \in 1 .. MaxPages |-> Known(p + 1)]
  BY <1>4, <1>5, Sizes DEF PagesTo
<1>7. \A p \in 1 .. MaxPages :
        /\ m_pages'[p] = Known(p + 1) /\ m_pages'[p] \in PageRec /\ m_pages'[p].p_addr = p + 1
        /\ m_pages'[p].write_offset = OffsetOf(Top(p + 1) + 1)
        /\ m_pages'[p].words_reserved = 0 /\ m_pages'[p].records_open = 0
        /\ IsErased(p + 1) => m_pages'[p].page_type = "erased"
        /\ ~IsErased(p + 1) => m_pages'[p].page_type = "data" /\ flash[p + 1].tag = "data"
  BY <1>6, KnownPage, PageIsData
<1>8. PagesOK'
  <2>1. \A p \in 1 .. MaxPages : m_pages'[p].write_offset \in 0 .. PageWords
    BY <1>7 DEF PageRec
  <2>2. m_gc'.state = "BEGIN" /\ m_gc'.run_count = 0
    BY <1>5 DEF OffState, GcIdle
  <2>3. m_pages' \in [1 .. MaxPages -> PageRec]
    BY <1>6, <1>7
  <2> QED
    BY <1>4, <1>5, <1>7, <2>1, <2>2, <2>3, Sizes DEF PagesOK
<1>9. IdsOK'
  BY <1>1, <1>4, <1>5, KnownIds DEF IdsOK, Valid, Rec
<1>10. SeenTo(VirtualPages) = {FirstKind} \cup {KindOf(a) : a \in Data}
  BY DEF SeenTo, Data
<1>11. /\ m_chunk_queue' = NoChunks /\ tok' = NoTok /\ reader' = NoReader /\ result' = "none"
       /\ request' = None
  BY <1>5 DEF OffState
<1>12. ASSUME m_flags' = {"INITIALIZING", "PROCESSING"}, turn' = "ok",
              NEW step \in {"TAG_SWAP", "TAG_DATA"},
              m_op_queue' = <<[NoOp EXCEPT !.code = "init", !.step = step]>>
       PROVE  (Tagging => Starting)' /\ p_op'.step = step
  <2>1. \E op \in OpType : op.code = "init" /\ op.step = step /\ m_op_queue' = <<op>>
    <3>1. PICK op : op = [NoOp EXCEPT !.code = "init", !.step = step]
      OBVIOUS
    <3>2. op = [code |-> "init", step |-> step, page |-> 1, id |-> 0, file |-> 0, old |-> 0]
      BY <3>1 DEF NoOp
    <3>3. op \in OpType
      BY <3>2, Sizes DEF OpType, Ids
    <3> QED
      BY <1>12, <3>1, <3>2, <3>3
  <2>2. PICK op \in OpType : op.code = "init" /\ op.step = step /\ m_op_queue' = <<op>>
    BY <2>1
  <2>3. m_op_queue' \in Seq(OpType) /\ Len(m_op_queue') = 1 /\ p_op' = op
    BY <2>2 DEF p_op
  <2>4. \A p \in 1 .. MaxPages :
          /\ m_pages'[p].words_reserved = 0 /\ m_pages'[p].records_open = 0
          /\ m_pages'[p].write_offset = OffsetOf(Top(p + 1)' + 1)
    BY <1>1, <1>7 DEF Top
  <2> QED
    BY <1>11, <1>12, <2>2, <2>3, <2>4 DEF Starting
<1>13. CASE flash[1] = Erased
  <2>1. \A a \in Data : flash[a] = Erased /\ IsErased(a)
    BY <1>13, DataIsAddr DEF FlashOK, Blank, IsErased, Erased
  <2>2. SeenTo(VirtualPages) = {"ERASED"}
    BY <1>10, <1>13, <2>1 DEF FirstKind, KindOf, IsErased, Erased
  <2>3. InitStep(s.seen) = "TAG_SWAP"
    BY <1>4, <2>2, Steps
  <2>4. Starting'
    <3>1. Blank' /\ \A p \in 1 .. MaxPages : m_pages'[p].page_type = "erased"
      BY <1>1, <1>7, <1>13, <2>1, PageIsData DEF Blank, FlashOK
    <3>2. p_op'.step = "TAG_SWAP" /\ turn' = "ok" /\ (Tagging => Starting)'
      BY <1>5, <1>12, <2>3
    <3> QED
      BY <1>11, <3>1, <3>2 DEF Tagging, Due
  <2> QED
    BY <1>1, <1>2, <1>8, <1>9, <2>4 DEF IInv
<1>14. CASE flash[1] = SwapPage /\ \E a \in Data : IsErased(a)
  <2>1. FirstKind = "SWAP_CLEAN"
    BY <1>14 DEF FirstKind, IsErased, SwapPage
  <2>2. SeenTo(VirtualPages) \in {{"SWAP_CLEAN", "ERASED"}, {"SWAP_CLEAN", "ERASED", "DATA"}}
    <3>1. \A a \in Data : KindOf(a) \in {"ERASED", "DATA"}
      BY DEF KindOf
    <3>2. \E a \in Data : KindOf(a) = "ERASED"
      BY <1>14 DEF KindOf
    <3>3. CASE \E a \in Data : KindOf(a) = "DATA"
      <4>1. {KindOf(a) : a \in Data} = {"ERASED", "DATA"}
        BY <3>1, <3>2, <3>3
      <4> QED
        BY <1>10, <2>1, <4>1
    <3>4. CASE ~\E a \in Data : KindOf(a) = "DATA"
      <4>1. {KindOf(a) : a \in Data} = {"ERASED"}
        BY <3>1, <3>2, <3>4
      <4> QED
        BY <1>10, <2>1, <4>1
    <3> QED
      BY <3>3, <3>4
  <2>3. InitStep(s.seen) = "TAG_DATA"
    BY <1>4, <2>2, Steps
  <2>4. Starting'
    <3>1. flash'[1] = SwapPage /\ \A p \in 1 .. MaxPages : m_pages'[p].page_type = flash'[p + 1].tag
      BY <1>1, <1>7, <1>14 DEF IsErased
    <3>2. p_op'.step = "TAG_DATA" /\ turn' = "ok" /\ (Tagging => Starting)'
      BY <1>5, <1>12, <2>3
    <3> QED
      BY <1>11, <3>1, <3>2 DEF Tagging, Due
  <2> QED
    BY <1>1, <1>2, <1>8, <1>9, <2>4 DEF IInv
<1>15. CASE flash[1] = SwapPage /\ \A a \in Data : ~IsErased(a)
  <2>1. SeenTo(VirtualPages) = {"SWAP_CLEAN", "DATA"}
    <3>1. FirstKind = "SWAP_CLEAN"
      BY <1>15 DEF FirstKind, IsErased, SwapPage
    <3>2. {KindOf(a) : a \in Data} = {"DATA"}
      <4>1. 2 \in Data
        BY Sizes DEF Data
      <4> QED
        BY <1>15, <4>1 DEF KindOf
    <3> QED
      BY <1>10, <3>1, <3>2
  <2>2. InitStep(s.seen) = "INSTALLED"
    BY <1>4, <2>1, Steps
  <2>3. m_flags' = {"INITIALIZED"} /\ m_op_queue' = <<>> /\ turn' = "none"
    BY <1>5, <2>2 DEF OffState
  <2>4. m_flags' = Flags'
    BY <2>3 DEF Flags
  <2>5. TagsOK'
    <3>1. \A a \in Data : flash[a].tag = "data"
      BY <1>15 DEF FlashOK, IsErased, Erased
    <3> QED
      BY <1>1, <1>7, <1>15, <3>1, PageIsData DEF TagsOK
  <2>6. HeadOK'
    BY <1>1, <1>7, <1>11, <2>3 DEF HeadOK, Top
  <2>7. QueueOK'
    <3>1. m_op_queue' \in Seq(OpType) /\ Len(m_op_queue') = 0
      BY <2>3
    <3> QED
      BY <3>1, Sizes DEF QueueOK
  <2>8. AccountsOK'
    <3>1. Len(m_op_queue') = 0 /\ ToDo' = {}
      BY <2>3 DEF ToDo
    <3>2. Holding' = {} /\ \A p \in 1 .. MaxPages : Unwritten(p)' = {}
      BY <3>1 DEF Holding, Unwritten
    <3>3. /\ m_chunk_queue'.count = 0 /\ m_chunk_queue'.rp = 0
          /\ m_chunk_queue'.chunk \in [0 .. ChunkQueueSize - 1 -> Ids]
      BY <1>11, Sizes DEF NoChunks, Ids
    <3>4. RecordWords * 0 = 0
      BY Sizes
    <3>5. \A p \in 1 .. MaxPages :
            m_pages'[p].words_reserved >= RecordWords * Cardinality(Unwritten(p)')
      <4> TAKE p \in 1 .. MaxPages
      <4>1. m_pages'[p].words_reserved = 0
        BY <1>7
      <4>2. Cardinality(Unwritten(p)') = 0
        BY <3>2, EmptyCounts, Zenon
      <4> QED
        BY <3>4, <4>1, <4>2
    <3>6. m_chunk_queue'.count >= Cardinality(Holding')
      BY <3>2, <3>3, EmptyCounts
    <3> QED
      BY <3>3, <3>5, <3>6, Sizes DEF AccountsOK
  <2>9. ReaderOK'
    BY <1>7, <1>11 DEF ReaderOK, NoReader
  <2> QED
    BY <1>1, <1>2, <1>8, <1>9, <2>4, <2>5, <2>6, <2>7, <2>8, <2>9 DEF IInv, Running
<1> QED
  BY <1>13, <1>14, <1>15 DEF FlashOK

----------------------------------------------------------------------------
\* init_execute

\* fds acts only when nothing is due from flash, and flash has not failed.
LEMMA TurnOk ==
  ASSUME IInv, turn \in {"ok", "timeout"}
  PROVE  /\ Due /\ PagesOK /\ IdsOK /\ (Starting \/ Running)
         /\ m_op_queue # <<>> /\ m_op_queue \in Seq(OpType) /\ Len(m_op_queue) >= 1
         /\ p_op \in OpType
<1>1. PagesOK /\ IdsOK /\ (Starting \/ Running)
  BY DEF IInv, OffState
<1>2. CASE Starting
  BY <1>1, <1>2 DEF Starting, Tagging, Due, InFlight, p_op
<1>3. CASE Running
  <2>1. m_op_queue # <<>> /\ m_op_queue \in Seq(OpType) /\ Executing(p_op)
    BY <1>3 DEF Running, HeadOK, QueueOK
  <2>2. Due
    BY <2>1 DEF Executing, Due, Starts, Opening, Filling, Storing, Sealing, Sealed,
        Replacing, Replaced, Marking, Marked, Sweeping, Clearing, Ended, InFlight
  <2> QED
    BY <1>1, <2>1, <2>2 DEF p_op
<1> QED
  BY <1>1, <1>2, <1>3

LEMMA SetOpIn ==
  ASSUME m_op_queue \in Seq(OpType), Len(m_op_queue) >= 1, NEW op \in OpType, SetOp(op)
  PROVE  /\ m_op_queue' \in Seq(OpType) /\ Len(m_op_queue') = Len(m_op_queue)
         /\ m_op_queue' # <<>> /\ p_op' = op
         /\ \A i \in 1 .. Len(m_op_queue) : i # 1 => m_op_queue'[i] = m_op_queue[i]
BY DEF SetOp, p_op

\* What a step of the initialization leaves as it was.
LEMMA InitKeeps ==
  ASSUME IInv, Starting, PagesOK, IdsOK, init_execute,
         m_pages' \in [1 .. MaxPages -> PageRec], m_swap_page' = m_swap_page,
         \A p \in 1 .. MaxPages :
           /\ m_pages'[p].p_addr = m_pages[p].p_addr
           /\ m_pages'[p].write_offset = m_pages[p].write_offset
           /\ m_pages'[p].words_reserved = m_pages[p].words_reserved
           /\ m_pages'[p].records_open = m_pages[p].records_open
  PROVE  /\ calls' \in 0 .. MaxCalls /\ FlashOK' /\ PagesOK' /\ IdsOK'
         /\ \A p \in 1 .. MaxPages :
              /\ m_pages'[p].words_reserved = 0 /\ m_pages'[p].records_open = 0
              /\ m_pages'[p].write_offset = OffsetOf(Top(p + 1)' + 1)
<1>1. /\ calls' = calls /\ flash' = flash /\ m_latest_rec_id' = m_latest_rec_id
      /\ m_gc' = m_gc
  BY DEF init_execute, env
<1>2. FlashOK'
  BY <1>1 DEF IInv, FlashOK, Whole, Valid, Rec, Blank, Unique
<1>3. PagesOK'
  BY <1>1 DEF PagesOK
<1>4. IdsOK'
  BY <1>1 DEF IdsOK, Valid, Rec
<1> QED
  BY <1>1, <1>2, <1>3, <1>4 DEF IInv, Starting, Top

LEMMA InitTagSwapStep ==
  ASSUME IInv, Starting, PagesOK, IdsOK, Due, init_execute, InitTagSwap
  PROVE  IInv'
<1>1. /\ Blank /\ \A p \in 1 .. MaxPages : m_pages[p].page_type = "erased"
      /\ m_op_queue \in Seq(OpType) /\ Len(m_op_queue) = 1 /\ p_op \in OpType
      /\ p_op.code = "init"
  <2>1. Blank /\ \A p \in 1 .. MaxPages : m_pages[p].page_type = "erased"
    BY DEF InitTagSwap, Starting, Tagging, Due, InFlight
  <2>2. m_op_queue \in Seq(OpType) /\ Len(m_op_queue) = 1 /\ p_op.code = "init"
    BY DEF Starting
  <2>3. p_op \in OpType
    BY TurnOk DEF Due
  <2> QED
    BY <2>1, <2>2, <2>3
<1>2. PICK op : op = [p_op EXCEPT !.step = "TAG_DATA"]
  OBVIOUS
<1>3. op \in OpType /\ op.code = "init" /\ op.step = "TAG_DATA"
  BY <1>1, <1>2 DEF OpType
<1>4. m_op_queue' \in Seq(OpType) /\ Len(m_op_queue') = 1 /\ p_op' = op
  BY <1>1, <1>2, <1>3, SetOpIn DEF InitTagSwap
<1>5. flash[1] = Erased
  BY <1>1, Sizes DEF Blank, Addrs
<1>6. TagAs(flash[1], "swap") = SwapPage
  BY <1>5 DEF TagAs, Erased, SwapPage
<1>7. /\ request' = [kind |-> "tag", addr |-> 1, slot |-> 0, page |-> SwapPage]
      /\ turn' = "none" /\ result' = result
  BY <1>6 DEF InitTagSwap, Tag, Issue, PagesOK
<1>8. UNCHANGED <<flash, m_flags, m_chunk_queue, m_pages, m_swap_page, tok, reader>>
  BY DEF init_execute, InitTagSwap, env
<1>9. Blank'
  BY <1>1, <1>8 DEF Blank
<1>10. Tagging'
  BY <1>1, <1>3, <1>4, <1>7, <1>8, <1>9 DEF Tagging, InFlight
<1>11. /\ calls' \in 0 .. MaxCalls /\ FlashOK' /\ PagesOK' /\ IdsOK'
       /\ \A p \in 1 .. MaxPages :
            /\ m_pages'[p].words_reserved = 0 /\ m_pages'[p].records_open = 0
            /\ m_pages'[p].write_offset = OffsetOf(Top(p + 1)' + 1)
  BY <1>8, InitKeeps DEF PagesOK
<1>12. Starting'
  BY <1>3, <1>4, <1>7, <1>8, <1>10, <1>11 DEF Starting
<1> QED
  BY <1>11, <1>12 DEF IInv

LEMMA InitTagDataStep ==
  ASSUME IInv, Starting, PagesOK, IdsOK, Due, init_execute, InitTagData
  PROVE  IInv'
<1>1. /\ flash[1] = SwapPage
      /\ \A p \in 1 .. MaxPages : m_pages[p].page_type = flash[p + 1].tag
      /\ p_op.step = "TAG_DATA"
  BY DEF InitTagData, Starting, Tagging, Due, InFlight
<1>2. PICK q : q = Min(ErasedOnes)
  OBVIOUS
<1>3. q \in 1 .. MaxPages /\ m_pages[q].page_type = "erased" /\ m_pages[q].p_addr = q + 1
  <2>1. ErasedOnes \subseteq 1 .. MaxPages /\ ErasedOnes \subseteq Nat /\ ErasedOnes # {}
    BY Sizes DEF ErasedOnes, PagesOK, InitTagData
  <2>2. q \in ErasedOnes
    BY <1>2, <2>1, MinIn
  <2> QED
    BY <2>1, <2>2 DEF ErasedOnes, PagesOK
<1>4. flash[q + 1] = Erased
  BY <1>1, <1>3, PageIsData DEF IInv, FlashOK
<1>5. TagAs(flash[q + 1], "data") = EmptyDataPage
  BY <1>4 DEF TagAs, Erased, EmptyDataPage
<1>6. /\ request' = [kind |-> "tag", addr |-> q + 1, slot |-> 0, page |-> EmptyDataPage]
      /\ turn' = "none" /\ result' = result
      /\ m_pages' = [m_pages EXCEPT ![q].page_type = "data"]
  BY <1>2, <1>3, <1>5 DEF InitTagData, Tag, Issue
<1>7. UNCHANGED <<flash, m_flags, m_op_queue, m_chunk_queue, m_swap_page, tok, reader>>
  BY DEF init_execute, InitTagData, env
<1>8. /\ m_pages' \in [1 .. MaxPages -> PageRec] /\ m_pages'[q].page_type = "data"
      /\ \A p \in 1 .. MaxPages :
           /\ m_pages'[p].p_addr = m_pages[p].p_addr
           /\ m_pages'[p].write_offset = m_pages[p].write_offset
           /\ m_pages'[p].words_reserved = m_pages[p].words_reserved
           /\ m_pages'[p].records_open = m_pages[p].records_open
           /\ p # q => m_pages'[p].page_type = m_pages[p].page_type
  BY <1>3, <1>6 DEF PagesOK, PageRec
<1>9. Tagging'
  BY <1>1, <1>3, <1>4, <1>6, <1>7, <1>8 DEF Tagging, InFlight, p_op
<1>10. /\ calls' \in 0 .. MaxCalls /\ FlashOK' /\ PagesOK' /\ IdsOK'
       /\ \A p \in 1 .. MaxPages :
            /\ m_pages'[p].words_reserved = 0 /\ m_pages'[p].records_open = 0
            /\ m_pages'[p].write_offset = OffsetOf(Top(p + 1)' + 1)
  BY <1>7, <1>8, InitKeeps
<1>11. Starting'
  BY <1>6, <1>7, <1>9, <1>10 DEF Starting, p_op
<1> QED
  BY <1>10, <1>11 DEF IInv

LEMMA InitDoneStep ==
  ASSUME IInv, Starting, PagesOK, IdsOK, Due, init_execute, InitDone
  PROVE  IInv'
<1>1. /\ flash[1] = SwapPage
      /\ \A p \in 1 .. MaxPages : m_pages[p].page_type = flash[p + 1].tag
  BY DEF InitDone, Starting, Tagging, Due, InFlight
<1>2. /\ turn' = "event" /\ result' = "success" /\ request' = None
      /\ m_flags' = {"INITIALIZED", "PROCESSING"}
      /\ UNCHANGED <<flash, m_op_queue, m_chunk_queue, m_pages, m_swap_page, tok, reader>>
  BY DEF init_execute, InitDone, Completed, env, Starting, Due
<1>3. /\ calls' \in 0 .. MaxCalls /\ FlashOK' /\ PagesOK' /\ IdsOK'
      /\ \A p \in 1 .. MaxPages :
           /\ m_pages'[p].words_reserved = 0 /\ m_pages'[p].records_open = 0
           /\ m_pages'[p].write_offset = OffsetOf(Top(p + 1)' + 1)
  BY <1>2, InitKeeps DEF PagesOK
<1>4. /\ m_op_queue' \in Seq(OpType) /\ Len(m_op_queue') = 1 /\ m_op_queue' # <<>>
      /\ p_op' \in OpType /\ p_op'.code = "init" /\ m_op_queue'[1] = p_op'
  BY <1>2 DEF Starting, p_op
<1>5. m_flags' = Flags'
  BY <1>2, <1>4 DEF Flags
<1>6. TagsOK'
  <2>1. \A p \in 1 .. MaxPages : m_pages[p].page_type = "data"
    BY DEF InitDone, ErasedOnes, PagesOK, PageRec
  <2>2. \A a \in Data : flash[a].tag = "data"
    <3> TAKE a \in Data
    <3>1. a - 1 \in 1 .. MaxPages /\ (a - 1) + 1 = a
      BY DataIsAddr
    <3>2. flash[(a - 1) + 1].tag = "data"
      BY <1>1, <2>1, <3>1
    <3> QED
      BY <3>1, <3>2
  <2> QED
    BY <1>1, <1>2, <2>1, <2>2 DEF TagsOK
<1>7. HeadOK'
  <2>1. Ended(p_op)'
    BY <1>2, <1>4 DEF Ended, Truthful, Writes, Starting
  <2> QED
    BY <1>2, <1>3, <1>4, <2>1 DEF HeadOK, Executing, InSlot, Writes, Starting
<1>8. QueueOK'
  <2>1. \A i \in 1 .. Len(m_op_queue') : i = 1 /\ m_op_queue'[i].code = "init"
    BY <1>4
  <2>2. 2 .. Len(m_op_queue') = {}
    BY <1>4
  <2>3. Len(m_op_queue') <= OpQueueSize
    BY <1>4, Sizes
  <2> QED
    BY <1>4, <2>1, <2>2, <2>3 DEF QueueOK, Writes
<1>9. AccountsOK'
  <2>1. ToDo' = {}
    BY <1>2, <1>4 DEF ToDo
  <2>2. Holding' = {} /\ \A p \in 1 .. MaxPages : Unwritten(p)' = {}
    BY <2>1 DEF Holding, Unwritten
  <2>3. /\ m_chunk_queue'.count = 0 /\ m_chunk_queue'.rp = 0
        /\ m_chunk_queue'.chunk \in [0 .. ChunkQueueSize - 1 -> Ids]
    BY <1>2, Sizes DEF NoChunks, Ids, Starting
  <2>4. RecordWords * 0 = 0
    BY Sizes
  <2>5. \A p \in 1 .. MaxPages :
          m_pages'[p].words_reserved >= RecordWords * Cardinality(Unwritten(p)')
    <3> TAKE p \in 1 .. MaxPages
    <3>1. m_pages'[p].words_reserved = 0 /\ Unwritten(p)' = {}
      BY <1>3, <2>2
    <3>2. RecordWords * Cardinality(Unwritten(p)') = 0
      BY <2>4, <3>1, EmptyCounts
    <3> QED
      BY <3>1, <3>2
  <2>6. m_chunk_queue'.count >= Cardinality(Holding')
    BY <2>2, <2>3, EmptyCounts
  <2> QED
    BY <2>3, <2>5, <2>6, Sizes DEF AccountsOK
<1>10. ReaderOK'
  BY <1>2, <1>3 DEF ReaderOK, NoReader, Starting
<1> QED
  BY <1>3, <1>5, <1>6, <1>7, <1>8, <1>9, <1>10 DEF IInv, Running

LEMMA InitStepKept ==
  ASSUME IInv, init_execute
  PROVE  IInv'
<1>1. Due /\ PagesOK /\ IdsOK /\ (Starting \/ Running) /\ m_op_queue # <<>>
  BY TurnOk DEF init_execute
<1>2. Starting
  <2> SUFFICES ASSUME Running PROVE FALSE
    BY <1>1
  <2>1. Executing(p_op)
    BY <1>1 DEF Running, HeadOK
  <2> QED
    BY <1>1, <2>1 DEF init_execute, Due, Executing, Starts, AtStart, Opening, Filling, Storing,
        Sealing, Sealed, Replacing, Replaced, Marking, Marked, Sweeping, Clearing, Ended, Writes
<1>3. p_op.step \in {"TAG_SWAP", "TAG_DATA"}
  BY <1>2 DEF Starting, Tagging
<1>4. InitTagSwap \/ InitTagData \/ InitDone
  BY <1>1, <1>3 DEF init_execute, Due, InitEraseSwap, InitPromoteSwap
<1> QED
  BY <1>1, <1>2, <1>4, InitTagSwapStep, InitTagDataStep, InitDoneStep

----------------------------------------------------------------------------
\* Stores.

\* The offsets of a page.
LEMMA PageNums ==
  ASSUME PagesOK
  PROVE  \A p \in 1 .. MaxPages :
           /\ m_pages[p].write_offset \in Nat /\ m_pages[p].words_reserved \in Nat
           /\ m_pages[p].write_offset + m_pages[p].words_reserved <= PageWords
<1>1. \A r \in PageRec : r.write_offset \in Nat /\ r.words_reserved \in Nat
  BY Sizes DEF PageRec
<1>2. \A p \in 1 .. MaxPages : m_pages[p] \in PageRec
  BY DEF PagesOK
<1> QED
  BY <1>1, <1>2 DEF PagesOK

\* A page of data.
LEMMA PageFacts ==
  ASSUME FlashOK, NEW a \in Data
  PROVE  /\ a \in Addrs /\ Whole(flash[a]) /\ flash[a] \in PageSet /\ Top(a) \in Nat
         /\ DOMAIN flash[a].recs = 1 .. Top(a)
         /\ \A i \in 1 .. Top(a) : Rec(a, i) \in SlotType /\ Rec(a, i).st # "hole"
         /\ Valid(a) = {i \in 1 .. Top(a) : Rec(a, i).st = "valid"}
<1>1. a \in Addrs /\ Whole(flash[a]) /\ flash[a] \in PageSet
  BY DataIsAddr DEF FlashOK, Whole
<1>2. Top(a) \in Nat /\ DOMAIN flash[a].recs = 1 .. Top(a)
  BY <1>1 DEF PageSet, Top
<1>3. \A i \in 1 .. Top(a) : Rec(a, i) \in SlotType /\ Rec(a, i).st # "hole"
  BY <1>1, <1>2 DEF PageSet, Rec, Whole, Top
<1> QED
  BY <1>1, <1>2, <1>3 DEF Valid, ValidSlots, Rec

PageStored(a, i, v) ==
  /\ DOMAIN flash' = Addrs /\ \A b \in Addrs : b # a => flash'[b] = flash[b]
  /\ flash'[a].tag = "data" /\ Whole(flash'[a])
  /\ Top(a)' = IF i > Top(a) THEN i ELSE Top(a)
  /\ DOMAIN flash'[a].recs = 1 .. Top(a)'
  /\ \A k \in 1 .. Top(a)' : Rec(a, k)' = IF k = i THEN v ELSE Rec(a, k)
  /\ Valid(a)' = IF v.st = "valid" THEN Valid(a) \cup {i} ELSE Valid(a) \ {i}

LEMMA StoreEffect ==
  ASSUME FlashOK, NEW a \in Data, flash[a].tag = "data",
         NEW i \in 1 .. Top(a) + 1, NEW v \in SlotType, v.st # "hole",
         i > Top(a) => OffsetOf(Top(a) + 2) <= PageWords,
         flash' = [flash EXCEPT ![a] = Put(flash[a], i, v)]
  PROVE  PageStored(a, i, v)
<1>1. /\ a \in Addrs /\ flash[a] \in PageSet /\ Whole(flash[a]) /\ Top(a) \in Nat
      /\ DOMAIN flash[a].recs = 1 .. Top(a)
      /\ \A k \in 1 .. Top(a) : Rec(a, k) \in SlotType /\ Rec(a, k).st # "hole"
      /\ Valid(a) = {k \in 1 .. Top(a) : Rec(a, k).st = "valid"}
  BY PageFacts
<1>2. DOMAIN flash' = Addrs /\ \A b \in Addrs : b # a => flash'[b] = flash[b]
  BY DEF FlashOK
<1>3. flash'[a] = Put(flash[a], i, v)
  BY <1>1 DEF FlashOK
<1>4. /\ flash'[a] \in PageSet /\ flash'[a].tag = "data"
      /\ Top(a)' = (IF i > Top(a) THEN i ELSE Top(a))
      /\ \A k \in 1 .. Top(a)' : Rec(a, k)' = IF k = i THEN v ELSE Rec(a, k)
  <2>1. PICK x, y : x = flash[a] /\ y = flash'[a]
    OBVIOUS
  <2>2. x \in PageSet /\ i \in 1 .. Len(x.recs) + 1 /\ y = Put(x, i, v) /\ x.tag = "data"
    BY <1>1, <1>3, <2>1 DEF Top
  <2>3. /\ y \in PageSet /\ y.tag = "data"
        /\ Len(y.recs) = IF i > Len(x.recs) THEN i ELSE Len(x.recs)
        /\ \A k \in 1 .. Len(y.recs) : y.recs[k] = IF k = i THEN v ELSE x.recs[k]
    BY <2>2, PutOn
  <2> QED
    BY <2>1, <2>3 DEF Top, Rec
<1>5. Top(a)' \in Nat /\ DOMAIN flash'[a].recs = 1 .. Top(a)'
  BY <1>1, <1>4 DEF PageSet, Top
<1>6. \A k \in 1 .. Top(a)' : k # i => k \in 1 .. Top(a)
  BY <1>1, <1>4
<1>7. \A k \in DOMAIN flash'[a].recs : flash'[a].recs[k].st # "hole"
  BY <1>1, <1>4, <1>5, <1>6 DEF Rec
<1>8. OffsetOf(Len(flash'[a].recs) + 1) <= PageWords
  <2>1. CASE i > Top(a)
    <3>1. Len(flash'[a].recs) + 1 = Top(a) + 2
      BY <1>1, <1>4, <2>1 DEF Top
    <3> QED
      BY <2>1, <3>1
  <2>2. CASE ~(i > Top(a))
    BY <1>1, <1>4, <2>2 DEF Whole, Top
  <2> QED
    BY <2>1, <2>2
<1>9. Whole(flash'[a])
  BY <1>4, <1>7, <1>8 DEF Whole
<1>10. Valid(a)' = {k \in 1 .. Top(a)' : Rec(a, k)'.st = "valid"}
  BY <1>5 DEF Valid, ValidSlots, Rec
<1>11. i \in 1 .. Top(a)'
  BY <1>1, <1>4
<1>12. Valid(a)' = IF v.st = "valid" THEN Valid(a) \cup {i} ELSE Valid(a) \ {i}
  <2>1. \A k \in 1 .. Top(a) : k \in 1 .. Top(a)'
    BY <1>1, <1>4
  <2> QED
    BY <1>1, <1>4, <1>6, <1>10, <1>11, <2>1
<1> QED
  BY <1>2, <1>4, <1>5, <1>9, <1>12 DEF PageStored

\* After a store: the valid records are those that were, unchanged, but for
\* the one stored.
StoredAt(a, i, v) ==
  /\ \A b \in Data : \A k \in Valid(b)' :
       \/ b = a /\ k = i /\ v.st = "valid" /\ Rec(b, k)' = v
       \/ ~(b = a /\ k = i) /\ k \in Valid(b) /\ Rec(b, k)' = Rec(b, k)
  /\ \A b \in Data : \A k \in Valid(b) : ~(b = a /\ k = i) => k \in Valid(b)'
  /\ \A b \in Data : b # a => flash'[b] = flash[b]
  /\ v.st = "valid" => i \in Valid(a)'
  /\ Rec(a, i)' = v /\ i \in 1 .. Top(a)'
  /\ Top(a)' = (IF i > Top(a) THEN i ELSE Top(a)) /\ \A b \in Data : b # a => Top(b)' = Top(b)
  /\ flash'[1] = flash[1] /\ \A b \in Data : flash'[b].tag = flash[b].tag

LEMMA StoreKeeps ==
  ASSUME FlashOK, NEW a \in Data, flash[a].tag = "data",
         NEW i \in 1 .. Top(a) + 1, NEW v \in SlotType, v.st # "hole",
         i > Top(a) => OffsetOf(Top(a) + 2) <= PageWords,
         v.st = "valid" => Fresh(v.id) /\ v.id <= calls,
         flash' = [flash EXCEPT ![a] = Put(flash[a], i, v)],
         calls' = calls
  PROVE  FlashOK' /\ StoredAt(a, i, v)
<1>1. /\ DOMAIN flash' = Addrs /\ \A b \in Addrs : b # a => flash'[b] = flash[b]
      /\ flash'[a].tag = "data" /\ Whole(flash'[a])
      /\ Top(a)' = (IF i > Top(a) THEN i ELSE Top(a))
      /\ \A k \in 1 .. Top(a)' : Rec(a, k)' = IF k = i THEN v ELSE Rec(a, k)
      /\ Valid(a)' = IF v.st = "valid" THEN Valid(a) \cup {i} ELSE Valid(a) \ {i}
      /\ DOMAIN flash'[a].recs = 1 .. Top(a)'
  <2>1. PageStored(a, i, v)
    BY StoreEffect, Zenon
  <2> QED
    BY <2>1 DEF PageStored
<1>2. 1 \in Addrs /\ a # 1 /\ a \in Addrs /\ \A b \in Data : b \in Addrs
  BY Sizes DEF Data, Addrs
<1>3. \A b \in Data : b # a => Valid(b)' = Valid(b) /\ \A k : Rec(b, k)' = Rec(b, k)
  BY <1>1, <1>2 DEF Valid, Rec
<1>4. Valid(a)' \subseteq 1 .. Top(a)'
  BY <1>1 DEF Valid, ValidSlots
<1>5. i \in 1 .. Top(a)'
  <2>1. Top(a) \in Nat
    BY PageFacts
  <2> QED
    BY <1>1, <2>1
<1>6. StoredAt(a, i, v)
  <2>1. ASSUME NEW b \in Data, NEW k \in Valid(b)'
        PROVE  \/ b = a /\ k = i /\ v.st = "valid" /\ Rec(b, k)' = v
               \/ ~(b = a /\ k = i) /\ k \in Valid(b) /\ Rec(b, k)' = Rec(b, k)
    <3>1. CASE b = a
      BY <1>1, <1>4, <2>1, <3>1
    <3>2. CASE b # a
      BY <1>3, <2>1, <3>2
    <3> QED
      BY <3>1, <3>2
  <2>2. ASSUME NEW b \in Data, NEW k \in Valid(b), ~(b = a /\ k = i)
        PROVE  k \in Valid(b)'
    BY <1>1, <1>3, <2>2
  <2> QED
    <3>1. \A b \in Data : b # a => Top(b)' = Top(b)
      BY <1>1, <1>2 DEF Top
    <3> QED
      BY <1>1, <1>2, <1>5, <2>1, <2>2, <3>1 DEF StoredAt
<1>7. flash[1] = SwapPage
  BY <1>2 DEF FlashOK, Blank, Erased
<1>8. Unique'
  <2> SUFFICES ASSUME NEW b \in Data, NEW c \in Data, NEW j \in Valid(b)', NEW k \in Valid(c)',
                      Rec(b, j)'.id = Rec(c, k)'.id
               PROVE  b = c /\ j = k
    BY DEF Unique
  <2>1. CASE v.st = "valid" /\ ((b = a /\ j = i) \/ (c = a /\ k = i))
    BY <1>6, <2>1 DEF StoredAt, Fresh
  <2>2. CASE ~(v.st = "valid" /\ ((b = a /\ j = i) \/ (c = a /\ k = i)))
    BY <1>6, <2>2 DEF StoredAt, FlashOK, Unique
  <2> QED
    BY <2>1, <2>2
<1>9. \A b \in Data : \A k \in Valid(b)' : Rec(b, k)'.id <= calls
  BY <1>6 DEF StoredAt, FlashOK
<1>10. flash'[1] = SwapPage /\ SwapPage # Erased
  BY <1>1, <1>2, <1>7 DEF SwapPage, Erased
<1>11. \A b \in Data : flash'[b].tag = "data" \/ flash'[b] = Erased
  BY <1>1, <1>2 DEF FlashOK
<1>12. \A b \in Addrs : Whole(flash'[b])
  BY <1>1 DEF FlashOK
<1>13. FlashOK'
  BY <1>1, <1>8, <1>9, <1>10, <1>11, <1>12 DEF FlashOK, Whole
<1> QED
  BY <1>6, <1>13

----------------------------------------------------------------------------
\* What fstorage is asked for.

LEMMA WithMember ==
  ASSUME NEW S, IsFiniteSet(S), NEW x \in S
  PROVE  /\ Cardinality(S) \in Nat /\ Cardinality(S) >= 1
         /\ Cardinality(S \ {x}) = Cardinality(S) - 1
<1>1. Cardinality(S) \in Nat
  BY FS_CardinalityType
<1>2. IsFiniteSet(S \ {x}) /\ Cardinality(S \ {x}) = Cardinality(S) - 1
  BY FS_RemoveElement
<1>3. Cardinality(S \ {x}) \in Nat
  BY <1>2, FS_CardinalityType
<1> QED
  BY <1>1, <1>2, <1>3

LEMMA WithMore ==
  ASSUME NEW S, IsFiniteSet(S), NEW x, x \notin S
  PROVE  Cardinality(S \cup {x}) = Cardinality(S) + 1 /\ Cardinality(S) \in Nat
BY FS_AddElement, FS_CardinalityType

\* The sets of identifiers are finite.
LEMMA IdsFinite ==
  ASSUME NEW S, S \subseteq Ids
  PROVE  IsFiniteSet(S) /\ Cardinality(S) \in Nat
<1>1. IsFiniteSet(Ids)
  BY FS_Interval, Sizes DEF Ids
<1> QED
  BY <1>1, FS_Subset, FS_CardinalityType

LEMMA SetsFinite ==
  ASSUME m_op_queue \in Seq(OpType)
  PROVE  /\ \A p \in 1 .. MaxPages : /\ Unwritten(p) \subseteq Ids /\ IsFiniteSet(Unwritten(p))
                                     /\ Cardinality(Unwritten(p)) \in Nat
         /\ Holding \subseteq Ids /\ IsFiniteSet(Holding) /\ Cardinality(Holding) \in Nat
<1>1. \A i \in ToDo : m_op_queue[i] \in OpType /\ m_op_queue[i].id \in Ids
  <2>1. ToDo \subseteq 1 .. Len(m_op_queue)
    BY DEF ToDo
  <2>2. \A i \in 1 .. Len(m_op_queue) : m_op_queue[i] \in OpType
    OBVIOUS
  <2>3. \A op \in OpType : op.id \in Ids
    BY DEF OpType
  <2> QED
    BY <2>1, <2>2, <2>3
<1>2. \A p \in 1 .. MaxPages : Unwritten(p) \subseteq Ids
  BY <1>1 DEF Unwritten
<1>3. Holding \subseteq Ids
  BY <1>1 DEF Holding
<1> QED
  BY <1>2, <1>3, IdsFinite

\* A write that has not ended has its words.
LEMMA RoomAtHome ==
  ASSUME IInv, PagesOK, Running, m_op_queue # <<>>, turn # "event", p_op.code \in Writes
  PROVE  /\ m_pages[p_op.page].words_reserved >= RecordWords
         /\ p_op.page \in 1 .. MaxPages /\ p_op.id \in Unwritten(p_op.page)
         /\ m_pages[p_op.page].words_reserved >=
              RecordWords + RecordWords * Cardinality(Unwritten(p_op.page) \ {p_op.id})
<1>1. m_op_queue \in Seq(OpType) /\ 1 \in 1 .. Len(m_op_queue) /\ p_op \in OpType
  BY DEF Running, QueueOK, p_op
<1>2. p_op.page \in 1 .. MaxPages
  BY <1>1 DEF OpType
<1>3. 1 \in ToDo
  BY <1>1 DEF ToDo
<1>4. p_op.id \in Unwritten(p_op.page)
  BY <1>3 DEF Unwritten, p_op
<1> DEFINE c == Cardinality(Unwritten(p_op.page))
           d == Cardinality(Unwritten(p_op.page) \ {p_op.id})
<1>5. c \in Nat /\ c >= 1 /\ d = c - 1
  BY <1>1, <1>2, <1>4, SetsFinite, WithMember
<1>6. m_pages[p_op.page].words_reserved >= RecordWords * c
  BY <1>2 DEF Running, AccountsOK
<1>7. m_pages[p_op.page].words_reserved \in Nat
  BY <1>2, Sizes DEF PagesOK, PageRec
<1> HIDE DEF c, d
<1>8. RecordWords * c = RecordWords + RecordWords * d /\ RecordWords * d \in Nat
  <2>1. d \in Nat /\ c = d + 1
    BY <1>5
  <2>2. RecordWords * (d + 1) = RecordWords * d + RecordWords
    BY <2>1, Sizes
  <2> QED
    BY <2>1, <2>2, Sizes
<1> QED
  BY <1>2, <1>4, <1>6, <1>7, <1>8, Sizes DEF c, d

\* A store that fstorage is asked for is one slot of a page of data: the next
\* one, the one begun, or one to be marked as deleted.
Asked(kind, a, i, v) ==
  /\ Asks(kind, a, i, v) /\ kind # "copy" /\ (kind = "begin" => i = Top(a) + 1)
  /\ a \in Data /\ flash[a].tag = "data" /\ i \in 1 .. Top(a) + 1
  /\ v \in SlotType /\ v.st # "hole"
  /\ i > Top(a) => OffsetOf(Top(a) + 2) <= PageWords
  /\ i <= Top(a) => \/ Rec(a, i).st = "begun"
                    \/ Rec(a, i).st = "valid" /\ v = Dirtied(a, i)
  /\ v.st = "valid" => Fresh(v.id) /\ v.id <= m_latest_rec_id

LEMMA HomeFacts ==
  ASSUME IInv, PagesOK, Running, m_op_queue # <<>>
  PROVE  /\ p_op \in OpType /\ p_op.page \in 1 .. MaxPages
         /\ Home(p_op) \in Data /\ flash[Home(p_op)].tag = "data"
         /\ Top(Home(p_op)) \in Nat
         /\ m_op_queue \in Seq(OpType) /\ Len(m_op_queue) \in Nat /\ 1 \in 1 .. Len(m_op_queue)
         /\ m_op_queue[1] = p_op
         /\ p_op.code \in Writes => WriteOK(p_op)
<1>1. /\ m_op_queue \in Seq(OpType) /\ Len(m_op_queue) \in Nat /\ 1 \in 1 .. Len(m_op_queue)
      /\ m_op_queue[1] = p_op /\ p_op \in OpType
  BY DEF Running, QueueOK, p_op
<1>2. p_op.page \in 1 .. MaxPages
  BY <1>1 DEF OpType
<1>3. Home(p_op) \in Data
  BY <1>2, PageIsData DEF Home
<1>4. flash[Home(p_op)].tag = "data" /\ Top(Home(p_op)) \in Nat
  BY <1>3, PageFacts DEF IInv, Running, TagsOK
<1>5. p_op.code \in Writes => WriteOK(p_op)
  BY <1>1 DEF Running, QueueOK
<1> QED
  BY <1>1, <1>2, <1>3, <1>4, <1>5

LEMMA OpeningAsks ==
  ASSUME IInv, PagesOK, Running, m_op_queue # <<>>, Opening(p_op)
  PROVE  Asked("begin", Home(p_op), Top(Home(p_op)) + 1, Begun)
<1>1. /\ p_op.page \in 1 .. MaxPages /\ Home(p_op) \in Data
      /\ flash[Home(p_op)].tag = "data" /\ Top(Home(p_op)) \in Nat
  BY HomeFacts
<1>2. Begun \in SlotType /\ Begun.st = "begun"
  BY Sizes DEF Begun, SlotType, Ids
<1> DEFINE n == Top(Home(p_op))
           p == p_op.page
<1>3. OffsetOf(n + 2) <= PageWords
  <2>1. m_pages[p].words_reserved >= RecordWords
    BY RoomAtHome DEF Opening, InFlight
  <2>2. m_pages[p].write_offset = OffsetOf(n + 1)
    <3>1. ~InSlot(p_op)
      BY DEF Opening, InSlot, InFlight
    <3> QED
      BY <1>1, <3>1 DEF Running, HeadOK, Home
  <2>3. /\ m_pages[p].write_offset + m_pages[p].words_reserved <= PageWords
        /\ m_pages[p].words_reserved \in Nat
    BY <1>1, PageNums
  <2>4. PICK k \in Nat : k = n + 1 /\ k >= 1 /\ n + 2 = k + 1
    BY <1>1
  <2>5. OffsetOf(k) \in Nat /\ OffsetOf(k + 1) = OffsetOf(k) + RecordWords
    BY <2>4, Offset
  <2> QED
    BY <2>1, <2>2, <2>3, <2>4, <2>5, Sizes
<1> QED
  BY <1>1, <1>2, <1>3 DEF Asked, Opening

LEMMA BegunAsks ==
  ASSUME IInv, PagesOK, Running, m_op_queue # <<>>, p_op.code \in Writes, Begins(p_op),
         NEW kind \in {"id", "chunk", "finalize"}, NEW v \in SlotType,
         Asks(kind, Home(p_op), Top(Home(p_op)), v), v.id = p_op.id,
         v.st \in {"begun", "valid"}, Fresh(p_op.id)
  PROVE  Asked(kind, Home(p_op), Top(Home(p_op)), v)
<1>1. /\ Home(p_op) \in Data /\ flash[Home(p_op)].tag = "data" /\ Top(Home(p_op)) \in Nat
      /\ p_op.id <= m_latest_rec_id
  BY HomeFacts DEF WriteOK
<1> QED
  BY <1>1 DEF Asked, Begins, New

LEMMA DirtyAsks ==
  ASSUME IInv, PagesOK, Running, NEW a \in Data, NEW i \in Valid(a),
         Asks("dirty", a, i, Dirtied(a, i))
  PROVE  Asked("dirty", a, i, Dirtied(a, i)) /\ Dirtied(a, i).st = "dirty" /\ i \in 1 .. Top(a)
<1>1. /\ flash[a].tag = "data" /\ Top(a) \in Nat /\ i \in 1 .. Top(a)
      /\ Rec(a, i) \in SlotType /\ Rec(a, i).st = "valid"
  BY PageFacts DEF IInv, Running, TagsOK
<1>2. Dirtied(a, i) \in SlotType /\ Dirtied(a, i).st = "dirty"
  BY <1>1 DEF Dirtied, SlotType
<1> QED
  BY <1>1, <1>2 DEF Asked

----------------------------------------------------------------------------
\* FlashDone

\* What a store that is done leaves as it was.
LEMMA DoneKeeps ==
  ASSUME IInv, PagesOK, IdsOK, Running, m_op_queue # <<>>, FlashDone,
         NEW kind, NEW a, NEW i, NEW v, Asked(kind, a, i, v),
         v.st = "valid" => v.id = p_op.id /\ p_op.code \in Writes /\ ~AtStart(p_op)
  PROVE  /\ calls' \in 0 .. MaxCalls /\ FlashOK' /\ StoredAt(a, i, v)
         /\ PagesOK' /\ IdsOK' /\ m_flags' = Flags' /\ TagsOK'
         /\ QueueOK' /\ AccountsOK' /\ ReaderOK'
         /\ p_op' = p_op /\ Due' /\ m_op_queue' # <<>> /\ desc' = desc /\ tok' = tok
<1>1. /\ flash' = [flash EXCEPT ![a] = Put(flash[a], i, v)]
      /\ request' = None /\ turn' = "ok" /\ turn = "none"
  BY DEF FlashDone, Asked, Asks
<1>2. UNCHANGED <<m_flags, m_latest_rec_id, m_op_queue, m_chunk_queue, m_pages, m_swap_page,
                  m_gc, tok, desc, result, reader, calls>>
  BY DEF FlashDone, ram, setup, env
<1>3. FlashOK' /\ StoredAt(a, i, v)
  <2>1. /\ a \in Data /\ flash[a].tag = "data" /\ i \in 1 .. Top(a) + 1 /\ v \in SlotType
        /\ v.st # "hole" /\ (i > Top(a) => OffsetOf(Top(a) + 2) <= PageWords)
        /\ FlashOK /\ calls' = calls
    BY <1>2 DEF Asked, IInv
  <2>2. v.st = "valid" => Fresh(v.id) /\ v.id <= calls
    BY <2>1, Sizes DEF Asked, IdsOK, IInv, SlotType, Ids
  <2> QED
    BY <1>1, <2>1, <2>2, StoreKeeps
<1>4. calls' \in 0 .. MaxCalls /\ PagesOK'
  BY <1>2 DEF IInv, PagesOK
<1>5. IdsOK'
  BY <1>2, <1>3 DEF IdsOK, StoredAt, Asked
<1>6. m_flags' = Flags'
  BY <1>2 DEF Running, Flags
<1>7. TagsOK'
  BY <1>2, <1>3 DEF Running, TagsOK, StoredAt
<1>8. p_op' = p_op /\ Due' /\ m_op_queue' # <<>> /\ desc' = desc /\ tok' = tok
  BY <1>1, <1>2 DEF p_op, Due
<1>9. QueueOK'
  <2>1. ASSUME NEW j \in 1 .. Len(m_op_queue), m_op_queue[j].code \in Writes
        PROVE  WriteOK(m_op_queue[j])'
    <3>1. /\ m_op_queue[j].id <= m_latest_rec_id /\ m_op_queue[j].old < m_op_queue[j].id
          /\ AtStart(m_op_queue[j]) => Fresh(m_op_queue[j].id)
      BY <2>1 DEF Running, QueueOK, WriteOK
    <3>2. ASSUME AtStart(m_op_queue[j]) PROVE Fresh(m_op_queue[j].id)'
      <4>1. v.st = "valid" => v.id # m_op_queue[j].id
        <5> SUFFICES ASSUME v.st = "valid" PROVE v.id # m_op_queue[j].id
          OBVIOUS
        <5>1. j # 1
          BY <3>2 DEF p_op
        <5>2. m_op_queue[1].id < m_op_queue[j].id /\ m_op_queue[1] = p_op
          BY <2>1, <5>1, HomeFacts DEF Running, QueueOK
        <5>3. m_op_queue[j] \in OpType /\ p_op \in OpType
          BY HomeFacts
        <5> QED
          BY <5>2, <5>3, Sizes DEF OpType, Ids
      <4>2. \A b \in Data : \A k \in Valid(b)' : Rec(b, k)'.id # m_op_queue[j].id
        BY <1>3, <3>1, <3>2, <4>1 DEF Fresh, StoredAt
      <4> QED
        BY <1>2, <4>2 DEF Fresh
    <3> QED
      BY <1>2, <3>1, <3>2 DEF WriteOK, AtStart
  <2> QED
    BY <1>2, <2>1 DEF Running, QueueOK, AtStart, WriteOK
<1>10. AccountsOK'
  <2>1. ToDo' = ToDo
    BY <1>1, <1>2 DEF ToDo
  <2>2. Holding' = Holding /\ \A p \in 1 .. MaxPages : Unwritten(p)' = Unwritten(p)
    BY <1>2, <2>1 DEF Holding, Unwritten, HasChunk
  <2> QED
    BY <1>2, <2>2 DEF Running, AccountsOK
<1>11. ReaderOK'
  <2>1. CASE reader = NoReader
    BY <1>2, <2>1 DEF Running, ReaderOK
  <2>2. CASE reader # NoReader
    <3>1. /\ reader.p_addr \in Data /\ reader.slot \in 1 .. Top(reader.p_addr)
          /\ Rec(reader.p_addr, reader.slot).id = reader.record_id
          /\ Rec(reader.p_addr, reader.slot).st \in {"valid", "dirty"}
      BY <2>2, PageFacts DEF IInv, Running, ReaderOK
    <3>2. /\ reader.slot \in DOMAIN flash'[reader.p_addr].recs
          /\ Rec(reader.p_addr, reader.slot)'.id = reader.record_id
          /\ Rec(reader.p_addr, reader.slot)'.st \in {"valid", "dirty"}
      <4>1. CASE reader.p_addr = a /\ reader.slot = i
        <5>1. v = Dirtied(a, i) /\ Rec(a, i) \in SlotType
          BY <3>1, <4>1, PageFacts DEF IInv, Asked
        <5>2. v.id = reader.record_id /\ v.st = "dirty"
          BY <3>1, <4>1, <5>1 DEF Dirtied, SlotType
        <5>3. Rec(a, i)' = v /\ i \in 1 .. Top(a)'
          BY <1>3 DEF StoredAt
        <5>4. DOMAIN flash'[a].recs = 1 .. Top(a)'
          BY <1>3, PageFacts, DataIsAddr DEF FlashOK, Whole, PageSet, Top, Asked
        <5> QED
          BY <1>2, <4>1, <5>2, <5>3, <5>4 DEF Rec
      <4>2. CASE ~(reader.p_addr = a /\ reader.slot = i)
        <5>1. CASE reader.p_addr # a
          BY <1>2, <1>3, <3>1, <5>1, PageFacts DEF StoredAt, Rec, IInv
        <5>2. CASE reader.p_addr = a
          <6>1. PageStored(a, i, v)
            BY <1>1, StoreEffect DEF Asked, IInv
          <6>2. reader.slot \in 1 .. Top(a)' /\ Rec(a, reader.slot)' = Rec(a, reader.slot)
            <7>1. Top(a) \in Nat /\ i \in 1 .. Top(a) + 1
              BY PageFacts DEF IInv, Asked
            <7>2. reader.slot \in 1 .. Top(a) /\ reader.slot # i
              BY <3>1, <4>2, <5>2
            <7>3. Top(a)' = IF i > Top(a) THEN i ELSE Top(a)
              BY <6>1 DEF PageStored
            <7>4. reader.slot \in 1 .. Top(a)'
              BY <7>1, <7>2, <7>3
            <7>5. PICK k \in 1 .. Top(a)' : k = reader.slot /\ k # i
              BY <7>2, <7>4
            <7>6. Rec(a, k)' = Rec(a, k)
              BY <6>1, <7>5 DEF PageStored
            <7> QED
              BY <1>2, <7>5, <7>6 DEF Rec
          <6> QED
            BY <1>2, <3>1, <5>2, <6>1, <6>2 DEF PageStored, Rec
        <5> QED
          BY <5>1, <5>2
      <4> QED
        BY <4>1, <4>2
    <3> QED
      BY <1>2, <2>2, <3>1, <3>2 DEF Running, ReaderOK, Rec
  <2> QED
    BY <2>1, <2>2
<1> QED
  BY <1>3, <1>4, <1>5, <1>6, <1>7, <1>8, <1>9, <1>10, <1>11

LEMMA FreshKept ==
  ASSUME NEW a \in Data, NEW i, NEW v, StoredAt(a, i, v), NEW id, Fresh(id),
         v.st = "valid" => v.id # id
  PROVE  Fresh(id)'
BY DEF StoredAt, Fresh

\* A record that is marked was the only one with its identifier.
LEMMA MarkedGone ==
  ASSUME Unique, NEW a \in Data, NEW i \in Valid(a), NEW v, v.st = "dirty", StoredAt(a, i, v),
         NEW id, Rec(a, i).id = id
  PROVE  Fresh(id)'
<1>1. ASSUME NEW b \in Data, NEW k \in Valid(b)'
      PROVE  Rec(b, k)'.id # id
  <2>1. ~(b = a /\ k = i) /\ k \in Valid(b) /\ Rec(b, k)' = Rec(b, k)
    BY <1>1 DEF StoredAt
  <2>2. Rec(b, k).id # id
    BY <1>1, <2>1 DEF Unique
  <2> QED
    BY <2>1, <2>2
<1> QED
  BY <1>1 DEF Fresh

LEMMA OldKept ==
  ASSUME NEW a \in Data, NEW i, NEW v, StoredAt(a, i, v), NEW op, OldThere(op), desc' = desc,
         ~(desc.p_addr = a /\ desc.slot = i)
  PROVE  OldThere(op)'
<1> SUFFICES ASSUME op.code = "update" PROVE OldThere(op)'
  BY DEF OldThere
<1>1. /\ desc.page \in 1 .. MaxPages /\ desc.p_addr = desc.page + 1
      /\ desc.slot \in Valid(desc.p_addr) /\ Rec(desc.p_addr, desc.slot).id = op.old
  BY DEF OldThere
<1>2. PICK b, k : b = desc.p_addr /\ k = desc.slot
  OBVIOUS
<1>3. b \in Data /\ k \in Valid(b) /\ ~(b = a /\ k = i) /\ Rec(b, k).id = op.old
  BY <1>1, <1>2, PageIsData
<1>4. k \in Valid(b)' /\ Rec(b, k)' = Rec(b, k)
  BY <1>3 DEF StoredAt
<1>5. desc'.p_addr = b /\ desc'.slot = k
  BY <1>2
<1>6. /\ desc'.slot \in ValidSlots(flash'[desc'.p_addr])
      /\ flash'[desc'.p_addr].recs[desc'.slot].id = op.old
  BY <1>3, <1>4, <1>5 DEF Valid, Rec
<1> QED
  BY <1>1, <1>6 DEF OldThere, Valid, Rec

LEMMA HeadAfter ==
  ASSUME IInv, PagesOK, IdsOK, Running, m_op_queue # <<>>, FlashDone,
         NEW kind, NEW a, NEW i, NEW v, Asked(kind, a, i, v),
         v.st = "valid" => v.id = p_op.id /\ p_op.code \in Writes /\ ~AtStart(p_op),
         NEW op, op = p_op, Executing(op)',
         \/ i <= Top(a) /\ (InSlot(op) => InSlot(op)') /\ (InSlot(op)' => InSlot(op))
         \/ i > Top(a) /\ a = Home(op) /\ ~InSlot(op) /\ InSlot(op)'
  PROVE  IInv'
<1>1. /\ calls' \in 0 .. MaxCalls /\ FlashOK' /\ StoredAt(a, i, v)
      /\ PagesOK' /\ IdsOK' /\ m_flags' = Flags' /\ TagsOK'
      /\ QueueOK' /\ AccountsOK' /\ ReaderOK'
      /\ p_op' = p_op /\ Due' /\ m_op_queue' # <<>> /\ desc' = desc /\ tok' = tok
  BY DoneKeeps
<1>2. m_pages' = m_pages
  BY DEF FlashDone, ram, setup
<1>3. a \in Data /\ Top(a) \in Nat /\ i \in 1 .. Top(a) + 1
  BY PageFacts DEF Asked, IInv
<1>4. \A p \in 1 .. MaxPages :
        m_pages[p].write_offset =
          OffsetOf(IF op.page = p /\ InSlot(op) THEN Top(p + 1) ELSE Top(p + 1) + 1)
  BY DEF Running, HeadOK
<1>5. ASSUME NEW p \in 1 .. MaxPages
      PROVE  m_pages[p].write_offset =
               OffsetOf(IF op.page = p /\ InSlot(op)' THEN Top(p + 1)' ELSE Top(p + 1)' + 1)
  <2>1. CASE p + 1 # a
    <3>1. Top(p + 1)' = Top(p + 1)
      BY <1>1, <2>1, PageIsData DEF StoredAt
    <3>2. op.page = p => (InSlot(op) => InSlot(op)') /\ (InSlot(op)' => InSlot(op))
      BY <1>3, <2>1, PageIsData DEF Home
    <3> QED
      BY <1>4, <3>1, <3>2
  <2>2. CASE p + 1 = a /\ i <= Top(a)
    <3>1. Top(p + 1)' = Top(p + 1)
      BY <1>1, <1>3, <2>2 DEF StoredAt
    <3> QED
      BY <1>3, <1>4, <2>2, <3>1
  <2>3. CASE p + 1 = a /\ ~(i <= Top(a))
    <3>1. Top(p + 1)' = Top(p + 1) + 1
      BY <1>1, <1>3, <2>3 DEF StoredAt
    <3>2. ~InSlot(op) /\ InSlot(op)' /\ op.page = p
      <4>1. a = op.page + 1 /\ op.page \in 1 .. MaxPages
        BY <1>3, <2>3, HomeFacts DEF Home
      <4> QED
        BY <1>3, <2>3, <4>1, PageIsData
    <3> QED
      BY <1>4, <3>1, <3>2
  <2> QED
    BY <2>1, <2>2, <2>3
<1>6. op.code = "file_delete" \/ tok' = NoTok
  BY <1>1 DEF Running, HeadOK
<1>7. HeadOK'
  BY <1>1, <1>2, <1>5, <1>6 DEF HeadOK
<1> QED
  BY <1>1, <1>7 DEF IInv, Running

LEMMA OpeningDone ==
  ASSUME IInv, PagesOK, IdsOK, Running, m_op_queue # <<>>, FlashDone, Opening(p_op)
  PROVE  IInv'
<1>1. PICK op, a, i : op = p_op /\ a = Home(op) /\ i = Top(a) + 1
  OBVIOUS
<1>2. Asked("begin", a, i, Begun) /\ Opening(op)
  BY <1>1, OpeningAsks
<1>3. Begun.st = "begun"
  BY DEF Begun
<1>4. StoredAt(a, i, Begun) /\ Due' /\ desc' = desc
  BY <1>2, <1>3, DoneKeeps
<1>5. a \in Data /\ Top(a) \in Nat
  BY <1>1, HomeFacts
<1>6. Top(a)' = i /\ Rec(a, i)' = Begun
  BY <1>1, <1>4, <1>5 DEF StoredAt
<1>7. Begins(op)'
  BY <1>1, <1>3, <1>5, <1>6 DEF Begins, New, Home, Rec, Top
<1>8. Fresh(op.id)'
  BY <1>2, <1>3, <1>4, <1>5, FreshKept DEF Opening
<1>9. OldThere(op)'
  <2>1. CASE op.code = "update"
    <3>1. ~(desc.p_addr = a /\ desc.slot = i)
      BY <1>1, <1>2, <1>5, <2>1, PageFacts DEF IInv, Opening, OldThere
    <3> QED
      BY <1>2, <1>4, <1>5, <3>1, OldKept DEF Opening
  <2>2. CASE op.code # "update"
    BY <2>2 DEF OldThere
  <2> QED
    BY <2>1, <2>2
<1>10. Filling(op)'
  BY <1>2, <1>4, <1>7, <1>8, <1>9 DEF Filling, Opening
<1>11. ~InSlot(op) /\ InSlot(op)'
  BY <1>2, <1>4 DEF InSlot, Opening, InFlight, Due
<1>12. i > Top(a)
  BY <1>1, <1>5
<1> QED
  BY <1>1, <1>2, <1>3, <1>10, <1>11, <1>12, HeadAfter DEF Executing

\* The slot begun is not the one of the record an update replaces.
LEMMA BegunApart ==
  ASSUME FlashOK, NEW op, Home(op) \in Data, Begins(op), OldThere(op), op.code = "update"
  PROVE  ~(desc.p_addr = Home(op) /\ desc.slot = Top(Home(op)))
BY PageFacts DEF Begins, New, OldThere

LEMMA StoringDone ==
  ASSUME IInv, PagesOK, IdsOK, Running, m_op_queue # <<>>, FlashDone, Storing(p_op)
  PROVE  IInv'
<1>1. PICK op, a, i : op = p_op /\ a = Home(op) /\ i = Top(a)
  OBVIOUS
<1>2. PICK v \in SlotType, kind \in {"id", "chunk"} :
        v.st = "begun" /\ v.id = op.id /\ Asks(kind, Home(op), Top(Home(op)), v)
  BY <1>1 DEF Storing
<1>3. /\ Storing(op) /\ op.code \in Writes /\ Begins(op) /\ Fresh(op.id) /\ OldThere(op)
      /\ op.step \in {"CHUNKS", "HEADER_FINALIZE"}
  BY <1>1 DEF Storing
<1>4. Asked(kind, a, i, v)
  BY <1>1, <1>2, <1>3, BegunAsks
<1>5. StoredAt(a, i, v) /\ Due' /\ desc' = desc
  BY <1>2, <1>4, DoneKeeps
<1>6. a \in Data /\ Top(a) \in Nat /\ i > 0
  BY <1>1, <1>3, HomeFacts DEF Begins
<1>7. Top(a)' = i /\ Rec(a, i)' = v
  BY <1>1, <1>5, <1>6 DEF StoredAt
<1>8. Begins(op)' /\ New(op)'.id = op.id
  BY <1>1, <1>2, <1>6, <1>7 DEF Begins, New, Home, Rec, Top
<1>9. Fresh(op.id)'
  BY <1>2, <1>3, <1>5, <1>6, FreshKept
<1>10. OldThere(op)'
  <2>1. CASE op.code = "update"
    <3>1. ~(desc.p_addr = a /\ desc.slot = i)
      BY <1>1, <1>3, <1>6, <2>1, BegunApart DEF IInv
    <3> QED
      BY <1>3, <1>5, <1>6, <3>1, OldKept
  <2>2. CASE op.code # "update"
    BY <2>2 DEF OldThere
  <2> QED
    BY <2>1, <2>2
<1>11. Filling(op)'
  BY <1>3, <1>5, <1>8, <1>9, <1>10 DEF Filling
<1>12. InSlot(op) /\ InSlot(op)'
  BY <1>3, <1>5 DEF InSlot, Storing, InFlight, Due
<1>13. i <= Top(a)
  BY <1>1, <1>6
<1> QED
  BY <1>1, <1>2, <1>4, <1>11, <1>12, <1>13, HeadAfter DEF Executing

LEMMA SealingDone ==
  ASSUME IInv, PagesOK, IdsOK, Running, m_op_queue # <<>>, FlashDone, Sealing(p_op)
  PROVE  IInv'
<1>1. PICK op, a, i : op = p_op /\ a = Home(op) /\ i = Top(a)
  OBVIOUS
<1>2. PICK v \in SlotType :
        v.st = "valid" /\ v.id = op.id /\ Asks("finalize", Home(op), Top(Home(op)), v)
  BY <1>1 DEF Sealing
<1>3. /\ Sealing(op) /\ op.code \in Writes /\ Begins(op) /\ Fresh(op.id) /\ OldThere(op)
      /\ op.step = IF op.code = "update" THEN "FLAG_DIRTY" ELSE "DONE"
  BY <1>1 DEF Sealing
<1>4. Asked("finalize", a, i, v) /\ ~AtStart(op)
  BY <1>1, <1>2, <1>3, BegunAsks DEF AtStart, Writes
<1>5. StoredAt(a, i, v) /\ Due' /\ desc' = desc
  BY <1>1, <1>2, <1>3, <1>4, DoneKeeps
<1>6. a \in Data /\ Top(a) \in Nat /\ i > 0
  BY <1>1, <1>3, HomeFacts DEF Begins
<1>7. Top(a)' = i /\ Rec(a, i)' = v
  BY <1>1, <1>5, <1>6 DEF StoredAt
<1>8. Stands(op)'
  BY <1>1, <1>2, <1>6, <1>7 DEF Stands, New, Home, Rec, Top
<1>9. Sealed(op)' \/ Replaced(op)'
  <2>1. CASE op.code = "update"
    <3>1. ~(desc.p_addr = a /\ desc.slot = i)
      BY <1>1, <1>3, <1>6, <2>1, BegunApart DEF IInv
    <3>2. OldThere(op)'
      BY <1>3, <1>5, <1>6, <3>1, OldKept
    <3> QED
      BY <1>3, <1>5, <1>8, <2>1, <3>2 DEF Sealed
  <2>2. CASE op.code # "update"
    BY <1>3, <1>5, <1>8, <2>2 DEF Replaced
  <2> QED
    BY <2>1, <2>2
<1>10. InSlot(op) /\ InSlot(op)'
  BY <1>3, <1>5 DEF InSlot, Sealing, InFlight, Due
<1>11. i <= Top(a)
  BY <1>1, <1>6
<1> QED
  BY <1>1, <1>2, <1>3, <1>4, <1>9, <1>10, <1>11, HeadAfter DEF Executing

LEMMA ReplacingDone ==
  ASSUME IInv, PagesOK, IdsOK, Running, m_op_queue # <<>>, FlashDone, Replacing(p_op)
  PROVE  IInv'
<1>1. PICK op, a, i : op = p_op /\ a = desc.p_addr /\ i = desc.slot
  OBVIOUS
<1>2. /\ Replacing(op) /\ op.code = "update" /\ OldThere(op) /\ Stands(op) /\ op.step = "DONE"
      /\ Asks("dirty", a, i, Dirtied(a, i))
  BY <1>1 DEF Replacing
<1>3. a \in Data /\ i \in Valid(a) /\ Rec(a, i).id = op.old
  BY <1>1, <1>2, PageIsData DEF OldThere
<1>4. PICK v : v = Dirtied(a, i)
  OBVIOUS
<1>5. Asked("dirty", a, i, v) /\ v.st = "dirty" /\ i \in 1 .. Top(a)
  BY <1>2, <1>3, <1>4, DirtyAsks
<1>6. StoredAt(a, i, v) /\ Due' /\ desc' = desc
  BY <1>5, DoneKeeps
<1>7. PICK h, t : h = Home(op) /\ t = Top(h)
  OBVIOUS
<1>8. h \in Data /\ t \in Nat /\ t > 0 /\ t \in Valid(h) /\ Rec(h, t).id = op.id
  <2>1. h \in Data /\ t \in Nat
    BY <1>1, <1>7, HomeFacts
  <2> QED
    BY <1>2, <1>7, <2>1, PageFacts DEF Stands, New, IInv
<1>9. op.old # op.id
  BY <1>1, <1>2, HomeFacts, Sizes DEF WriteOK, Writes, OpType, Ids
<1>10. ~(h = a /\ t = i)
  BY <1>3, <1>8, <1>9
<1>11. t \in Valid(h)' /\ Rec(h, t)' = Rec(h, t)
  BY <1>6, <1>8, <1>10 DEF StoredAt
<1>12. Top(h)' = t
  BY <1>5, <1>6, <1>7, <1>8 DEF StoredAt
<1>13. Rec(h, t)'.st = "valid"
  BY <1>11 DEF Valid, ValidSlots, Rec
<1>14. Stands(op)'
  BY <1>7, <1>8, <1>11, <1>12, <1>13 DEF Stands, New, Home, Rec, Top
<1>15. Fresh(op.old)'
  BY <1>3, <1>5, <1>6, MarkedGone DEF IInv, FlashOK
<1>16. Replaced(op)'
  BY <1>2, <1>6, <1>14, <1>15 DEF Replaced, Writes
<1>17. InSlot(op) /\ InSlot(op)'
  BY <1>2, <1>6 DEF InSlot, Replacing, InFlight, Due, Writes
<1> QED
  BY <1>1, <1>5, <1>16, <1>17, HeadAfter DEF Executing

LEMMA MarkingDone ==
  ASSUME IInv, PagesOK, IdsOK, Running, m_op_queue # <<>>, FlashDone, Marking(p_op)
  PROVE  IInv'
<1>1. PICK op : op = p_op
  OBVIOUS
<1>2. PICK a \in Data : \E i \in Valid(a) : Rec(a, i).id = op.old /\ Asks("dirty", a, i, Dirtied(a, i))
  BY <1>1 DEF Marking
<1>3. PICK i \in Valid(a) : Rec(a, i).id = op.old /\ Asks("dirty", a, i, Dirtied(a, i))
  BY <1>2
<1>4. PICK v : v = Dirtied(a, i)
  OBVIOUS
<1>5. Asked("dirty", a, i, v) /\ v.st = "dirty" /\ i \in 1 .. Top(a)
  BY <1>3, <1>4, DirtyAsks
<1>6. StoredAt(a, i, v) /\ Due'
  BY <1>5, DoneKeeps
<1>7. Fresh(op.old)'
  BY <1>3, <1>5, <1>6, MarkedGone DEF IInv, FlashOK
<1>8. op.code = "delete" /\ op.step = "DEL_DONE"
  BY <1>1 DEF Marking
<1>9. Marked(op)'
  BY <1>6, <1>7, <1>8 DEF Marked
<1>10. ~InSlot(op) /\ ~InSlot(op)'
  BY <1>8 DEF InSlot, Writes
<1>11. i <= Top(a)
  BY <1>5, PageFacts DEF IInv
<1> QED
  BY <1>1, <1>5, <1>9, <1>10, <1>11, HeadAfter DEF Executing

LEMMA ClearingDone ==
  ASSUME IInv, PagesOK, IdsOK, Running, m_op_queue # <<>>, FlashDone, Clearing(p_op)
  PROVE  IInv'
<1>1. PICK op, q, a, i : op = p_op /\ q = tok.page /\ a = q + 1 /\ i = tok.slot
  OBVIOUS
<1>2. /\ op.code = "file_delete" /\ op.step = "DEL_FILE"
      /\ q \in 1 .. MaxPages /\ i \in Valid(a) /\ Asks("dirty", a, i, Dirtied(a, i))
      /\ \A p \in 1 .. MaxPages : \A k \in Valid(p + 1) :
           Rec(p + 1, k).file = op.file => Behind(p, k) \/ (p = q /\ k = i)
  BY <1>1 DEF Clearing
<1>3. PICK v : v = Dirtied(a, i)
  OBVIOUS
<1>4. a \in Data
  BY <1>1, <1>2, PageIsData
<1>5. Asked("dirty", a, i, v) /\ v.st = "dirty" /\ i \in 1 .. Top(a)
  BY <1>2, <1>3, <1>4, DirtyAsks
<1>6. StoredAt(a, i, v) /\ Due' /\ tok' = tok
  BY <1>5, DoneKeeps
<1>7. Sweeping(op)'
  <2>1. tok'.page \in Nat /\ tok'.slot \in Nat
    <3>1. i \in Nat
      BY <1>4, <1>5, PageFacts DEF IInv
    <3> QED
      BY <1>1, <1>2, <1>6, <3>1, Sizes
  <2>2. ASSUME NEW p \in 1 .. MaxPages, NEW k \in Valid(p + 1)', Rec(p + 1, k)'.file = op.file
        PROVE  Behind(p, k)'
    <3>1. p + 1 \in Data
      BY PageIsData
    <3>2. ~(p + 1 = a /\ k = i) /\ k \in Valid(p + 1) /\ Rec(p + 1, k)' = Rec(p + 1, k)
      BY <1>5, <1>6, <2>2, <3>1 DEF StoredAt
    <3>3. ~(p = q /\ k = i)
      BY <1>1, <3>2
    <3>4. Behind(p, k)
      BY <1>2, <2>2, <3>2, <3>3
    <3> QED
      BY <1>6, <3>4 DEF Behind
  <2> QED
    BY <1>2, <1>6, <2>1, <2>2 DEF Sweeping
<1>8. ~InSlot(op) /\ ~InSlot(op)'
  BY <1>2 DEF InSlot, Writes
<1>9. i <= Top(a)
  BY <1>4, <1>5, PageFacts DEF IInv
<1> QED
  BY <1>1, <1>5, <1>7, <1>8, <1>9, HeadAfter DEF Executing


\* A page that is tagged holds no records.
TagRequest ==
  \/ Blank /\ request = [kind |-> "tag", addr |-> 1, slot |-> 0, page |-> SwapPage]
  \/ /\ flash[1] = SwapPage
     /\ \E q \in 1 .. MaxPages :
          /\ request = [kind |-> "tag", addr |-> q + 1, slot |-> 0, page |-> EmptyDataPage]
          /\ flash[q + 1] = Erased

SameRecords ==
  \A b \in Data : /\ Valid(b)' = Valid(b) /\ Top(b)' = Top(b)
                  /\ \A i \in Valid(b) : Rec(b, i)' = Rec(b, i)

LEMMA TagDone ==
  ASSUME FlashOK, TagRequest, calls' = calls,
         flash' = [flash EXCEPT ![request.addr] = request.page]
  PROVE  FlashOK' /\ SameRecords /\ flash'[1] = SwapPage
<1>1. 1 \in Addrs /\ 1 \notin Data /\ Data \subseteq Addrs
  BY DataIsAddr, Sizes DEF Data, Addrs
<1>2. PICK a \in Addrs, page \in {SwapPage, EmptyDataPage} :
        /\ a = request.addr /\ page = request.page /\ flash[a] = Erased
        /\ (a = 1 /\ page = SwapPage) \/ (a \in Data /\ page = EmptyDataPage /\ flash[1] = SwapPage)
  <2>1. CASE Blank /\ request = [kind |-> "tag", addr |-> 1, slot |-> 0, page |-> SwapPage]
    BY <1>1, <2>1 DEF Blank
  <2>2. CASE ~Blank \/ request # [kind |-> "tag", addr |-> 1, slot |-> 0, page |-> SwapPage]
    <3>1. PICK q \in 1 .. MaxPages :
            /\ request = [kind |-> "tag", addr |-> q + 1, slot |-> 0, page |-> EmptyDataPage]
            /\ flash[q + 1] = Erased /\ flash[1] = SwapPage
      BY <2>2 DEF TagRequest
    <3> QED
      BY <3>1, PageIsData
  <2> QED
    BY <2>1, <2>2
<1>3. /\ DOMAIN flash' = Addrs /\ flash'[a] = page
      /\ \A b \in Addrs : b # a => flash'[b] = flash[b]
  BY <1>2 DEF FlashOK
<1>4. page.recs = <<>> /\ page \in PageSet /\ Whole(page)
  <2>1. page.recs = <<>> /\ page \in PageSet
    <3>1. SwapPage.recs = <<>> /\ SwapPage.recs \in Seq(SlotType) /\ SwapPage \in PageSet
      BY DEF SwapPage, PageSet
    <3>2. /\ EmptyDataPage.recs = <<>> /\ EmptyDataPage.recs \in Seq(SlotType)
          /\ EmptyDataPage \in PageSet
      BY DEF EmptyDataPage, PageSet
    <3> QED
      BY <3>1, <3>2
  <2>2. Len(page.recs) = 0 /\ DOMAIN page.recs = {}
    BY <2>1
  <2>3. OffsetOf(Len(page.recs) + 1) <= PageWords
    BY <2>2, OffsetOne, Sizes
  <2> QED
    BY <2>1, <2>2, <2>3 DEF Whole
<1>5. Erased.recs = <<>> /\ SwapPage # Erased
  BY DEF Erased, SwapPage
<1>6. ValidSlots(page) = ValidSlots(Erased) /\ ValidSlots(page) = {}
  BY <1>4, <1>5 DEF ValidSlots
<1>7. SameRecords
  <2>1. ASSUME NEW b \in Data
        PROVE  /\ Valid(b)' = Valid(b) /\ Top(b)' = Top(b)
               /\ \A i \in Valid(b) : Rec(b, i)' = Rec(b, i)
    <3>1. CASE b = a
      BY <1>2, <1>3, <1>4, <1>5, <1>6, <3>1 DEF Valid, Top
    <3>2. CASE b # a
      BY <1>1, <1>3, <3>2 DEF Valid, Top, Rec
    <3> QED
      BY <3>1, <3>2
  <2> QED
    BY <2>1 DEF SameRecords
<1>8. flash'[1] = SwapPage
  BY <1>1, <1>2, <1>3
<1>9. \A b \in Data : flash'[b].tag = "data" \/ flash'[b] = Erased
  BY <1>1, <1>2, <1>3 DEF FlashOK, EmptyDataPage
<1>10. \A b \in Addrs : Whole(flash'[b])
  BY <1>3, <1>4 DEF FlashOK
<1>11. Unique' /\ \A b \in Data : \A i \in Valid(b)' : Rec(b, i)'.id <= calls
  BY <1>7 DEF FlashOK, Unique, SameRecords
<1> QED
  BY <1>3, <1>5, <1>7, <1>8, <1>9, <1>10, <1>11 DEF FlashOK, Whole

LEMMA TaggingDone ==
  ASSUME IInv, PagesOK, IdsOK, Starting, FlashDone
  PROVE  IInv'
<1>1. /\ turn = "none" /\ request' = None /\ turn' = "ok"
      /\ flash' = [flash EXCEPT ![request.addr] = request.page]
      /\ UNCHANGED <<m_flags, m_latest_rec_id, m_op_queue, m_chunk_queue, m_pages, m_swap_page,
                     m_gc, tok, desc, result, reader, calls>>
  BY DEF FlashDone, ram, setup, env
<1>2. TagRequest /\ p_op.step = "TAG_DATA"
  BY <1>1 DEF Starting, Tagging, Due, TagRequest
<1>3. FlashOK' /\ SameRecords /\ flash'[1] = SwapPage
  BY <1>1, <1>2, TagDone DEF IInv
<1>4. calls' \in 0 .. MaxCalls /\ PagesOK'
  BY <1>1 DEF IInv, PagesOK
<1>5. IdsOK'
  BY <1>1, <1>3 DEF IdsOK, SameRecords
<1>6. \A p \in 1 .. MaxPages : m_pages[p].page_type = flash'[p + 1].tag
  <2>1. CASE /\ Blank /\ request = [kind |-> "tag", addr |-> 1, slot |-> 0, page |-> SwapPage]
             /\ \A p \in 1 .. MaxPages : m_pages[p].page_type = "erased"
    <3> TAKE p \in 1 .. MaxPages
    <3>1. flash'[p + 1] = Erased
      BY <1>1, <2>1, PageIsData DEF Blank, IInv, FlashOK
    <3> QED
      BY <2>1, <3>1 DEF Erased
  <2>2. CASE \E q \in 1 .. MaxPages :
               /\ request = [kind |-> "tag", addr |-> q + 1, slot |-> 0, page |-> EmptyDataPage]
               /\ m_pages[q].page_type = "data" /\ flash[q + 1] = Erased
               /\ \A p \in 1 .. MaxPages : p # q => m_pages[p].page_type = flash[p + 1].tag
    <3>1. PICK q \in 1 .. MaxPages :
               /\ request = [kind |-> "tag", addr |-> q + 1, slot |-> 0, page |-> EmptyDataPage]
               /\ m_pages[q].page_type = "data" /\ flash[q + 1] = Erased
               /\ \A p \in 1 .. MaxPages : p # q => m_pages[p].page_type = flash[p + 1].tag
      BY <2>2
    <3> TAKE p \in 1 .. MaxPages
    <3>2. flash'[p + 1] = IF p = q THEN EmptyDataPage ELSE flash[p + 1]
      BY <1>1, <3>1, PageIsData DEF IInv, FlashOK
    <3> QED
      BY <3>1, <3>2 DEF EmptyDataPage
  <2> QED
    BY <1>1, <2>1, <2>2 DEF Starting, Tagging, Due
<1>7. Tagging'
  BY <1>1, <1>2, <1>3, <1>6 DEF Tagging, Due, p_op
<1>8. \A p \in 1 .. MaxPages :
        /\ m_pages[p].words_reserved = 0 /\ m_pages[p].records_open = 0
        /\ m_pages[p].write_offset = OffsetOf(Top(p + 1)' + 1)
  BY <1>3, PageIsData DEF Starting, SameRecords
<1>9. Starting'
  BY <1>1, <1>7, <1>8 DEF Starting, p_op
<1> QED
  BY <1>3, <1>4, <1>5, <1>9 DEF IInv

LEMMA FlashDoneStep ==
  ASSUME IInv, FlashDone
  PROVE  IInv'
<1>1. turn = "none" /\ request # None
  BY DEF FlashDone
<1>2. PagesOK /\ IdsOK /\ (Starting \/ Running)
  BY <1>1 DEF IInv, OffState
<1>3. CASE Starting
  BY <1>2, <1>3, TaggingDone
<1>4. CASE Running
  <2>1. m_op_queue # <<>> /\ Executing(p_op)
    BY <1>1, <1>4 DEF Running, HeadOK
  <2>2. \/ Opening(p_op) \/ Storing(p_op) \/ Sealing(p_op) \/ Replacing(p_op)
        \/ Marking(p_op) \/ Clearing(p_op)
    BY <1>1, <2>1 DEF Executing, Starts, Filling, Sealed, Replaced, Marked, Sweeping, Ended, Due
  <2> QED
    BY <1>2, <1>4, <2>1, <2>2, OpeningDone, StoringDone, SealingDone, ReplacingDone, MarkingDone,
       ClearingDone
<1> QED
  BY <1>2, <1>3, <1>4

----------------------------------------------------------------------------
\* PowerLoss: flash is as it was, or as it would have been.

\* What is deleted when its record is marked.
Doomed(r) ==
  \/ p_op.code = "delete" /\ r.id = p_op.old
  \/ p_op.code = "update" /\ r.id = p_op.old /\ Stands(p_op)
  \/ p_op.code = "file_delete" /\ r.file = p_op.file

\* A store begins a record, makes it valid, or deletes it.
Means(a, i, v) ==
  \/ v.st = "begun" /\ i \notin Valid(a)
  \/ /\ v.st = "valid" /\ v.id = p_op.id /\ request.kind = "finalize"
     /\ p_op.code \in Writes /\ ~AtStart(p_op) /\ Fresh(p_op.id)
  \/ i \in Valid(a) /\ v.st = "dirty" /\ Doomed(Rec(a, i))

LEMMA RequestMeans ==
  ASSUME IInv, PagesOK, IdsOK, Running, m_op_queue # <<>>, request # None
  PROVE  \E kind, a, i, v : Asked(kind, a, i, v) /\ Means(a, i, v)
<1>1. Executing(p_op) /\ p_op \in OpType
  BY HomeFacts DEF Running, HeadOK
<1>2. \/ Opening(p_op) \/ Storing(p_op) \/ Sealing(p_op) \/ Replacing(p_op)
      \/ Marking(p_op) \/ Clearing(p_op)
  BY <1>1 DEF Executing, Starts, Filling, Sealed, Replaced, Marked, Sweeping, Ended, Due
<1>3. CASE Opening(p_op)
  <2>1. PICK a, i, v : a = Home(p_op) /\ i = Top(Home(p_op)) + 1 /\ v = Begun
    OBVIOUS
  <2>2. Asked("begin", a, i, v)
    BY <1>3, <2>1, OpeningAsks
  <2>3. a \in Data /\ v.st = "begun"
    BY <2>1, HomeFacts DEF Begun
  <2>4. i \notin Valid(a)
    BY <2>1, <2>3, PageFacts DEF IInv
  <2> QED
    BY <2>2, <2>3, <2>4 DEF Means
<1>4. CASE Storing(p_op)
  <2>1. PICK v \in SlotType, kind \in {"id", "chunk"} :
          v.st = "begun" /\ v.id = p_op.id /\ Asks(kind, Home(p_op), Top(Home(p_op)), v)
    BY <1>4 DEF Storing
  <2>2. Asked(kind, Home(p_op), Top(Home(p_op)), v)
    BY <1>4, <2>1, BegunAsks DEF Storing
  <2>3. Top(Home(p_op)) \notin Valid(Home(p_op))
    BY <1>4, PageFacts, HomeFacts DEF Storing, Begins, New, IInv
  <2> QED
    BY <2>1, <2>2, <2>3 DEF Means
<1>5. CASE Sealing(p_op)
  <2>1. PICK v \in SlotType :
          v.st = "valid" /\ v.id = p_op.id /\ Asks("finalize", Home(p_op), Top(Home(p_op)), v)
    BY <1>5 DEF Sealing
  <2>2. Asked("finalize", Home(p_op), Top(Home(p_op)), v)
    BY <1>5, <2>1, BegunAsks DEF Sealing
  <2>3. /\ p_op.code \in Writes /\ ~AtStart(p_op) /\ Fresh(p_op.id)
        /\ request.kind = "finalize"
    BY <1>5, <2>1 DEF Sealing, AtStart, Writes, Asks
  <2> QED
    BY <2>1, <2>2, <2>3 DEF Means
<1>6. CASE Replacing(p_op)
  <2>1. PICK a, i : a = desc.p_addr /\ i = desc.slot
    OBVIOUS
  <2>2. a \in Data /\ i \in Valid(a) /\ Asks("dirty", a, i, Dirtied(a, i))
    BY <1>6, <2>1, PageIsData DEF Replacing, OldThere
  <2>3. Doomed(Rec(a, i))
    BY <1>6, <2>1 DEF Replacing, OldThere, Doomed
  <2> QED
    BY <2>2, <2>3, DirtyAsks DEF Means
<1>7. CASE Marking(p_op)
  <2>1. PICK a \in Data : \E i \in Valid(a) :
          Rec(a, i).id = p_op.old /\ Asks("dirty", a, i, Dirtied(a, i))
    BY <1>7 DEF Marking
  <2>2. PICK i \in Valid(a) : Rec(a, i).id = p_op.old /\ Asks("dirty", a, i, Dirtied(a, i))
    BY <2>1
  <2>3. Doomed(Rec(a, i))
    BY <1>7, <2>2 DEF Marking, Doomed
  <2> QED
    BY <2>2, <2>3, DirtyAsks DEF Means
<1>8. CASE Clearing(p_op)
  <2>1. PICK a, i : a = tok.page + 1 /\ i = tok.slot
    OBVIOUS
  <2>2. a \in Data /\ i \in Valid(a) /\ Asks("dirty", a, i, Dirtied(a, i))
    BY <1>8, <2>1, PageIsData DEF Clearing
  <2>3. Doomed(Rec(a, i))
    BY <1>8, <2>1 DEF Clearing, Doomed
  <2> QED
    BY <2>2, <2>3, DirtyAsks DEF Means
<1> QED
  BY <1>2, <1>3, <1>4, <1>5, <1>6, <1>7, <1>8

\* A request that is carried out.
Carried ==
  \/ SameRecords
  \/ /\ PagesOK /\ IdsOK /\ Running /\ m_op_queue # <<>>
     /\ \E kind, a, i, v : Asked(kind, a, i, v) /\ Means(a, i, v) /\ StoredAt(a, i, v)

LEMMA RequestDone ==
  ASSUME IInv, request # None, calls' = calls,
         flash' = [flash EXCEPT ![request.addr] = request.page]
  PROVE  FlashOK' /\ Carried
<1>1. PagesOK /\ IdsOK /\ (Starting \/ Running)
  BY DEF IInv, OffState
<1>2. CASE Starting
  <2>1. TagRequest
    BY <1>2 DEF Starting, Tagging, Due, TagRequest
  <2> QED
    BY <2>1, TagDone DEF IInv, Carried
<1>3. CASE Running
  <2>1. m_op_queue # <<>>
    BY <1>3 DEF Running, HeadOK
  <2>2. PICK kind, a, i, v : Asked(kind, a, i, v) /\ Means(a, i, v)
    BY <1>1, <1>3, <2>1, RequestMeans
  <2>3. /\ a \in Data /\ flash[a].tag = "data" /\ i \in 1 .. Top(a) + 1 /\ v \in SlotType
        /\ v.st # "hole" /\ (i > Top(a) => OffsetOf(Top(a) + 2) <= PageWords)
        /\ FlashOK /\ flash' = [flash EXCEPT ![a] = Put(flash[a], i, v)]
    BY <2>2 DEF Asked, Asks, IInv
  <2>4. v.st = "valid" => Fresh(v.id) /\ v.id <= calls
    BY <1>1, <2>2, <2>3, Sizes DEF Asked, IdsOK, IInv, SlotType, Ids
  <2>5. FlashOK' /\ StoredAt(a, i, v)
    BY <2>3, <2>4, StoreKeeps
  <2> QED
    BY <1>1, <1>3, <2>1, <2>2, <2>5 DEF Carried
<1> QED
  BY <1>1, <1>2, <1>3

\* A request that is cut short is carried out, or flash stays as it is.
LEMMA PowerCut ==
  ASSUME IInv, PowerLoss
  PROVE  \/ DOMAIN flash' = Addrs /\ \A b \in Addrs : flash'[b] = flash[b]
         \/ request # None /\ flash' = [flash EXCEPT ![request.addr] = request.page]
<1> DEFINE Same == DOMAIN flash' = Addrs /\ \A b \in Addrs : flash'[b] = flash[b]
<1> SUFFICES ASSUME ~Same
             PROVE  request # None /\ flash' = [flash EXCEPT ![request.addr] = request.page]
  OBVIOUS
<1>1. request # None /\ \E page \in CutShort : flash' = [flash EXCEPT ![request.addr] = page]
  BY DEF PowerLoss, IInv, FlashOK
<1>2. PagesOK /\ IdsOK /\ (Starting \/ Running)
  BY <1>1 DEF IInv, OffState
<1>3. request.kind # "copy" /\ request.addr \in DOMAIN flash
  <2>1. CASE Starting
    <3>1. TagRequest /\ 1 \in Addrs
      BY <1>1, <2>1, Sizes DEF Starting, Tagging, Due, TagRequest, Addrs
    <3> QED
      BY <3>1, PageIsData DEF TagRequest, IInv, FlashOK
  <2>2. CASE Running
    <3>1. m_op_queue # <<>>
      BY <1>1, <2>2 DEF Running, HeadOK
    <3>2. PICK kind, a, i, v : Asked(kind, a, i, v)
      BY <1>1, <1>2, <2>2, <3>1, RequestMeans
    <3> QED
      BY <3>2, DataIsAddr DEF Asked, Asks, IInv, FlashOK
  <2> QED
    BY <1>2, <2>1, <2>2
<1>4. PICK page \in CutShort : flash' = [flash EXCEPT ![request.addr] = page]
  BY <1>1
<1>5. CutShort = {flash[request.addr], request.page}
  BY <1>3 DEF CutShort
<1>6. page # flash[request.addr]
  BY <1>3, <1>4 DEF IInv, FlashOK
<1> QED
  BY <1>1, <1>4, <1>5, <1>6

LEMMA PowerLossStep ==
  ASSUME IInv, PowerLoss
  PROVE  IInv' /\ Carried
<1>1. OffState'
  BY DEF PowerLoss, OffState
<1>2. calls' = calls
  BY DEF PowerLoss
<1>3. CASE DOMAIN flash' = Addrs /\ \A b \in Addrs : flash'[b] = flash[b]
  <2>1. SameRecords
    BY <1>3, DataIsAddr DEF SameRecords, Valid, Rec, Top
  <2>2. flash'[1] = flash[1] /\ (Blank => Blank')
    BY <1>3, Sizes DEF Addrs, Blank
  <2>3. Unique' /\ \A b \in Data : \A i \in Valid(b)' : Rec(b, i)'.id <= calls
    BY <2>1 DEF IInv, FlashOK, Unique, SameRecords
  <2>4. \A b \in Data : flash'[b].tag = "data" \/ flash'[b] = Erased
    BY <1>3, DataIsAddr DEF IInv, FlashOK
  <2>5. FlashOK'
    BY <1>2, <1>3, <2>2, <2>3, <2>4 DEF IInv, FlashOK, Whole
  <2> QED
    BY <1>1, <1>2, <2>1, <2>5 DEF IInv, Carried
<1>4. CASE request # None /\ flash' = [flash EXCEPT ![request.addr] = request.page]
  BY <1>1, <1>2, <1>4, RequestDone DEF IInv
<1> QED
  BY <1>3, <1>4, PowerCut
----------------------------------------------------------------------------
\* What the steps of write_execute and delete_execute leave as it was: they
\* ask for a store and go on to their next step, or they end.

LEMMA Still ==
  ASSUME flash' = flash
  PROVE  /\ \A id : Fresh(id)' <=> Fresh(id)
         /\ \A a : Valid(a)' = Valid(a) /\ Top(a)' = Top(a) /\ \A i : Rec(a, i)' = Rec(a, i)
<1>1. \A a : Valid(a)' = Valid(a) /\ Top(a)' = Top(a) /\ \A i : Rec(a, i)' = Rec(a, i)
  BY DEF Valid, Top, Rec
<1>2. \A id : Fresh(id)' <=> Fresh(id)
  BY DEF Fresh, Valid, Rec
<1> QED
  BY <1>1, <1>2

LEMMA Scale ==
  ASSUME NEW m \in Nat, NEW n \in Nat, m <= n
  PROVE  RecordWords * m \in Nat /\ RecordWords * n \in Nat /\ RecordWords * m <= RecordWords * n
<1>1. PICK d \in Nat : n = m + d
  <2>1. n - m \in Nat /\ n = m + (n - m)
    OBVIOUS
  <2> QED
    BY <2>1
<1>2. RecordWords * (m + d) = RecordWords * m + RecordWords * d
  BY Sizes
<1>3. RecordWords * m \in Nat /\ RecordWords * d \in Nat
  BY Sizes
<1> QED
  BY <1>1, <1>2, <1>3

\* Of the pages and of what is known of them.
StillOK(words) ==
  /\ m_pages' \in [1 .. MaxPages -> PageRec]
  /\ \A p \in 1 .. MaxPages :
       /\ m_pages'[p].p_addr = m_pages[p].p_addr
       /\ m_pages'[p].page_type = m_pages[p].page_type
       /\ m_pages'[p].records_open = m_pages[p].records_open
       /\ m_pages'[p].write_offset = m_pages[p].write_offset + words[p]
       /\ m_pages'[p].words_reserved = m_pages[p].words_reserved - words[p]

NoWords == [p \in 1 .. MaxPages |-> 0]

LEMMA StaysOK ==
  ASSUME IInv, PagesOK, IdsOK, Running, NEW words \in [1 .. MaxPages -> Nat], StillOK(words),
         UNCHANGED <<flash, m_latest_rec_id, m_swap_page, m_gc, reader, calls>>
  PROVE  /\ calls' \in 0 .. MaxCalls /\ FlashOK' /\ PagesOK' /\ IdsOK' /\ TagsOK' /\ ReaderOK'
<1>1. calls' \in 0 .. MaxCalls
  BY DEF IInv
<1>2. FlashOK'
  BY DEF IInv, FlashOK, Whole, Valid, Rec, Blank, Unique
<1>3. PagesOK'
  <2>1. \A p \in 1 .. MaxPages :
          /\ m_pages'[p].p_addr = p + 1
          /\ m_pages'[p].write_offset + m_pages'[p].words_reserved <= PageWords
    <3> TAKE p \in 1 .. MaxPages
    <3>1. /\ m_pages[p].p_addr = p + 1
          /\ m_pages[p].write_offset + m_pages[p].words_reserved <= PageWords
          /\ m_pages[p].write_offset \in Nat /\ m_pages[p].words_reserved \in Nat
          /\ words[p] \in Nat
      BY PageNums DEF PagesOK
    <3>2. /\ m_pages'[p].p_addr = m_pages[p].p_addr
          /\ m_pages'[p].write_offset = m_pages[p].write_offset + words[p]
          /\ m_pages'[p].words_reserved = m_pages[p].words_reserved - words[p]
      BY DEF StillOK
    <3>3. \A o, r, w \in Nat : (o + w) + (r - w) = o + r
      OBVIOUS
    <3> QED
      BY <3>1, <3>2, <3>3
  <2> QED
    BY <2>1 DEF PagesOK, StillOK
<1>4. IdsOK'
  BY DEF IdsOK, Valid, Rec
<1>5. TagsOK'
  BY DEF Running, TagsOK, StillOK
<1>6. ReaderOK'
  BY DEF Running, ReaderOK, StillOK, Rec
<1> QED
  BY <1>1, <1>2, <1>3, <1>4, <1>5, <1>6

\* A chunk is taken by the operation that held it.
ChunkTaken ==
  /\ m_chunk_queue'.count = m_chunk_queue.count - 1 /\ m_chunk_queue'.rp \in Nat
  /\ m_chunk_queue'.chunk = m_chunk_queue.chunk

LEMMA HeldAtHead ==
  ASSUME IInv, PagesOK, Running, m_op_queue # <<>>, turn # "event", HasChunk(p_op)
  PROVE  /\ p_op.id \in Holding /\ m_chunk_queue.count >= 1
         /\ m_chunk_queue.count - 1 >= Cardinality(Holding \ {p_op.id})
         /\ m_chunk_queue.count - 1 \in 0 .. ChunkQueueSize
<1>1. m_op_queue \in Seq(OpType) /\ 1 \in 1 .. Len(m_op_queue) /\ m_op_queue[1] = p_op
  BY HomeFacts
<1>2. 1 \in ToDo
  BY <1>1 DEF ToDo
<1>3. p_op.id \in Holding
  BY <1>1, <1>2 DEF Holding
<1>4. /\ Cardinality(Holding) \in Nat /\ Cardinality(Holding) >= 1
      /\ Cardinality(Holding \ {p_op.id}) = Cardinality(Holding) - 1
  BY <1>1, <1>3, SetsFinite, WithMember
<1>5. m_chunk_queue.count \in 0 .. ChunkQueueSize /\ m_chunk_queue.count >= Cardinality(Holding)
  BY DEF Running, AccountsOK
<1> QED
  BY <1>3, <1>4, <1>5, Sizes

LEMMA CountLess ==
  ASSUME NEW S, NEW T, S \subseteq T, T \subseteq Ids
  PROVE  /\ Cardinality(S) \in Nat /\ Cardinality(T) \in Nat /\ Cardinality(S) <= Cardinality(T)
<1>1. IsFiniteSet(T) /\ Cardinality(T) \in Nat
  BY IdsFinite
<1>2. Cardinality(S) <= Cardinality(T) /\ IsFiniteSet(S)
  BY <1>1, FS_Subset
<1> QED
  BY <1>1, <1>2, FS_CardinalityType

\* The accounts are kept by a step that makes the sets no greater.
LEMMA AccountsKept ==
  ASSUME IInv, PagesOK, Running, m_op_queue # <<>>, turn # "event",
         NEW words \in [1 .. MaxPages -> Nat], StillOK(words),
         \/ m_chunk_queue' = m_chunk_queue /\ Holding' \subseteq Holding
         \/ ChunkTaken /\ HasChunk(p_op) /\ Holding' \subseteq Holding \ {p_op.id},
         \A p \in 1 .. MaxPages :
           \/ words[p] = 0 /\ Unwritten(p)' \subseteq Unwritten(p)
           \/ /\ words[p] = RecordWords /\ p = p_op.page /\ p_op.code \in Writes
              /\ Unwritten(p)' \subseteq Unwritten(p) \ {p_op.id}
  PROVE  AccountsOK'
<1>1. m_op_queue \in Seq(OpType)
  BY HomeFacts
<1>2. ASSUME NEW p \in 1 .. MaxPages
      PROVE  m_pages'[p].words_reserved >= RecordWords * Cardinality(Unwritten(p)')
  <2>1. /\ m_pages'[p].words_reserved = m_pages[p].words_reserved - words[p]
        /\ m_pages[p].words_reserved \in Nat /\ Unwritten(p) \subseteq Ids
        /\ m_pages[p].words_reserved >= RecordWords * Cardinality(Unwritten(p))
    <3>1. Unwritten(p) \subseteq Ids
      BY <1>1, SetsFinite
    <3>2. m_pages[p].words_reserved >= RecordWords * Cardinality(Unwritten(p))
      BY DEF Running, AccountsOK
    <3>3. m_pages'[p].words_reserved = m_pages[p].words_reserved - words[p]
      BY DEF StillOK
    <3>4. m_pages[p].words_reserved \in Nat
      BY Sizes DEF PagesOK, PageRec
    <3> QED
      BY <3>1, <3>2, <3>3, <3>4
  <2>2. CASE words[p] = 0 /\ Unwritten(p)' \subseteq Unwritten(p)
    <3>1. PICK m, n : m = Cardinality(Unwritten(p)') /\ n = Cardinality(Unwritten(p))
      OBVIOUS
    <3>2. m \in Nat /\ n \in Nat /\ m <= n
      BY <2>1, <2>2, <3>1, CountLess
    <3>3. RecordWords * m \in Nat /\ RecordWords * n \in Nat /\ RecordWords * m <= RecordWords * n
      BY <3>2, Scale
    <3> QED
      BY <2>1, <2>2, <3>1, <3>3
  <2>3. CASE /\ words[p] = RecordWords /\ p = p_op.page /\ p_op.code \in Writes
             /\ Unwritten(p)' \subseteq Unwritten(p) \ {p_op.id}
    <3>1. PICK m, n : m = Cardinality(Unwritten(p)') /\ n = Cardinality(Unwritten(p) \ {p_op.id})
      OBVIOUS
    <3>2. m \in Nat /\ n \in Nat /\ m <= n
      <4>1. Unwritten(p) \ {p_op.id} \subseteq Ids
        BY <2>1
      <4> QED
        BY <2>3, <3>1, <4>1, CountLess
    <3>3. RecordWords * m \in Nat /\ RecordWords * n \in Nat /\ RecordWords * m <= RecordWords * n
      BY <3>2, Scale
    <3>4. m_pages[p].words_reserved >= RecordWords + RecordWords * n
      BY <2>3, <3>1, RoomAtHome
    <3> QED
      BY <2>1, <2>3, <3>1, <3>3, <3>4, Sizes
  <2> QED
    BY <2>2, <2>3
<1>3. /\ m_chunk_queue'.count \in 0 .. ChunkQueueSize
      /\ m_chunk_queue'.count >= Cardinality(Holding')
      /\ m_chunk_queue'.rp \in Nat /\ m_chunk_queue'.chunk \in [0 .. ChunkQueueSize - 1 -> Ids]
  <2>1. /\ m_chunk_queue.count \in 0 .. ChunkQueueSize /\ m_chunk_queue.rp \in Nat
        /\ m_chunk_queue.chunk \in [0 .. ChunkQueueSize - 1 -> Ids]
        /\ m_chunk_queue.count >= Cardinality(Holding) /\ Holding \subseteq Ids
    BY <1>1, SetsFinite DEF Running, AccountsOK
  <2>2. CASE m_chunk_queue' = m_chunk_queue /\ Holding' \subseteq Holding
    <3>1. /\ Cardinality(Holding') \in Nat /\ Cardinality(Holding) \in Nat
          /\ Cardinality(Holding') <= Cardinality(Holding)
      BY <2>1, <2>2, CountLess
    <3> QED
      BY <2>1, <2>2, <3>1, Sizes
  <2>3. CASE ChunkTaken /\ HasChunk(p_op) /\ Holding' \subseteq Holding \ {p_op.id}
    <3>1. Holding \ {p_op.id} \subseteq Ids
      BY <2>1
    <3>2. /\ Cardinality(Holding') \in Nat /\ Cardinality(Holding \ {p_op.id}) \in Nat
          /\ Cardinality(Holding') <= Cardinality(Holding \ {p_op.id})
      BY <2>3, <3>1, CountLess
    <3>3. /\ m_chunk_queue.count - 1 >= Cardinality(Holding \ {p_op.id})
          /\ m_chunk_queue.count - 1 \in 0 .. ChunkQueueSize
      BY <2>3, HeldAtHead
    <3> QED
      BY <2>1, <2>3, <3>2, <3>3, Sizes DEF ChunkTaken
  <2> QED
    BY <2>2, <2>3
<1> QED
  BY <1>2, <1>3 DEF AccountsOK

\* The identifiers of the writes behind the one executed are not its own.
LEMMA OwnId ==
  ASSUME IInv, PagesOK, Running, m_op_queue # <<>>, p_op.code \in Writes,
         NEW j \in 2 .. Len(m_op_queue), m_op_queue[j].code \in Writes
  PROVE  m_op_queue[j].id # p_op.id
<1>1. /\ m_op_queue \in Seq(OpType) /\ 1 \in 1 .. Len(m_op_queue) /\ m_op_queue[1] = p_op
      /\ p_op \in OpType /\ Len(m_op_queue) \in Nat
  BY HomeFacts
<1>2. j \in 1 .. Len(m_op_queue) /\ 1 < j
  BY <1>1
<1>3. p_op.id < m_op_queue[j].id
  BY <1>1, <1>2 DEF Running, QueueOK
<1>4. m_op_queue[j].id \in Nat /\ p_op.id \in Nat
  <2>1. m_op_queue[j] \in OpType /\ p_op \in OpType
    BY <1>1, <1>2
  <2> QED
    BY <2>1, Sizes DEF OpType, Ids
<1> QED
  BY <1>3, <1>4

\* The operation that is executed goes on to its next step.
Goes(op) ==
  /\ m_op_queue' \in Seq(OpType) /\ Len(m_op_queue') = Len(m_op_queue) /\ m_op_queue'[1] = op
  /\ \A i \in 1 .. Len(m_op_queue) : i # 1 => m_op_queue'[i] = m_op_queue[i]

SameOp(op, was) ==
  /\ op.code = was.code /\ op.page = was.page /\ op.id = was.id
  /\ op.file = was.file /\ op.old = was.old

LEMMA GoesOn ==
  ASSUME IInv, PagesOK, IdsOK, Running, Due, m_op_queue # <<>>,
         UNCHANGED <<flash, m_flags, m_latest_rec_id, m_swap_page, m_gc, reader, calls>>,
         NEW was, was = p_op, NEW op \in OpType, Goes(op), SameOp(op, was),
         op.code \in Writes => ~AtStart(op),
         StillOK(NoWords), turn' = "none",
         \/ m_chunk_queue' = m_chunk_queue /\ (HasChunk(op) => HasChunk(was))
         \/ ChunkTaken /\ HasChunk(was) /\ ~HasChunk(op),
         Executing(op)', op.code = "file_delete" \/ tok' = NoTok,
         InSlot(op)' => InSlot(was), InSlot(was) => InSlot(op)'
  PROVE  IInv'
<1>1. /\ m_op_queue \in Seq(OpType) /\ Len(m_op_queue) \in Nat /\ 1 \in 1 .. Len(m_op_queue)
      /\ m_op_queue[1] = was /\ was \in OpType /\ (was.code \in Writes => WriteOK(was))
  BY HomeFacts
<1>2. NoWords \in [1 .. MaxPages -> Nat] /\ \A p \in 1 .. MaxPages : NoWords[p] = 0
  BY DEF NoWords
<1>3. calls' \in 0 .. MaxCalls /\ FlashOK' /\ PagesOK' /\ IdsOK' /\ TagsOK' /\ ReaderOK'
  BY <1>2, StaysOK
<1>4. p_op' = op /\ m_op_queue' # <<>> /\ Len(m_op_queue') = Len(m_op_queue)
  BY <1>1 DEF Goes, p_op
<1>5. m_flags' = Flags'
  BY <1>4 DEF Running, Flags
<1>6. ToDo' = ToDo /\ ToDo = 1 .. Len(m_op_queue)
  BY <1>4 DEF ToDo, Due
<1>7. \A j \in ToDo : m_op_queue'[j] = IF j = 1 THEN op ELSE m_op_queue[j]
  BY <1>6 DEF Goes
<1>8. \A p \in 1 .. MaxPages : Unwritten(p)' \subseteq Unwritten(p)
  <2> TAKE p \in 1 .. MaxPages
  <2>1. ASSUME NEW j \in ToDo, m_op_queue'[j].code \in Writes, m_op_queue'[j].page = p
        PROVE  /\ m_op_queue[j].code \in Writes /\ m_op_queue[j].page = p
               /\ m_op_queue'[j].id = m_op_queue[j].id
    BY <1>1, <1>7, <2>1 DEF SameOp
  <2> QED
    BY <1>6, <2>1 DEF Unwritten
<1>9. ASSUME NEW j \in ToDo, HasChunk(m_op_queue'[j])
      PROVE  \/ j = 1 /\ HasChunk(op)
             \/ j # 1 /\ m_op_queue'[j] = m_op_queue[j] /\ HasChunk(m_op_queue[j])
  BY <1>7, <1>9
<1>10. \/ m_chunk_queue' = m_chunk_queue /\ Holding' \subseteq Holding
       \/ ChunkTaken /\ HasChunk(p_op) /\ Holding' \subseteq Holding \ {p_op.id}
  <2>1. CASE m_chunk_queue' = m_chunk_queue /\ (HasChunk(op) => HasChunk(was))
    <3>1. \A j \in ToDo : HasChunk(m_op_queue'[j]) =>
             HasChunk(m_op_queue[j]) /\ m_op_queue'[j].id = m_op_queue[j].id
      BY <1>1, <1>7, <1>9, <2>1 DEF SameOp
    <3> QED
      BY <1>6, <2>1, <3>1 DEF Holding
  <2>2. CASE ChunkTaken /\ HasChunk(was) /\ ~HasChunk(op)
    <3>1. \A j \in ToDo : HasChunk(m_op_queue'[j]) =>
             /\ HasChunk(m_op_queue[j]) /\ m_op_queue'[j].id = m_op_queue[j].id
             /\ m_op_queue[j].id # p_op.id
      <4> SUFFICES ASSUME NEW j \in ToDo, HasChunk(m_op_queue'[j])
                   PROVE  /\ HasChunk(m_op_queue[j]) /\ m_op_queue'[j].id = m_op_queue[j].id
                          /\ m_op_queue[j].id # p_op.id
        OBVIOUS
      <4>1. j # 1 /\ m_op_queue'[j] = m_op_queue[j] /\ HasChunk(m_op_queue[j])
        BY <1>9, <2>2
      <4>2. j \in 2 .. Len(m_op_queue) /\ m_op_queue[j].code \in Writes /\ p_op.code \in Writes
        BY <1>1, <1>6, <2>2, <4>1 DEF HasChunk, Writes
      <4> QED
        BY <4>1, <4>2, OwnId
    <3> QED
      BY <1>6, <2>2, <3>1 DEF Holding
  <2> QED
    BY <2>1, <2>2
<1>11. AccountsOK'
  <2>1. turn # "event"
    BY DEF Due
  <2> QED
    BY <1>2, <1>8, <1>10, <2>1, AccountsKept
<1>12. QueueOK'
  <2>1. \A i \in 2 .. Len(m_op_queue') : m_op_queue'[i] = m_op_queue[i] /\ AtStart(m_op_queue[i])
    BY <1>1, <1>4, <1>6, <1>7 DEF Running, QueueOK
  <2>2. ASSUME NEW i \in 1 .. Len(m_op_queue'), m_op_queue'[i].code \in Writes
        PROVE  WriteOK(m_op_queue[i])'
    <3>1. PICK x : x = m_op_queue'[i]
      OBVIOUS
    <3>2. WriteOK(x)
      <4>1. CASE i = 1
        BY <1>1, <2>2, <3>1, <4>1 DEF Goes, SameOp, WriteOK
      <4>2. CASE i # 1
        <5>1. x = m_op_queue[i] /\ i \in 1 .. Len(m_op_queue)
          BY <1>4, <1>6, <1>7, <3>1, <4>2
        <5> QED
          BY <2>2, <3>1, <5>1 DEF Running, QueueOK
      <4> QED
        BY <4>1, <4>2
    <3>3. WriteOK(x)'
      BY <3>2, Still DEF WriteOK
    <3> QED
      BY <3>1, <3>3 DEF WriteOK
  <2>3. ASSUME NEW i \in 1 .. Len(m_op_queue'), NEW j \in 1 .. Len(m_op_queue'),
               m_op_queue'[i].code \in Writes, m_op_queue'[j].code \in Writes, i < j
        PROVE  m_op_queue'[i].id < m_op_queue'[j].id
    <3>1. \A k \in 1 .. Len(m_op_queue') : /\ m_op_queue'[k].id = m_op_queue[k].id
                                           /\ m_op_queue'[k].code = m_op_queue[k].code
      BY <1>1, <1>4, <1>6, <1>7 DEF SameOp
    <3> QED
      BY <1>4, <2>3, <3>1 DEF Running, QueueOK
  <2>4. m_op_queue' \in Seq(OpType) /\ Len(m_op_queue') <= OpQueueSize
    BY <1>4 DEF Goes, Running, QueueOK
  <2> QED
    <3>1. \A i \in 2 .. Len(m_op_queue') : AtStart(m_op_queue'[i])
      BY <2>1
    <3>2. \A i \in 1 .. Len(m_op_queue') :
            m_op_queue'[i].code \in Writes => WriteOK(m_op_queue[i])'
      BY <2>2
    <3> QED
      BY <2>3, <2>4, <3>1, <3>2 DEF QueueOK
<1>13. HeadOK'
  <2>1. \A p \in 1 .. MaxPages :
          m_pages[p].write_offset =
            OffsetOf(IF was.page = p /\ InSlot(was) THEN Top(p + 1) ELSE Top(p + 1) + 1)
    BY DEF Running, HeadOK
  <2>2. \A p \in 1 .. MaxPages : m_pages[p].write_offset \in Nat
    BY Sizes DEF PagesOK, PageRec
  <2>3. \A p \in 1 .. MaxPages :
          m_pages'[p].write_offset =
            OffsetOf(IF op.page = p /\ InSlot(op)' THEN Top(p + 1)' ELSE Top(p + 1)' + 1)
    <3> TAKE p \in 1 .. MaxPages
    <3>1. m_pages'[p].write_offset = m_pages[p].write_offset
      BY <1>2, <2>2 DEF StillOK
    <3>2. Top(p + 1)' = Top(p + 1)
      BY DEF Top
    <3>3. (op.page = p /\ InSlot(op)') <=> (was.page = p /\ InSlot(was))
      BY DEF SameOp
    <3> QED
      BY <2>1, <3>1, <3>2, <3>3
  <2> QED
    BY <1>4, <2>3 DEF HeadOK
<1> QED
  BY <1>3, <1>5, <1>11, <1>12, <1>13 DEF IInv, Running

LEMMA EndsOp ==
  ASSUME IInv, PagesOK, IdsOK, Running, Due, m_op_queue # <<>>,
         UNCHANGED <<flash, m_flags, m_latest_rec_id, m_op_queue, m_swap_page, m_gc, request,
                     reader, calls>>,
         NEW op, op = p_op, turn' = "event", result' \in {"success", "not_found"},
         tok' = NoTok, result' = "success" => Truthful(op),
         NEW words \in [1 .. MaxPages -> Nat], StillOK(words),
         \A p \in 1 .. MaxPages :
           words[p] = IF p = op.page /\ InSlot(op) THEN RecordWords ELSE 0,
         InSlot(op) => Top(Home(op)) > 0,
         \/ m_chunk_queue' = m_chunk_queue /\ ~HasChunk(op)
         \/ ChunkTaken /\ HasChunk(op)
  PROVE  IInv'
<1>1. /\ m_op_queue \in Seq(OpType) /\ Len(m_op_queue) \in Nat /\ 1 \in 1 .. Len(m_op_queue)
      /\ m_op_queue[1] = op /\ op \in OpType
  BY HomeFacts
<1>2. calls' \in 0 .. MaxCalls /\ FlashOK' /\ PagesOK' /\ IdsOK' /\ TagsOK' /\ ReaderOK'
  BY StaysOK
<1>3. p_op' = op /\ m_op_queue' # <<>> /\ m_flags' = Flags'
  BY DEF p_op, Running, Flags
<1>4. ToDo' = 2 .. Len(m_op_queue) /\ ToDo = 1 .. Len(m_op_queue) /\ ToDo' \subseteq ToDo
  BY <1>1 DEF ToDo, Due
<1>5. \A p \in 1 .. MaxPages :
        \/ words[p] = 0 /\ Unwritten(p)' \subseteq Unwritten(p)
        \/ /\ words[p] = RecordWords /\ p = p_op.page /\ p_op.code \in Writes
           /\ Unwritten(p)' \subseteq Unwritten(p) \ {p_op.id}
  <2> TAKE p \in 1 .. MaxPages
  <2>1. Unwritten(p)' \subseteq Unwritten(p)
    BY <1>4 DEF Unwritten
  <2>2. CASE p = op.page /\ InSlot(op)
    <3>1. p_op.code \in Writes
      BY <2>2 DEF InSlot
    <3>2. \A j \in ToDo' : m_op_queue[j].code \in Writes => m_op_queue[j].id # p_op.id
      BY <1>4, <3>1, OwnId
    <3>3. p_op.id \notin Unwritten(p)'
      BY <3>2 DEF Unwritten
    <3> QED
      BY <2>1, <2>2, <3>1, <3>3
  <2>3. CASE ~(p = op.page /\ InSlot(op))
    BY <2>1, <2>3
  <2> QED
    BY <2>2, <2>3
<1>6. \/ m_chunk_queue' = m_chunk_queue /\ Holding' \subseteq Holding
      \/ ChunkTaken /\ HasChunk(p_op) /\ Holding' \subseteq Holding \ {p_op.id}
  <2>1. Holding' \subseteq Holding
    BY <1>4 DEF Holding
  <2>2. ASSUME HasChunk(op) PROVE p_op.id \notin Holding'
    <3>1. p_op.code \in Writes
      BY <2>2 DEF HasChunk, Writes
    <3>2. \A j \in ToDo' : HasChunk(m_op_queue[j]) => m_op_queue[j].id # p_op.id
      BY <1>4, <3>1, OwnId DEF HasChunk, Writes
    <3> QED
      BY <3>2 DEF Holding
  <2> QED
    BY <2>1, <2>2
<1>7. AccountsOK'
  <2>1. turn # "event"
    BY DEF Due
  <2> QED
    BY <1>5, <1>6, <2>1, AccountsKept
<1>8. QueueOK'
  BY Still DEF Running, QueueOK, WriteOK, AtStart
<1>9. HeadOK'
  <2>1. \A p \in 1 .. MaxPages :
          m_pages[p].write_offset =
            OffsetOf(IF op.page = p /\ InSlot(op) THEN Top(p + 1) ELSE Top(p + 1) + 1)
    BY DEF Running, HeadOK
  <2>2. \A p \in 1 .. MaxPages : m_pages[p].write_offset \in Nat
    BY Sizes DEF PagesOK, PageRec
  <2>3. \A p \in 1 .. MaxPages : m_pages'[p].write_offset = OffsetOf(Top(p + 1)' + 1)
    <3> TAKE p \in 1 .. MaxPages
    <3>1. m_pages'[p].write_offset = m_pages[p].write_offset + words[p]
      BY DEF StillOK
    <3>2. Top(p + 1)' = Top(p + 1) /\ Top(p + 1) \in Nat
      BY PageFacts, PageIsData DEF Top, IInv
    <3>3. CASE p = op.page /\ InSlot(op)
      <4>1. PICK k \in Nat : k = Top(p + 1) /\ k >= 1
        BY <3>2, <3>3 DEF Home
      <4>2. OffsetOf(k + 1) = OffsetOf(k) + RecordWords
        BY <4>1, Offset
      <4> QED
        BY <2>1, <3>1, <3>2, <3>3, <4>1, <4>2
    <3>4. CASE ~(p = op.page /\ InSlot(op))
      BY <2>1, <2>2, <3>1, <3>2, <3>4
    <3> QED
      BY <3>3, <3>4
  <2>4. Ended(op)'
    BY Still DEF Ended, Truthful, Due
  <2>5. ~InSlot(op)'
    BY DEF InSlot
  <2> QED
    BY <1>3, <2>3, <2>4, <2>5 DEF HeadOK, Executing
<1> QED
  BY <1>2, <1>3, <1>7, <1>8, <1>9 DEF IInv, Running

----------------------------------------------------------------------------
\* write_execute

LEMMA CanGc ==
  ASSUME NEW r \in PageRec, NEW x, x = [r EXCEPT !.can_gc = TRUE]
  PROVE  /\ x \in PageRec /\ x.p_addr = r.p_addr /\ x.page_type = r.page_type
         /\ x.records_open = r.records_open /\ x.write_offset = r.write_offset
         /\ x.words_reserved = r.words_reserved
<1>1. PICK b \in BOOLEAN : b = TRUE
  OBVIOUS
<1>2. x = [r EXCEPT !.can_gc = b]
  BY <1>1
<1> QED
  BY <1>2 DEF PageRec

LEMMA SamePages ==
  ASSUME PagesOK, \/ m_pages' = m_pages
                  \/ \E q \in 1 .. MaxPages : m_pages' = [m_pages EXCEPT ![q].can_gc = TRUE]
  PROVE  StillOK(NoWords)
<1>1. \A p \in 1 .. MaxPages : NoWords[p] = 0
  BY DEF NoWords
<1>2. /\ m_pages \in [1 .. MaxPages -> PageRec]
      /\ \A p \in 1 .. MaxPages :
           m_pages[p].write_offset \in Nat /\ m_pages[p].words_reserved \in Nat
  <2>1. m_pages \in [1 .. MaxPages -> PageRec]
    BY DEF PagesOK
  <2>2. \A r \in PageRec : r.write_offset \in Nat /\ r.words_reserved \in Nat
    BY Sizes DEF PageRec
  <2> QED
    BY <2>1, <2>2
<1>3. /\ m_pages' \in [1 .. MaxPages -> PageRec]
      /\ \A p \in 1 .. MaxPages :
           /\ m_pages'[p].p_addr = m_pages[p].p_addr
           /\ m_pages'[p].page_type = m_pages[p].page_type
           /\ m_pages'[p].records_open = m_pages[p].records_open
           /\ m_pages'[p].write_offset = m_pages[p].write_offset
           /\ m_pages'[p].words_reserved = m_pages[p].words_reserved
  <2>1. CASE m_pages' = m_pages
    BY <1>2, <2>1
  <2>2. CASE \E q \in 1 .. MaxPages : m_pages' = [m_pages EXCEPT ![q].can_gc = TRUE]
    <3>1. PICK q \in 1 .. MaxPages : m_pages' = [m_pages EXCEPT ![q].can_gc = TRUE]
      BY <2>2
    <3>2. PICK x : x = [m_pages[q] EXCEPT !.can_gc = TRUE]
      OBVIOUS
    <3>3. m_pages[q] \in PageRec
      BY <1>2
    <3>4. m_pages' = [m_pages EXCEPT ![q] = x]
      BY <3>1, <3>2
    <3>5. /\ x \in PageRec /\ x.p_addr = m_pages[q].p_addr
          /\ x.page_type = m_pages[q].page_type /\ x.records_open = m_pages[q].records_open
          /\ x.write_offset = m_pages[q].write_offset
          /\ x.words_reserved = m_pages[q].words_reserved
      BY <3>2, <3>3, CanGc
    <3>6. \A p \in 1 .. MaxPages : m_pages'[p] = IF p = q THEN x ELSE m_pages[p]
      BY <1>2, <3>4
    <3> QED
      BY <1>2, <3>4, <3>5, <3>6
  <2> QED
    BY <2>1, <2>2
<1> QED
  BY <1>1, <1>2, <1>3 DEF StillOK

LEMMA HereIs ==
  ASSUME IInv, PagesOK, Running, m_op_queue # <<>>, NEW op, op = p_op,
         InSlot(op) => Top(Home(op)) > 0
  PROVE  /\ Here = Home(op)
         /\ HereSlot = IF InSlot(op) THEN Top(Home(op)) ELSE Top(Home(op)) + 1
<1>1. op.page \in 1 .. MaxPages /\ Top(Home(op)) \in Nat
  BY HomeFacts
<1>2. Here = Home(op)
  BY <1>1 DEF Here, Home, PagesOK
<1>3. PICK k \in Nat : k = (IF InSlot(op) THEN Top(Home(op)) ELSE Top(Home(op)) + 1) /\ k >= 1
  BY <1>1
<1>4. m_pages[op.page].write_offset = OffsetOf(k)
  BY <1>1, <1>3 DEF Running, HeadOK, Home
<1>5. SlotAt(OffsetOf(k)) = k
  BY <1>3, Offset
<1> QED
  BY <1>2, <1>3, <1>4, <1>5 DEF HereSlot

\* What a search for an identifier finds.
LEMMA SearchById ==
  ASSUME IInv, PagesOK, NEW id
  PROVE  /\ FoundById(id) # {} =>
              LET f == First(FoundById(id))
              IN  /\ f[1] \in 1 .. MaxPages /\ f[2] \in Valid(f[1] + 1)
                  /\ m_pages[f[1]].p_addr = f[1] + 1 /\ Rec(f[1] + 1, f[2]).id = id
         /\ FoundById(id) = {} => Fresh(id)
<1>1. DOMAIN m_pages = 1 .. MaxPages /\ \A p \in 1 .. MaxPages : m_pages[p].p_addr = p + 1
  BY DEF PagesOK
<1>2. \A a \in Data : ValidOn(flash[a]) = Valid(a) /\ Valid(a) \subseteq Nat
  BY PageFacts, NoHoles DEF IInv, Valid
<1>3. \A p \in 1 .. MaxPages : ValidOn(flash[m_pages[p].p_addr]) = Valid(p + 1)
  BY <1>1, <1>2, PageIsData
<1>4. FoundById(id) \subseteq Nat \X Nat
  BY <1>1, <1>2, <1>3, PageIsData DEF FoundById
<1>5. \A f \in FoundById(id) :
        /\ f[1] \in 1 .. MaxPages /\ f[2] \in Valid(f[1] + 1)
        /\ m_pages[f[1]].p_addr = f[1] + 1 /\ Rec(f[1] + 1, f[2]).id = id
  BY <1>1, <1>3 DEF FoundById, Rec
<1>6. ASSUME FoundById(id) # {}
      PROVE  First(FoundById(id)) \in FoundById(id)
  BY <1>4, <1>6, FirstIn
<1>7. ASSUME FoundById(id) = {}, NEW a \in Data, NEW i \in Valid(a), Rec(a, i).id = id
      PROVE  FALSE
  <2>1. PICK p \in 1 .. MaxPages : p + 1 = a
    <3>1. a - 1 \in 1 .. MaxPages /\ (a - 1) + 1 = a
      BY DataIsAddr
    <3> QED
      BY <3>1
  <2>2. <<p, i>> \in {p} \X ValidOn(flash[m_pages[p].p_addr])
    BY <1>3, <1>7, <2>1
  <2>3. flash[m_pages[p].p_addr].recs[i].id = id
    BY <1>1, <1>7, <2>1 DEF Rec
  <2>4. <<p, i>> \in FoundById(id)
    BY <1>1, <2>2, <2>3 DEF FoundById
  <2> QED
    BY <1>7, <2>4
<1> QED
  BY <1>5, <1>6, <1>7 DEF Fresh

\* The parts of a write_execute that asks for a store.
LEMMA WriteAsks ==
  ASSUME IInv, write_execute, turn = "ok", NEW was, was = p_op, NEW kind, NEW v, NEW step,
         InSlot(was) => Top(Home(was)) > 0,
         Store(kind, Here, HereSlot, v), StepTo(step),
         step \in {"RECORD_ID", "CHUNKS", "HEADER_FINALIZE", "FLAG_DIRTY", "DONE"},
         NEW op, op = [was EXCEPT !.step = step],
         NEW h, h = Home(was),
         NEW i, i = IF InSlot(was) THEN Top(Home(was)) ELSE Top(Home(was)) + 1
  PROVE  /\ PagesOK /\ IdsOK /\ Running /\ Due /\ m_op_queue # <<>>
         /\ UNCHANGED <<flash, m_flags, m_latest_rec_id, m_swap_page, m_gc, reader, calls, tok>>
         /\ op \in OpType /\ op.step = step /\ Goes(op) /\ SameOp(op, was) /\ ~AtStart(op)
         /\ turn' = "none" /\ tok' = NoTok
         /\ Asks(kind, h, i, v)'
<1>1. Due /\ PagesOK /\ IdsOK /\ (Starting \/ Running) /\ m_op_queue # <<>> /\ p_op \in OpType
  BY TurnOk
<1>2. Running /\ was.code \in {"write", "update"}
  BY <1>1 DEF Starting, write_execute
<1>3. UNCHANGED <<flash, m_flags, m_latest_rec_id, m_swap_page, m_gc, reader, calls, tok>>
  BY DEF write_execute, env
<1>4. op.step = step /\ SameOp(op, was) /\ op \in OpType
  <2>1. was \in OpType
    BY <1>1
  <2> QED
    BY <2>1 DEF SameOp, OpType
<1>5. ~AtStart(op)
  BY <1>2, <1>4 DEF AtStart, SameOp
<1>6. SetOp(op)
  BY DEF StepTo
<1>7. m_op_queue \in Seq(OpType) /\ Len(m_op_queue) >= 1
  BY TurnOk
<1>8. Goes(op)
  BY <1>4, <1>6, <1>7, SetOpIn DEF Goes, p_op
<1>9. turn' = "none" /\ request' = [kind |-> kind, addr |-> Here, slot |-> HereSlot,
                                    page |-> Put(flash[Here], HereSlot, v)]
  BY DEF Store, Issue
<1>10. Here = h /\ HereSlot = i
  BY <1>1, <1>2, HereIs
<1>11. request' = [kind |-> kind, addr |-> h, slot |-> i, page |-> Put(flash'[h], i, v)]
  BY <1>3, <1>9, <1>10
<1>12. tok' = NoTok
  BY <1>1, <1>2, <1>3 DEF Running, HeadOK
<1> QED
  BY <1>1, <1>2, <1>3, <1>4, <1>5, <1>8, <1>9, <1>11, <1>12 DEF Asks

\* A multiple update of the chunk queue's fields.
LEMMA ChunkSet ==
  ASSUME NEW r, NEW c, m_chunk_queue' = [m_chunk_queue EXCEPT !.rp = r, !.count = c]
  PROVE  /\ m_chunk_queue'.rp = r /\ m_chunk_queue'.count = c
         /\ m_chunk_queue'.chunk = m_chunk_queue.chunk
OBVIOUS

\* What holds of a slot that is begun when it is stored to again.
LEMMA FillKept ==
  ASSUME NEW was, NEW op, SameOp(op, was), Filling(was), flash' = flash, desc' = desc,
         NEW kind, NEW h, NEW i, NEW v, h = Home(was), i = Top(Home(was)), Asks(kind, h, i, v)'
  PROVE  /\ Begins(op)' /\ Fresh(op.id)' /\ OldThere(op)'
         /\ Asks(kind, Home(op), Top(Home(op)), v)'
<1>1. Begins(was) /\ Fresh(was.id) /\ OldThere(was)
  BY DEF Filling
<1>2. Begins(op)'
  BY <1>1 DEF Begins, New, Home, Rec, Top, SameOp
<1>3. Fresh(op.id)'
  BY <1>1, Still DEF SameOp
<1>4. OldThere(op)'
  BY <1>1 DEF OldThere, Valid, Rec, SameOp
<1>5. Asks(kind, Home(op), Top(Home(op)), v)'
  BY DEF Asks, Home, Top, SameOp
<1> QED
  BY <1>2, <1>3, <1>4, <1>5

LEMMA FillsOn ==
  ASSUME NEW was, NEW op, SameOp(op, was), was.code \in Writes, Filling(was), desc' = desc,
         UNCHANGED <<flash, m_flags, m_latest_rec_id, m_swap_page, m_gc, reader, calls, tok>>,
         op.step \in {"CHUNKS", "HEADER_FINALIZE"}, turn' = "none",
         NEW kind \in {"id", "chunk"}, NEW h, NEW i, NEW v \in SlotType,
         v.st = "begun", v.id = was.id, h = Home(was), i = Top(Home(was)), Asks(kind, h, i, v)'
  PROVE  Storing(op)'
<1>1. /\ Begins(op)' /\ Fresh(op.id)' /\ OldThere(op)'
      /\ Asks(kind, Home(op), Top(Home(op)), v)'
  BY FillKept
<1> QED
  BY <1>1 DEF Storing, InFlight, SameOp

LEMMA BeginStep ==
  ASSUME IInv, write_execute, turn = "ok", NEW step \in {"HEADER_BEGIN", "FIND_RECORD"},
         WriteBegin(step), NEW was, was = p_op, OldThere(was)'
  PROVE  IInv'
<1>1. Due /\ PagesOK /\ IdsOK /\ (Starting \/ Running) /\ m_op_queue # <<>>
  BY TurnOk
<1>2. Running /\ was.code \in Writes /\ was.step = step
  BY <1>1 DEF Starting, write_execute, WriteBegin, Writes
<1>3. Executing(was)
  BY <1>1, <1>2 DEF Running, HeadOK
<1>4. AtStart(was) /\ Fresh(was.id)
  <2>1. AtStart(was)
    BY <1>1, <1>2, <1>3 DEF Due, Executing, Starts, Opening, Filling, Storing, Sealing, Sealed,
       Replacing, Replaced, Marking, Marked, Sweeping, Clearing, Ended, InFlight
  <2>2. WriteOK(was)
    BY <1>1, <1>2, HomeFacts
  <2> QED
    BY <2>1, <2>2 DEF WriteOK
<1>5. ~InSlot(was)
  BY <1>2 DEF InSlot
<1>6. PICK op, h, i : /\ op = [was EXCEPT !.step = "RECORD_ID"]
                      /\ h = Home(was) /\ i = Top(Home(was)) + 1
  OBVIOUS
<1>7. /\ UNCHANGED <<flash, m_flags, m_latest_rec_id, m_swap_page, m_gc, reader, calls, tok>>
      /\ op \in OpType /\ op.step = "RECORD_ID" /\ Goes(op) /\ SameOp(op, was) /\ ~AtStart(op)
      /\ turn' = "none" /\ tok' = NoTok
      /\ Asks("begin", h, i, Begun)'
  <2>1. Store("begin", Here, HereSlot, Begun) /\ StepTo("RECORD_ID")
    BY DEF WriteBegin
  <2>2. i = IF InSlot(was) THEN Top(Home(was)) ELSE Top(Home(was)) + 1
    BY <1>5, <1>6
  <2> QED
    BY <1>5, <1>6, <2>1, <2>2, WriteAsks
<1>8. m_pages' = m_pages /\ m_chunk_queue' = m_chunk_queue
  BY DEF WriteBegin
<1>9. Opening(op)'
  <2>1. Fresh(op.id)'
    BY <1>4, <1>7, Still DEF SameOp
  <2>2. OldThere(op)'
    BY <1>7 DEF SameOp, OldThere
  <2>3. Asks("begin", Home(op), Top(Home(op)) + 1, Begun)'
    BY <1>6, <1>7 DEF Asks, Home, Top, SameOp
  <2> QED
    BY <1>2, <1>7, <2>1, <2>2, <2>3 DEF Opening, InFlight, SameOp
<1>10. HasChunk(op) => HasChunk(was)
  BY <1>2 DEF HasChunk, Writes
<1>11. ~InSlot(op)'
  BY <1>7 DEF InSlot
<1>12. StillOK(NoWords)
  BY <1>1, <1>8, SamePages
<1> QED
  BY <1>1, <1>2, <1>5, <1>7, <1>8, <1>9, <1>10, <1>11, <1>12, GoesOn DEF Executing

\* The slot that is begun is stored to again.
LEMMA IntoStep ==
  ASSUME IInv, write_execute, turn = "ok", NEW was, was = p_op,
         was.step \in {"RECORD_ID", "CHUNKS", "HEADER_FINALIZE"}
  PROVE  /\ Due /\ PagesOK /\ IdsOK /\ Running /\ m_op_queue # <<>>
         /\ Filling(was) /\ InSlot(was) /\ Top(Home(was)) > 0 /\ Top(Home(was)) \in Nat
         /\ was \in OpType /\ was.code \in Writes
         /\ Was = New(was) /\ New(was) \in SlotType /\ New(was).st = "begun"
<1>1. Due /\ PagesOK /\ IdsOK /\ (Starting \/ Running) /\ m_op_queue # <<>> /\ was \in OpType
  BY TurnOk
<1>2. Running /\ was.code \in Writes
  BY <1>1 DEF Starting, write_execute, Writes
<1>3. Executing(was)
  BY <1>1, <1>2 DEF Running, HeadOK
<1>4. Filling(was)
  BY <1>1, <1>2, <1>3 DEF Due, Executing, Starts, AtStart, Opening, Storing, Sealing, Sealed,
     Replacing, Replaced, Marking, Marked, Sweeping, Clearing, Ended, InFlight
<1>5. InSlot(was) /\ Top(Home(was)) > 0
  BY <1>2, <1>4 DEF InSlot, Filling, Begins, Due
<1>6. Home(was) \in Data /\ Top(Home(was)) \in Nat
  BY <1>1, <1>2, HomeFacts
<1>7. Here = Home(was) /\ HereSlot = Top(Home(was))
  BY <1>1, <1>2, <1>5, HereIs
<1>8. Was = New(was)
  BY <1>7 DEF Was, New, Rec
<1>9. New(was) \in SlotType /\ New(was).st = "begun"
  BY <1>4, <1>5, <1>6, PageFacts DEF Filling, Begins, New, IInv
<1> QED
  BY <1>1, <1>2, <1>4, <1>5, <1>6, <1>8, <1>9

LEMMA IdStep ==
  ASSUME IInv, write_execute, turn = "ok", WriteId, desc' = desc
  PROVE  IInv'
<1>1. PICK was : was = p_op
  OBVIOUS
<1>2. was.step = "RECORD_ID"
  BY <1>1 DEF WriteId
<1>3. /\ Due /\ PagesOK /\ IdsOK /\ Running /\ m_op_queue # <<>>
      /\ Filling(was) /\ InSlot(was) /\ Top(Home(was)) > 0 /\ was \in OpType
      /\ was.code \in Writes /\ Was = New(was) /\ New(was) \in SlotType /\ New(was).st = "begun"
  BY <1>1, <1>2, IntoStep
<1>4. PICK op, h, i, v : /\ op = [was EXCEPT !.step = "CHUNKS"]
                         /\ h = Home(was) /\ i = Top(Home(was)) /\ v = [Was EXCEPT !.id = was.id]
  OBVIOUS
<1>5. v \in SlotType /\ v.st = "begun" /\ v.id = was.id
  <2>1. was.id \in Ids
    BY <1>3 DEF OpType
  <2> QED
    BY <1>3, <1>4, <2>1 DEF SlotType
<1>6. /\ UNCHANGED <<flash, m_flags, m_latest_rec_id, m_swap_page, m_gc, reader, calls, tok>>
      /\ op \in OpType /\ op.step = "CHUNKS" /\ Goes(op) /\ SameOp(op, was) /\ ~AtStart(op)
      /\ turn' = "none" /\ tok' = NoTok
      /\ Asks("id", h, i, v)'
  <2>1. Store("id", Here, HereSlot, v) /\ StepTo("CHUNKS")
    BY <1>1, <1>4 DEF WriteId
  <2> QED
    BY <1>1, <1>3, <1>4, <2>1, WriteAsks
<1>7. m_pages' = m_pages /\ m_chunk_queue' = m_chunk_queue
  BY DEF WriteId
<1>8. Storing(op)'
  BY <1>3, <1>4, <1>5, <1>6, <1>7, FillsOn
<1>9. HasChunk(op) => HasChunk(was)
  BY <1>2, <1>3 DEF HasChunk, Writes
<1>10. InSlot(op)'
  BY <1>3, <1>6 DEF InSlot, SameOp
<1>11. StillOK(NoWords)
  BY <1>3, <1>7, SamePages
<1> QED
  BY <1>1, <1>3, <1>6, <1>7, <1>8, <1>9, <1>10, <1>11, GoesOn DEF Executing

LEMMA ChunkStep ==
  ASSUME IInv, write_execute, turn = "ok", WriteChunk, desc' = desc
  PROVE  IInv'
<1>1. PICK was : was = p_op
  OBVIOUS
<1>2. was.step = "CHUNKS"
  BY <1>1 DEF WriteChunk
<1>3. /\ Due /\ PagesOK /\ IdsOK /\ Running /\ m_op_queue # <<>>
      /\ Filling(was) /\ InSlot(was) /\ Top(Home(was)) > 0 /\ was \in OpType
      /\ was.code \in Writes /\ Was = New(was) /\ New(was) \in SlotType /\ New(was).st = "begun"
  BY <1>1, <1>2, IntoStep
<1>4. PICK d : d = IF m_chunk_queue.rp < ChunkQueueSize
                   THEN m_chunk_queue.chunk[m_chunk_queue.rp] ELSE Torn
  OBVIOUS
<1>5. PICK op, h, i, v : /\ op = [was EXCEPT !.step = "HEADER_FINALIZE"]
                         /\ h = Home(was) /\ i = Top(Home(was)) /\ v = [Was EXCEPT !.data = d]
  OBVIOUS
<1>6. d \in Ids
  <2>1. /\ m_chunk_queue.rp \in Nat /\ m_chunk_queue.chunk \in [0 .. ChunkQueueSize - 1 -> Ids]
    BY <1>3 DEF Running, AccountsOK
  <2>2. m_chunk_queue.rp < ChunkQueueSize => m_chunk_queue.rp \in 0 .. ChunkQueueSize - 1
    BY <2>1, Sizes
  <2>3. Torn \in Ids
    BY Sizes DEF Torn, Ids
  <2> QED
    BY <1>4, <2>1, <2>2, <2>3
<1>7. v \in SlotType /\ v.st = "begun" /\ v.id = was.id
  <2>1. New(was).id = was.id
    BY <1>2, <1>3 DEF Filling
  <2> QED
    BY <1>3, <1>5, <1>6, <2>1 DEF SlotType
<1>8. /\ UNCHANGED <<flash, m_flags, m_latest_rec_id, m_swap_page, m_gc, reader, calls, tok>>
      /\ op \in OpType /\ op.step = "HEADER_FINALIZE" /\ Goes(op) /\ SameOp(op, was)
      /\ ~AtStart(op) /\ turn' = "none" /\ tok' = NoTok
      /\ Asks("chunk", h, i, v)'
  <2>1. Store("chunk", Here, HereSlot, v) /\ StepTo("HEADER_FINALIZE")
    BY <1>1, <1>4, <1>5 DEF WriteChunk
  <2> QED
    BY <1>1, <1>3, <1>5, <2>1, WriteAsks
<1>9. m_pages' = m_pages
  BY DEF WriteChunk
<1>10. ChunkTaken
  <2>1. PICK r : r = (m_chunk_queue.rp + 1) % ChunkQueueSize
    OBVIOUS
  <2>2. r \in Nat
    BY <1>3, <2>1, Sizes DEF Running, AccountsOK
  <2>3. m_chunk_queue' = [m_chunk_queue EXCEPT !.rp = r, !.count = m_chunk_queue.count - 1]
    BY <2>1 DEF WriteChunk
  <2> QED
    BY <1>3, <2>2, <2>3, ChunkSet DEF ChunkTaken
<1>11. Storing(op)'
  BY <1>3, <1>5, <1>7, <1>8, <1>9, FillsOn
<1>12. HasChunk(was) /\ ~HasChunk(op)
  BY <1>2, <1>3, <1>8 DEF HasChunk, Writes
<1>13. InSlot(op)'
  BY <1>3, <1>8 DEF InSlot, SameOp
<1>14. StillOK(NoWords)
  BY <1>3, <1>9, SamePages
<1> QED
  BY <1>1, <1>3, <1>8, <1>10, <1>11, <1>12, <1>13, <1>14, GoesOn DEF Executing

LEMMA FinalizeStep ==
  ASSUME IInv, write_execute, turn = "ok", WriteFinalize, desc' = desc
  PROVE  IInv'
<1>1. PICK was : was = p_op
  OBVIOUS
<1>2. was.step = "HEADER_FINALIZE"
  BY <1>1 DEF WriteFinalize
<1>3. /\ Due /\ PagesOK /\ IdsOK /\ Running /\ m_op_queue # <<>>
      /\ Filling(was) /\ InSlot(was) /\ Top(Home(was)) > 0 /\ was \in OpType
      /\ was.code \in Writes /\ Was = New(was) /\ New(was) \in SlotType /\ New(was).st = "begun"
  BY <1>1, <1>2, IntoStep
<1>4. PICK step : step = IF was.code = "update" THEN "FLAG_DIRTY" ELSE "DONE"
  OBVIOUS
<1>5. PICK op, h, i, v : /\ op = [was EXCEPT !.step = step]
                         /\ h = Home(was) /\ i = Top(Home(was))
                         /\ v = [Was EXCEPT !.st = "valid", !.file = was.file]
  OBVIOUS
<1>6. v \in SlotType /\ v.st = "valid" /\ v.id = was.id
  <2>1. New(was).id = was.id /\ was.file \in Files \cup {0}
    BY <1>2, <1>3 DEF Filling, OpType
  <2> QED
    BY <1>3, <1>5, <2>1 DEF SlotType
<1>7. /\ UNCHANGED <<flash, m_flags, m_latest_rec_id, m_swap_page, m_gc, reader, calls, tok>>
      /\ op \in OpType /\ op.step = step /\ Goes(op) /\ SameOp(op, was)
      /\ ~AtStart(op) /\ turn' = "none" /\ tok' = NoTok
      /\ Asks("finalize", h, i, v)'
  <2>1. Store("finalize", Here, HereSlot, v) /\ StepTo(step)
    BY <1>1, <1>4, <1>5 DEF WriteFinalize
  <2>2. step \in {"RECORD_ID", "CHUNKS", "HEADER_FINALIZE", "FLAG_DIRTY", "DONE"}
    BY <1>4
  <2> QED
    BY <1>1, <1>3, <1>5, <2>1, <2>2, WriteAsks
<1>8. m_pages' = m_pages /\ m_chunk_queue' = m_chunk_queue
  BY DEF WriteFinalize
<1>9. Sealing(op)'
  <2>1. /\ SameOp(op, was) /\ Filling(was) /\ flash' = flash /\ desc' = desc
        /\ h = Home(was) /\ i = Top(Home(was)) /\ Asks("finalize", h, i, v)'
    BY <1>3, <1>5, <1>7
  <2>2. Begins(op)' /\ Fresh(op.id)' /\ OldThere(op)' /\ Asks("finalize", Home(op), Top(Home(op)), v)'
    BY <2>1, FillKept
  <2> QED
    BY <1>3, <1>4, <1>6, <1>7, <2>2 DEF Sealing, InFlight, SameOp
<1>10. ~HasChunk(op)
  BY <1>4, <1>7 DEF HasChunk
<1>11. InSlot(op)'
  BY <1>3, <1>4, <1>7 DEF InSlot, SameOp
<1>12. StillOK(NoWords)
  BY <1>3, <1>8, SamePages
<1> QED
  BY <1>1, <1>3, <1>7, <1>8, <1>9, <1>10, <1>11, <1>12, GoesOn DEF Executing


LEMMA StepGoes ==
  ASSUME IInv, turn = "ok", NEW was, was = p_op, NEW step, StepTo(step),
         step \in {"RECORD_ID", "CHUNKS", "HEADER_FINALIZE", "FLAG_DIRTY", "DONE", "DEL_DONE"},
         NEW op, op = [was EXCEPT !.step = step]
  PROVE  op \in OpType /\ op.step = step /\ Goes(op) /\ SameOp(op, was)
<1>1. op.step = step /\ SameOp(op, was) /\ op \in OpType
  <2>1. was \in OpType
    BY TurnOk
  <2> QED
    BY <2>1 DEF SameOp, OpType
<1>2. SetOp(op)
  BY DEF StepTo
<1>3. m_op_queue \in Seq(OpType) /\ Len(m_op_queue) >= 1
  BY TurnOk
<1> QED
  BY <1>1, <1>2, <1>3, SetOpIn DEF Goes, p_op

LEMMA DeleteOldStep ==
  ASSUME IInv, write_execute, turn = "ok", DeleteOld, desc' = desc
  PROVE  IInv'
<1>1. PICK was, op : was = p_op /\ op = [was EXCEPT !.step = "DONE"]
  OBVIOUS
<1>2. Due /\ PagesOK /\ IdsOK /\ (Starting \/ Running) /\ m_op_queue # <<>>
  BY TurnOk
<1>3. Running /\ was.code \in Writes /\ was.step = "FLAG_DIRTY"
  BY <1>1, <1>2 DEF Starting, write_execute, DeleteOld, Writes
<1>4. Sealed(was)
  <2>1. Executing(was)
    BY <1>1, <1>2, <1>3 DEF Running, HeadOK
  <2> QED
    BY <1>2, <1>3, <2>1 DEF Due, Executing, Starts, AtStart, Opening, Storing, Sealing, Filling,
       Replacing, Replaced, Marking, Marked, Sweeping, Clearing, Ended, InFlight
<1>5. UNCHANGED <<flash, m_flags, m_latest_rec_id, m_swap_page, m_gc, reader, calls, tok>>
  BY DEF write_execute, env
<1>6. op \in OpType /\ op.step = "DONE" /\ Goes(op) /\ SameOp(op, was)
  BY <1>1, StepGoes DEF DeleteOld
<1>7. ~AtStart(op) /\ tok' = NoTok
  <2>1. tok = NoTok
    BY <1>1, <1>2, <1>3 DEF Running, HeadOK, Writes
  <2> QED
    BY <1>3, <1>5, <1>6, <2>1 DEF AtStart, SameOp, Writes
<1>8. /\ desc.page \in 1 .. MaxPages /\ OldThere(was) /\ Stands(was) /\ was.code = "update"
  BY <1>4 DEF Sealed, OldThere
<1>9. /\ m_pages' = [m_pages EXCEPT ![desc.page].can_gc = TRUE] /\ turn' = "none"
      /\ Store("dirty", desc.p_addr, desc.slot, [flash[desc.p_addr].recs[desc.slot] EXCEPT !.st = "dirty"])
      /\ m_chunk_queue' = m_chunk_queue
  BY DEF DeleteOld, FlagDirty, Store, Issue
<1>10. StillOK(NoWords)
  BY <1>2, <1>8, <1>9, SamePages
<1>11. Replacing(op)'
  <2>1. Stands(op)'
    BY <1>5, <1>6, <1>8 DEF Stands, SameOp, Home, New, Rec, Top
  <2>2. OldThere(op)'
    BY <1>5, <1>6, <1>8 DEF OldThere, SameOp, Valid, Rec
  <2>3. Asks("dirty", desc.p_addr, desc.slot, Dirtied(desc.p_addr, desc.slot))'
    BY <1>5, <1>9 DEF Store, Issue, Asks, Dirtied, Rec
  <2> QED
    BY <1>6, <1>8, <1>9, <2>1, <2>2, <2>3 DEF Replacing, InFlight, SameOp
<1>12. ~HasChunk(op)
  BY <1>6 DEF HasChunk
<1>13. InSlot(was) /\ InSlot(op)'
  BY <1>2, <1>3, <1>6, <1>9 DEF InSlot, SameOp, Due
<1> QED
  BY <1>1, <1>2, <1>3, <1>5, <1>6, <1>7, <1>9, <1>10, <1>11, <1>12, <1>13, GoesOn DEF Executing

LEMMA WriteDoneStep ==
  ASSUME IInv, write_execute, turn = "ok", WriteDone
  PROVE  IInv'
<1>1. PICK op : op = p_op
  OBVIOUS
<1>2. Due /\ PagesOK /\ IdsOK /\ (Starting \/ Running) /\ m_op_queue # <<>>
  BY TurnOk
<1>3. Running /\ op.code \in Writes /\ op.step = "DONE"
  BY <1>1, <1>2 DEF Starting, write_execute, WriteDone, Writes
<1>4. Replaced(op)
  <2>1. Executing(op)
    BY <1>1, <1>2, <1>3 DEF Running, HeadOK
  <2> QED
    BY <1>2, <1>3, <2>1 DEF Due, Executing, Starts, AtStart, Opening, Storing, Sealing, Filling,
       Replacing, Sealed, Marking, Marked, Sweeping, Clearing, Ended, InFlight
<1>5. /\ UNCHANGED <<flash, m_flags, m_latest_rec_id, m_op_queue, m_swap_page, m_gc, request,
                     m_chunk_queue, reader, calls, tok>>
      /\ turn' = "event" /\ result' = "success"
  BY DEF write_execute, env, WriteDone, Completed
<1>6. tok' = NoTok /\ InSlot(op) /\ ~HasChunk(op)
  <2>1. tok = NoTok
    BY <1>1, <1>2, <1>3 DEF Running, HeadOK, Writes
  <2> QED
    BY <1>2, <1>3, <1>5, <2>1 DEF InSlot, HasChunk, Due
<1>7. Home(op) \in Data /\ Top(Home(op)) > 0 /\ op.page \in 1 .. MaxPages /\ op \in OpType
  BY <1>1, <1>2, <1>3, <1>4, HomeFacts DEF Replaced, Stands
<1>8. Truthful(op)
  <2>1. Top(Home(op)) \in Valid(Home(op)) /\ New(op).id = op.id
    BY <1>4, <1>7, PageFacts DEF Replaced, Stands, New, IInv
  <2>2. \E a \in Data : \E i \in Valid(a) : Rec(a, i).id = op.id
    BY <1>7, <2>1 DEF New
  <2>3. op.code = "update" => Fresh(op.old)
    BY <1>4 DEF Replaced
  <2> QED
    BY <1>3, <2>2, <2>3 DEF Truthful, Writes
<1> DEFINE words == [p \in 1 .. MaxPages |-> IF p = op.page THEN RecordWords ELSE 0]
<1>9. words \in [1 .. MaxPages -> Nat]
  BY Sizes
<1>10. \A p \in 1 .. MaxPages :
         words[p] = IF p = op.page /\ InSlot(op) THEN RecordWords ELSE 0
  BY <1>6
<1>11. StillOK(words)
  <2>1. m_pages' = [m_pages EXCEPT ![op.page].write_offset = @ + RecordWords,
                                   ![op.page].words_reserved = @ - RecordWords]
    BY <1>1 DEF WriteDone, page_offsets_update
  <2>2. m_pages \in [1 .. MaxPages -> PageRec]
    BY <1>2 DEF PagesOK
  <2>3. PICK q \in 1 .. MaxPages : q = op.page
    BY <1>7
  <2>4. PICK r \in PageRec : r = m_pages[q]
    BY <2>2, <2>3
  <2>5. /\ r.words_reserved \in 0 .. PageWords /\ r.words_reserved >= RecordWords
        /\ r.write_offset \in 0 .. PageWords /\ r.write_offset + r.words_reserved <= PageWords
    <3>1. r.words_reserved >= RecordWords
      BY <1>1, <1>2, <1>3, <2>3, <2>4, RoomAtHome DEF Due
    <3> QED
      BY <1>2, <2>3, <2>4, <3>1 DEF PagesOK, PageRec
  <2>6. PICK o, w : o = r.write_offset + RecordWords /\ w = r.words_reserved - RecordWords
    OBVIOUS
  <2>7. o \in 0 .. PageWords /\ w \in 0 .. PageWords
    BY <2>5, <2>6, Sizes
  <2>8. PICK x : x = [r EXCEPT !.write_offset = o, !.words_reserved = w]
    BY Zenon
  <2>9. /\ x \in PageRec /\ x.p_addr = r.p_addr /\ x.page_type = r.page_type
        /\ x.records_open = r.records_open /\ x.write_offset = o /\ x.words_reserved = w
    <3>1. r \in PageRec /\ o \in 0 .. PageWords /\ w \in 0 .. PageWords
      BY <2>4, <2>7
    <3> HIDE DEF words
    <3> QED
      BY <2>8, <3>1 DEF PageRec
  <2>10. m_pages' = [m_pages EXCEPT ![q] = x]
    BY <2>1, <2>2, <2>3, <2>4, <2>6, <2>8
  <2>11. /\ m_pages' \in [1 .. MaxPages -> PageRec]
         /\ \A p \in 1 .. MaxPages : m_pages'[p] = IF p = q THEN x ELSE m_pages[p]
    BY <2>2, <2>3, <2>9, <2>10
  <2>12. \A s \in PageRec : s.write_offset \in Nat /\ s.words_reserved \in Nat
    BY Sizes DEF PageRec
  <2>13. \A p \in 1 .. MaxPages :
           m_pages[p].write_offset \in Nat /\ m_pages[p].words_reserved \in Nat
    BY <2>2, <2>12
  <2>14. \A p \in 1 .. MaxPages : words[p] = IF p = q THEN RecordWords ELSE 0
    BY <2>3
  <2> HIDE DEF words
  <2> QED
    BY <2>4, <2>6, <2>9, <2>11, <2>13, <2>14 DEF StillOK
<1> HIDE DEF words
<1> QED
  BY <1>1, <1>2, <1>3, <1>5, <1>6, <1>7, <1>8, <1>9, <1>10, <1>11, EndsOp

LEMMA NotFoundStep ==
  ASSUME IInv, turn = "ok", NEW op, op = p_op, op.step \in {"FIND_RECORD", "DEL_RECORD"},
         op.code # "init",
         Failed("not_found"),
         UNCHANGED <<flash, m_flags, m_latest_rec_id, m_op_queue, m_pages, m_swap_page, m_gc,
                     reader, calls, tok>>
  PROVE  IInv'
<1>1. Due /\ PagesOK /\ IdsOK /\ (Starting \/ Running) /\ m_op_queue # <<>>
  BY TurnOk
<1>2. Running /\ Executing(op)
  BY <1>1 DEF Starting, Running, HeadOK
<1>3. Starts(op)
  BY <1>1, <1>2 DEF Due, Executing, Opening, Storing, Sealing, Filling, Replaced,
     Replacing, Sealed, Marking, Marked, Sweeping, Clearing, Ended, InFlight
<1>4. tok' = NoTok /\ ~InSlot(op)
  BY <1>3 DEF Starts, InSlot
<1>5. turn' = "event" /\ result' = "not_found" /\ request' = request
  BY DEF Failed
<1>6. \/ m_chunk_queue' = m_chunk_queue /\ ~HasChunk(op)
      \/ ChunkTaken /\ HasChunk(op)
  <2>1. CASE HasChunk(op)
    <3>1. PICK r : r = m_chunk_queue.rp + 1
      OBVIOUS
    <3>2. m_chunk_queue' = [m_chunk_queue EXCEPT !.rp = r, !.count = m_chunk_queue.count - 1]
      BY <2>1, <3>1 DEF Failed, chunk_queue_skip
    <3>3. r \in Nat
      BY <1>2, <3>1 DEF Running, AccountsOK
    <3> QED
      BY <2>1, <3>2, <3>3, ChunkSet DEF ChunkTaken
  <2>2. CASE ~HasChunk(op)
    BY <2>2 DEF Failed, chunk_queue_skip
  <2> QED
    BY <2>1, <2>2
<1>7. NoWords \in [1 .. MaxPages -> Nat] /\ StillOK(NoWords)
  BY <1>1, SamePages DEF NoWords
<1>8. \A p \in 1 .. MaxPages : NoWords[p] = IF p = op.page /\ InSlot(op) THEN RecordWords ELSE 0
  BY <1>4 DEF NoWords
<1> QED
  BY <1>1, <1>2, <1>4, <1>5, <1>6, <1>7, <1>8, EndsOp

LEMMA FindOldStep ==
  ASSUME IInv, write_execute, turn = "ok", FindOld
  PROVE  IInv'
<1>1. PICK was : was = p_op
  OBVIOUS
<1>2. Due /\ PagesOK /\ IdsOK /\ (Starting \/ Running) /\ m_op_queue # <<>>
  BY TurnOk
<1>3. was.code \in {"write", "update"}
  BY <1>1 DEF write_execute
<1>4. CASE /\ FoundById(p_op.old) # {} /\ desc' = DescOf(p_op.old, First(FoundById(p_op.old)))
           /\ WriteBegin("FIND_RECORD")
  <2>1. PICK f : f = First(FoundById(was.old))
    OBVIOUS
  <2>2. /\ f[1] \in 1 .. MaxPages /\ f[2] \in Valid(f[1] + 1)
        /\ m_pages[f[1]].p_addr = f[1] + 1 /\ Rec(f[1] + 1, f[2]).id = was.old
    BY <1>1, <1>2, <1>4, <2>1, SearchById
  <2>3. desc' = [record_id |-> was.old, p_addr |-> f[1] + 1, slot |-> f[2], page |-> f[1]]
    BY <1>1, <1>4, <2>1, <2>2 DEF DescOf
  <2>4. flash' = flash
    BY DEF write_execute
  <2>5. PICK p, i : p = f[1] /\ i = f[2]
    OBVIOUS
  <2>6. /\ p \in 1 .. MaxPages /\ i \in ValidSlots(flash'[p + 1])
        /\ flash'[p + 1].recs[i].id = was.old
    BY <2>2, <2>4, <2>5 DEF Valid, Rec
  <2>7. desc'.page = p /\ desc'.p_addr = p + 1 /\ desc'.slot = i
    BY <2>3, <2>5
  <2>8. OldThere(was)'
    BY <2>6, <2>7 DEF OldThere, Valid, Rec
  <2> QED
    BY <1>1, <1>4, <2>8, BeginStep
<1>5. CASE /\ p_op.step = "FIND_RECORD" /\ Failed("not_found")
           /\ UNCHANGED <<m_op_queue, m_pages, desc>>
  <2>1. UNCHANGED <<flash, m_flags, m_latest_rec_id, m_op_queue, m_pages, m_swap_page, m_gc,
                     reader, calls, tok>>
    BY <1>5 DEF write_execute, env
  <2> QED
    BY <1>1, <1>3, <1>5, <2>1, NotFoundStep
<1> QED
  BY <1>4, <1>5 DEF FindOld

LEMMA WriteStepKept ==
  ASSUME IInv, write_execute
  PROVE  IInv'
<1>1. Due /\ PagesOK /\ IdsOK /\ (Starting \/ Running) /\ m_op_queue # <<>>
  BY TurnOk DEF write_execute
<1>2. turn = "ok"
  BY <1>1 DEF Due
<1>3. \/ FindOld
      \/ /\ \/ WriteBegin("HEADER_BEGIN") \/ WriteId \/ WriteChunk
            \/ WriteFinalize \/ DeleteOld \/ WriteDone
         /\ desc' = desc
  BY <1>2 DEF write_execute
<1>4. CASE WriteBegin("HEADER_BEGIN") /\ desc' = desc
  <2>1. PICK was : was = p_op
    OBVIOUS
  <2>2. Executing(was) /\ was.step = "HEADER_BEGIN"
    BY <1>1, <1>4, <2>1 DEF Starting, write_execute, Running, HeadOK, WriteBegin
  <2>3. was.code # "update"
    BY <1>1, <2>2 DEF Due, Executing, Starts, AtStart, Opening, Storing, Sealing, Filling,
       Replaced, Replacing, Sealed, Marking, Marked, Sweeping, Clearing, Ended, InFlight
  <2>4. OldThere(was)'
    BY <2>3 DEF OldThere
  <2> QED
    BY <1>2, <1>4, <2>1, <2>4, BeginStep
<1> QED
  BY <1>2, <1>3, <1>4, FindOldStep, IdStep, ChunkStep, FinalizeStep, DeleteOldStep, WriteDoneStep
----------------------------------------------------------------------------
\* delete_execute

LEMMA DeleteTurn ==
  ASSUME IInv, delete_execute
  PROVE  /\ Due /\ turn = "ok" /\ PagesOK /\ IdsOK /\ Running /\ m_op_queue # <<>>
         /\ p_op \in OpType /\ p_op.code \in {"delete", "file_delete"}
         /\ Starts(p_op) \/ Marked(p_op) \/ Sweeping(p_op)
         /\ ~InSlot(p_op) /\ ~HasChunk(p_op)
         /\ UNCHANGED <<flash, m_flags, m_latest_rec_id, m_swap_page, m_gc, reader, calls>>
<1>1. Due /\ PagesOK /\ IdsOK /\ (Starting \/ Running) /\ m_op_queue # <<>> /\ p_op \in OpType
  BY TurnOk DEF delete_execute
<1>2. turn = "ok" /\ p_op.code \in {"delete", "file_delete"}
  BY <1>1 DEF Due, delete_execute
<1>3. Running
  BY <1>1, <1>2 DEF Starting
<1>4. Starts(p_op) \/ Marked(p_op) \/ Sweeping(p_op)
  <2>1. Executing(p_op)
    BY <1>1, <1>3 DEF Running, HeadOK
  <2> QED
    BY <1>1, <1>2, <2>1 DEF Due, Executing, Opening, Storing, Sealing, Filling, Replaced,
       Replacing, Sealed, Marking, Clearing, Ended, InFlight, Writes
<1>5. ~InSlot(p_op) /\ ~HasChunk(p_op)
  BY <1>2 DEF InSlot, HasChunk, Writes
<1>6. UNCHANGED <<flash, m_flags, m_latest_rec_id, m_swap_page, m_gc, reader, calls>>
  BY DEF delete_execute, env
<1> QED
  BY <1>1, <1>2, <1>3, <1>4, <1>5, <1>6

\* A deletion that ends without having failed.
LEMMA DeletionEnds ==
  ASSUME IInv, delete_execute, Completed, NEW op, op = p_op, Truthful(op), tok' = NoTok,
         m_op_queue' = m_op_queue, m_pages' = m_pages
  PROVE  IInv'
<1>1. /\ Due /\ turn = "ok" /\ PagesOK /\ IdsOK /\ Running /\ m_op_queue # <<>>
      /\ ~InSlot(op) /\ ~HasChunk(op)
      /\ UNCHANGED <<flash, m_flags, m_latest_rec_id, m_swap_page, m_gc, reader, calls>>
  BY DeleteTurn
<1>2. /\ turn' = "event" /\ result' = "success" /\ request' = request
      /\ m_chunk_queue' = m_chunk_queue
  BY DEF Completed
<1>3. NoWords \in [1 .. MaxPages -> Nat] /\ StillOK(NoWords)
  BY <1>1, SamePages DEF NoWords
<1>4. \A p \in 1 .. MaxPages : NoWords[p] = IF p = op.page /\ InSlot(op) THEN RecordWords ELSE 0
  BY <1>1 DEF NoWords
<1> QED
  BY <1>1, <1>2, <1>3, <1>4, EndsOp

LEMMA DeleteDoneStep ==
  ASSUME IInv, delete_execute, DeleteDone
  PROVE  IInv'
<1>1. PICK op : op = p_op
  OBVIOUS
<1>2. Marked(op)
  BY <1>1, DeleteTurn DEF DeleteDone, Starts, AtStart, Sweeping
<1>3. Truthful(op)
  BY <1>2 DEF Marked, Truthful, Writes
<1>4. tok' = NoTok
  BY <1>1, <1>2, DeleteTurn DEF DeleteDone, Marked, Running, HeadOK
<1> QED
  BY <1>1, <1>3, <1>4, DeletionEnds DEF DeleteDone

LEMMA DeleteRecordStep ==
  ASSUME IInv, delete_execute, DeleteRecord
  PROVE  IInv'
<1>1. PICK was, op : was = p_op /\ op = [was EXCEPT !.step = "DEL_DONE"]
  OBVIOUS
<1>2. /\ Due /\ turn = "ok" /\ PagesOK /\ IdsOK /\ Running /\ m_op_queue # <<>>
      /\ was \in OpType /\ was.code \in {"delete", "file_delete"}
      /\ Starts(was) \/ Marked(was) \/ Sweeping(was)
      /\ ~InSlot(was) /\ ~HasChunk(was)
      /\ UNCHANGED <<flash, m_flags, m_latest_rec_id, m_swap_page, m_gc, reader, calls>>
  BY <1>1, DeleteTurn
<1>3. was.step = "DEL_RECORD" /\ tok' = tok
  BY <1>1 DEF DeleteRecord
<1>4. Starts(was) /\ was.code = "delete" /\ tok' = NoTok
  BY <1>2, <1>3 DEF Marked, Sweeping, Starts, AtStart
<1>5. CASE FoundById(was.old) = {}
  <2>1. Failed("not_found") /\ UNCHANGED <<m_pages, m_op_queue>>
    BY <1>1, <1>5 DEF DeleteRecord
  <2> QED
    BY <1>1, <1>2, <1>3, <2>1, NotFoundStep
<1>6. CASE FoundById(was.old) # {}
  <2>1. PICK f : f = First(FoundById(was.old))
    OBVIOUS
  <2>2. PICK p, i, a : p = f[1] /\ i = f[2] /\ a = p + 1
    OBVIOUS
  <2>3. /\ p \in 1 .. MaxPages /\ i \in Valid(a) /\ m_pages[p].p_addr = a
        /\ Rec(a, i).id = was.old
    BY <1>2, <1>6, <2>1, <2>2, SearchById
  <2>4. FlagDirty(a, i, p) /\ StepTo("DEL_DONE") /\ m_chunk_queue' = m_chunk_queue
    BY <1>1, <1>6, <2>1, <2>2, <2>3 DEF DeleteRecord
  <2>5. op \in OpType /\ op.step = "DEL_DONE" /\ Goes(op) /\ SameOp(op, was)
    BY <1>1, <1>2, <2>4, StepGoes
  <2>6. /\ m_pages' = [m_pages EXCEPT ![p].can_gc = TRUE] /\ turn' = "none"
        /\ Store("dirty", a, i, [flash[a].recs[i] EXCEPT !.st = "dirty"])
    BY <2>4 DEF FlagDirty, Store, Issue
  <2>7. StillOK(NoWords)
    BY <1>2, <2>3, <2>6, SamePages
  <2>8. a \in Data
    BY <2>2, <2>3, PageIsData
  <2>9. Marking(op)'
    <3>1. i \in Valid(a)' /\ Rec(a, i)'.id = op.old
      BY <1>2, <2>3, <2>5, Still DEF SameOp
    <3>2. Asks("dirty", a, i, Dirtied(a, i))'
      BY <1>2, <2>6 DEF Store, Issue, Asks, Dirtied, Rec
    <3> QED
      BY <1>4, <2>5, <2>6, <2>8, <3>1, <3>2 DEF Marking, InFlight, SameOp
  <2>10. ~HasChunk(op) /\ ~InSlot(op)' /\ op.code \notin Writes
    BY <1>4, <2>5 DEF HasChunk, InSlot, SameOp, Writes
  <2> QED
    BY <1>1, <1>2, <1>4, <2>4, <2>5, <2>6, <2>7, <2>9, <2>10, GoesOn DEF Executing
<1> QED
  BY <1>5, <1>6

\* What a search through a file finds.
LEMMA SearchFile ==
  ASSUME IInv, PagesOK, TagsOK, NEW file
  PROVE  /\ FoundInFile(file, tok) # {} =>
              LET f == First(FoundInFile(file, tok))
              IN  /\ f[1] \in 1 .. MaxPages /\ f[2] \in Valid(f[1] + 1)
                  /\ m_pages[f[1]].p_addr = f[1] + 1 /\ Rec(f[1] + 1, f[2]).file = file
                  /\ \A p \in 1 .. MaxPages : \A i \in Valid(p + 1) :
                       Rec(p + 1, i).file = file /\ Behind(p, i) =>
                         p > f[1] \/ (p = f[1] /\ i > f[2]) \/ (p = f[1] /\ i = f[2])
         /\ FoundInFile(file, tok) = {} =>
              \A p \in 1 .. MaxPages : \A i \in Valid(p + 1) :
                Rec(p + 1, i).file = file => ~Behind(p, i)
<1>1. /\ DOMAIN m_pages = 1 .. MaxPages
      /\ \A p \in 1 .. MaxPages : m_pages[p].p_addr = p + 1 /\ m_pages[p].page_type = "data"
  BY DEF PagesOK, TagsOK
<1>2. \A a \in Data : ValidOn(flash[a]) = Valid(a) /\ Valid(a) \subseteq Nat
  BY PageFacts, NoHoles DEF IInv, Valid
<1>3. \A p \in 1 .. MaxPages :
        ValidOn(flash[m_pages[p].p_addr]) = Valid(p + 1) /\ Valid(p + 1) \subseteq Nat
  BY <1>1, <1>2, PageIsData
<1>4. FoundInFile(file, tok) \subseteq Nat \X Nat
  BY <1>1, <1>3, PageIsData DEF FoundInFile
<1>5. \A f \in FoundInFile(file, tok) :
        /\ f[1] \in 1 .. MaxPages /\ f[2] \in Valid(f[1] + 1)
        /\ m_pages[f[1]].p_addr = f[1] + 1 /\ Rec(f[1] + 1, f[2]).file = file
  BY <1>1, <1>3 DEF FoundInFile, Rec
<1>6. ASSUME NEW p \in 1 .. MaxPages, NEW i \in Valid(p + 1),
             Rec(p + 1, i).file = file, Behind(p, i)
      PROVE  <<p, i>> \in FoundInFile(file, tok)
  <2>1. <<p, i>> \in {p} \X ValidOn(flash[m_pages[p].p_addr])
    BY <1>3
  <2>2. flash[m_pages[p].p_addr].recs[i].file = file
    BY <1>1, <1>6 DEF Rec
  <2>3. p \in {q \in DOMAIN m_pages : m_pages[q].page_type = "data"}
    BY <1>1
  <2> QED
    BY <1>6, <2>1, <2>2, <2>3 DEF FoundInFile, Behind
<1>7. ASSUME FoundInFile(file, tok) # {}
      PROVE  /\ First(FoundInFile(file, tok)) \in FoundInFile(file, tok)
             /\ \A g \in FoundInFile(file, tok) :
                  \/ First(FoundInFile(file, tok))[1] < g[1]
                  \/ /\ First(FoundInFile(file, tok))[1] = g[1]
                     /\ First(FoundInFile(file, tok))[2] <= g[2]
  BY <1>4, <1>7, FirstIn
<1>8. ASSUME FoundInFile(file, tok) # {}, NEW f, f = First(FoundInFile(file, tok)),
             NEW p \in 1 .. MaxPages, NEW i \in Valid(p + 1),
             Rec(p + 1, i).file = file, Behind(p, i)
      PROVE  p > f[1] \/ (p = f[1] /\ i > f[2]) \/ (p = f[1] /\ i = f[2])
  <2>1. PICK g : g = <<p, i>>
    OBVIOUS
  <2>2. g \in FoundInFile(file, tok) /\ g[1] = p /\ g[2] = i
    BY <1>6, <1>8, <2>1
  <2>3. f[1] < p \/ (f[1] = p /\ f[2] <= i)
    BY <1>7, <1>8, <2>2
  <2>4. f[1] \in Nat /\ f[2] \in Nat /\ p \in Nat /\ i \in Nat
    <3>1. f[1] \in 1 .. MaxPages /\ f[2] \in Valid(f[1] + 1)
      BY <1>5, <1>7, <1>8
    <3> QED
      BY <1>3, <3>1
  <2> QED
    BY <2>3, <2>4
<1> QED
  BY <1>5, <1>6, <1>7, <1>8

LEMMA DeleteFileStep ==
  ASSUME IInv, delete_execute, DeleteFile
  PROVE  IInv'
<1>1. PICK op : op = p_op
  OBVIOUS
<1>2. /\ Due /\ turn = "ok" /\ PagesOK /\ IdsOK /\ Running /\ m_op_queue # <<>>
      /\ op \in OpType /\ op.code \in {"delete", "file_delete"}
      /\ Starts(op) \/ Marked(op) \/ Sweeping(op)
      /\ ~InSlot(op) /\ ~HasChunk(op)
      /\ UNCHANGED <<flash, m_flags, m_latest_rec_id, m_swap_page, m_gc, reader, calls>>
  BY <1>1, DeleteTurn
<1>3. op.step = "DEL_FILE" /\ m_op_queue' = m_op_queue
  BY <1>1 DEF DeleteFile
<1>4. op.code = "file_delete" /\ (Starts(op) \/ Sweeping(op))
  BY <1>2, <1>3 DEF Marked, Sweeping, Starts, AtStart
<1>5. \A p \in 1 .. MaxPages : \A i \in Valid(p + 1) :
        Rec(p + 1, i).file = op.file => Behind(p, i)
  <2>1. CASE Sweeping(op)
    BY <2>1 DEF Sweeping
  <2>2. CASE Starts(op)
    <3>1. tok.page = 1 /\ tok.slot = 0
      BY <2>2 DEF Starts, NoTok
    <3> TAKE p \in 1 .. MaxPages
    <3> TAKE i \in Valid(p + 1)
    <3>2. i \in Nat /\ i >= 1
      <4>1. p + 1 \in Data
        BY PageIsData
      <4>2. Valid(p + 1) = {k \in 1 .. Top(p + 1) : Rec(p + 1, k).st = "valid"} /\ Top(p + 1) \in Nat
        BY <4>1, PageFacts DEF IInv
      <4> QED
        BY <4>2
    <3> QED
      BY <3>1, <3>2, Sizes DEF Behind
  <2> QED
    BY <1>4, <2>1, <2>2
<1>6. TagsOK
  BY <1>2 DEF Running
<1>7. CASE FoundInFile(op.file, tok) = {}
  <2>1. tok' = NoTok /\ Completed /\ m_pages' = m_pages
    BY <1>1, <1>7 DEF DeleteFile
  <2>2. \A p \in 1 .. MaxPages : \A i \in Valid(p + 1) : Rec(p + 1, i).file # op.file
    BY <1>2, <1>5, <1>6, <1>7, SearchFile
  <2>3. \A a \in Data : \A i \in Valid(a) : Rec(a, i).file # op.file
    <3> TAKE a \in Data
    <3>1. a - 1 \in 1 .. MaxPages /\ (a - 1) + 1 = a
      BY DataIsAddr
    <3> QED
      BY <2>2, <3>1
  <2>4. Truthful(op)
    BY <1>4, <2>3 DEF Truthful, Writes
  <2> QED
    BY <1>1, <1>3, <2>1, <2>4, DeletionEnds
<1>8. CASE FoundInFile(op.file, tok) # {}
  <2>1. PICK f : f = First(FoundInFile(op.file, tok))
    OBVIOUS
  <2>2. PICK q, k, a : q = f[1] /\ k = f[2] /\ a = q + 1
    OBVIOUS
  <2>3. /\ q \in 1 .. MaxPages /\ k \in Valid(a) /\ m_pages[q].p_addr = a
        /\ Rec(a, k).file = op.file
        /\ \A p \in 1 .. MaxPages : \A i \in Valid(p + 1) :
             Rec(p + 1, i).file = op.file /\ Behind(p, i) =>
               p > q \/ (p = q /\ i > k) \/ (p = q /\ i = k)
    BY <1>2, <1>6, <1>8, <2>1, <2>2, SearchFile
  <2>4. FlagDirty(a, k, q) /\ tok' = [page |-> q, slot |-> k] /\ m_chunk_queue' = m_chunk_queue
    BY <1>1, <1>8, <2>1, <2>2, <2>3 DEF DeleteFile
  <2>5. Goes(op) /\ SameOp(op, op)
    BY <1>1, <1>2, <1>3, HomeFacts DEF Goes, SameOp
  <2>6. /\ m_pages' = [m_pages EXCEPT ![q].can_gc = TRUE] /\ turn' = "none"
        /\ Store("dirty", a, k, [flash[a].recs[k] EXCEPT !.st = "dirty"])
    BY <2>4 DEF FlagDirty, Store, Issue
  <2>7. StillOK(NoWords)
    BY <1>2, <2>3, <2>6, SamePages
  <2>8. Clearing(op)'
    <3>1. tok'.page = q /\ tok'.slot = k
      BY <2>4
    <3>2. Asks("dirty", a, k, Dirtied(a, k))'
      BY <1>2, <2>6 DEF Store, Issue, Asks, Dirtied, Rec
    <3>3. tok'.page \in 1 .. MaxPages /\ tok'.slot \in ValidSlots(flash'[tok'.page + 1])
      BY <1>2, <2>2, <2>3, <3>1 DEF Valid
    <3>4. Asks("dirty", tok.page + 1, tok.slot, Dirtied(tok.page + 1, tok.slot))'
      BY <2>2, <3>1, <3>2 DEF Asks, Dirtied, Rec
    <3>6. Rec(tok.page + 1, tok.slot)'.file = op.file
      BY <1>2, <2>2, <2>3, <3>1 DEF Rec
    <3>5. ASSUME NEW p \in 1 .. MaxPages, NEW i \in Valid(p + 1)', Rec(p + 1, i)'.file = op.file
          PROVE  Behind(p, i)' \/ (p = tok'.page /\ i = tok'.slot)
      <4>1. i \in Valid(p + 1) /\ Rec(p + 1, i).file = op.file
        BY <1>2, <3>5 DEF Valid, Rec
      <4>2. p > q \/ (p = q /\ i > k) \/ (p = q /\ i = k)
        BY <1>5, <2>3, <4>1
      <4> QED
        BY <3>1, <4>2 DEF Behind
    <3> QED
      BY <1>3, <1>4, <2>6, <3>3, <3>4, <3>5, <3>6 DEF Clearing, InFlight, Valid, Rec
  <2>9. ~InSlot(op)' /\ op.code \notin Writes
    BY <1>4 DEF InSlot, Writes
  <2> QED
    BY <1>1, <1>2, <1>4, <2>4, <2>5, <2>6, <2>7, <2>8, <2>9, GoesOn DEF Executing
<1> QED
  BY <1>7, <1>8

LEMMA DeleteStepKept ==
  ASSUME IInv, delete_execute
  PROVE  IInv'
<1>1. turn = "ok"
  BY DeleteTurn
<1> QED
  BY <1>1, DeleteRecordStep, DeleteFileStep, DeleteDoneStep DEF delete_execute
----------------------------------------------------------------------------
\* Advance

LEMMA QueueAdvances ==
  ASSUME IInv, Advance, NEW n, n = Len(m_op_queue)
  PROVE  /\ turn = "event" /\ PagesOK /\ IdsOK /\ Running /\ m_op_queue # <<>> /\ Ended(p_op)
         /\ UNCHANGED <<flash, m_latest_rec_id, m_chunk_queue, m_pages, m_swap_page, m_gc, tok,
                        desc, request, reader, calls>>
         /\ m_op_queue \in Seq(OpType) /\ n \in Nat /\ n >= 1
         /\ m_op_queue' \in Seq(OpType) /\ Len(m_op_queue') = n - 1
         /\ \A i \in 1 .. n - 1 : m_op_queue'[i] = m_op_queue[i + 1]
         /\ (m_op_queue' = <<>>) <=> (n = 1)
         /\ IF n > 1 THEN turn' = "ok" /\ m_flags' = m_flags
                     ELSE turn' = "none" /\ m_flags' = m_flags \ {"PROCESSING"}
         /\ \A i \in 1 .. n - 1 : /\ i + 1 \in 2 .. n /\ i + 1 \in 1 .. n
                                   /\ AtStart(m_op_queue'[i])
         /\ ToDo = 2 .. n /\ ToDo' = 1 .. n - 1 /\ Holding' = Holding
<1>1. turn = "event" /\ m_op_queue' = Tail(m_op_queue) /\ result' = "none"
  BY DEF Advance
<1>2. PagesOK /\ IdsOK /\ Running
  BY <1>1 DEF IInv, OffState, Starting, Tagging, Due, InFlight
<1>3. m_op_queue # <<>> /\ Ended(p_op)
  BY <1>1, <1>2 DEF Running, HeadOK, Executing, Starts, Opening, Storing, Sealing, Filling,
     Replaced, Replacing, Sealed, Marking, Marked, Sweeping, Clearing, InFlight, Due
<1>4. UNCHANGED <<flash, m_latest_rec_id, m_chunk_queue, m_pages, m_swap_page, m_gc, tok, desc,
                  request, reader, calls>>
  BY DEF Advance, setup, env
<1>6. /\ m_op_queue \in Seq(OpType) /\ n \in Nat /\ n >= 1
      /\ m_op_queue' \in Seq(OpType) /\ Len(m_op_queue') = n - 1
      /\ \A i \in 1 .. n - 1 : m_op_queue'[i] = m_op_queue[i + 1]
      /\ (m_op_queue' = <<>>) <=> (n = 1)
  BY <1>1, <1>2, <1>3 DEF Running, QueueOK
<1>7. IF n > 1 THEN turn' = "ok" /\ m_flags' = m_flags
               ELSE turn' = "none" /\ m_flags' = m_flags \ {"PROCESSING"}
  BY DEF Advance
<1>10. \A i \in 1 .. n - 1 : i + 1 \in 2 .. n /\ i + 1 \in 1 .. n /\ AtStart(m_op_queue'[i])
  BY <1>2, <1>6 DEF Running, QueueOK
<1>11. ToDo = 2 .. n /\ ToDo' = 1 .. n - 1
  BY <1>1, <1>6, <1>7 DEF ToDo
<1>12. Holding' = Holding
  <2>1. \A i \in ToDo' : i + 1 \in ToDo /\ m_op_queue'[i] = m_op_queue[i + 1]
    BY <1>6, <1>11
  <2>2. \A j \in ToDo : j - 1 \in ToDo' /\ m_op_queue'[j - 1] = m_op_queue[j]
    <3> TAKE j \in ToDo
    <3>1. j - 1 \in 1 .. n - 1 /\ (j - 1) + 1 = j
      BY <1>6, <1>11
    <3> QED
      BY <1>6, <1>11, <3>1
  <2> QED
    BY <2>1, <2>2 DEF Holding
<1> QED
  BY <1>1, <1>2, <1>3, <1>4, <1>6, <1>7, <1>10, <1>11, <1>12

LEMMA AdvanceStep ==
  ASSUME IInv, Advance
  PROVE  IInv'
<1>5. PICK n : n = Len(m_op_queue)
  OBVIOUS
<1>1. turn = "event"
  BY DEF Advance
<1>2. PagesOK /\ IdsOK /\ Running
  BY <1>5, QueueAdvances
<1>3. m_op_queue # <<>> /\ Ended(p_op)
  BY <1>5, QueueAdvances
<1>4. UNCHANGED <<flash, m_latest_rec_id, m_chunk_queue, m_pages, m_swap_page, m_gc, tok, desc,
                  request, reader, calls>>
  BY <1>5, QueueAdvances
<1>6. /\ m_op_queue \in Seq(OpType) /\ n \in Nat /\ n >= 1
      /\ m_op_queue' \in Seq(OpType) /\ Len(m_op_queue') = n - 1
      /\ \A i \in 1 .. n - 1 : m_op_queue'[i] = m_op_queue[i + 1]
      /\ (m_op_queue' = <<>>) <=> (n = 1)
  BY <1>5, QueueAdvances
<1>7. IF n > 1 THEN turn' = "ok" /\ m_flags' = m_flags
               ELSE turn' = "none" /\ m_flags' = m_flags \ {"PROCESSING"}
  BY <1>5, QueueAdvances
<1>8. calls' \in 0 .. MaxCalls /\ FlashOK' /\ PagesOK' /\ IdsOK' /\ TagsOK' /\ ReaderOK'
  <2>1. FlashOK'
    BY <1>4 DEF IInv, FlashOK, Whole, Valid, Rec, Blank, Unique
  <2> QED
    BY <1>2, <1>4, <2>1 DEF IInv, PagesOK, IdsOK, Running, TagsOK, ReaderOK, Valid, Rec
<1>9. m_flags' = Flags'
  BY <1>2, <1>3, <1>6, <1>7 DEF Running, Flags
<1>10. \A i \in 1 .. n - 1 : i + 1 \in 2 .. n /\ i + 1 \in 1 .. n /\ AtStart(m_op_queue'[i])
  BY <1>5, QueueAdvances
<1>11. QueueOK'
  <2>1. ASSUME NEW i \in 1 .. n - 1, m_op_queue'[i].code \in Writes
        PROVE  WriteOK(m_op_queue[i])'
    <3>1. PICK x : x = m_op_queue'[i]
      OBVIOUS
    <3>2. x = m_op_queue[i + 1] /\ i + 1 \in 1 .. Len(m_op_queue)
      BY <1>5, <1>6, <1>10, <3>1
    <3>3. WriteOK(x)
      BY <1>2, <2>1, <3>1, <3>2 DEF Running, QueueOK
    <3>4. WriteOK(x)'
      BY <1>4, <3>3, Still DEF WriteOK
    <3> QED
      BY <3>1, <3>4 DEF WriteOK
  <2>2. ASSUME NEW i \in 1 .. n - 1, NEW j \in 1 .. n - 1, m_op_queue'[i].code \in Writes,
               m_op_queue'[j].code \in Writes, i < j
        PROVE  m_op_queue'[i].id < m_op_queue'[j].id
    <3>1. i + 1 \in 1 .. Len(m_op_queue) /\ j + 1 \in 1 .. Len(m_op_queue) /\ i + 1 < j + 1
      BY <1>5, <1>10, <2>2
    <3> QED
      BY <1>2, <1>6, <2>2, <3>1 DEF Running, QueueOK
  <2>3. Len(m_op_queue') <= OpQueueSize
    BY <1>2, <1>5, <1>6, Sizes DEF Running, QueueOK
  <2>4. \A i \in 2 .. Len(m_op_queue') : AtStart(m_op_queue'[i])
    BY <1>6, <1>10
  <2>5. \A i \in 1 .. Len(m_op_queue') :
          m_op_queue'[i].code \in Writes => WriteOK(m_op_queue[i])'
    BY <1>6, <2>1
  <2> QED
    BY <1>6, <2>2, <2>3, <2>4, <2>5 DEF QueueOK
<1>12. AccountsOK'
  <2>1. ToDo = 2 .. n /\ ToDo' = 1 .. n - 1
    BY <1>5, QueueAdvances
  <2>2. \A p \in 1 .. MaxPages : Unwritten(p)' = Unwritten(p)
    <3> TAKE p \in 1 .. MaxPages
    <3>1. \A i \in ToDo' : i + 1 \in ToDo /\ m_op_queue'[i] = m_op_queue[i + 1]
      BY <1>6, <2>1
    <3>2. \A j \in ToDo : j - 1 \in ToDo' /\ m_op_queue'[j - 1] = m_op_queue[j]
      <4> TAKE j \in ToDo
      <4>1. j - 1 \in 1 .. n - 1 /\ (j - 1) + 1 = j
        BY <1>6, <2>1
      <4> QED
        BY <1>6, <2>1, <4>1
    <3> QED
      BY <3>1, <3>2 DEF Unwritten
  <2>3. Holding' = Holding
    BY <1>5, QueueAdvances
  <2> QED
    BY <1>2, <1>4, <2>2, <2>3 DEF Running, AccountsOK
<1>13. HeadOK'
  <2>1. tok' = NoTok /\ request' = None
    BY <1>3, <1>4 DEF Ended
  <2>2. CASE n = 1
    <3>1. m_op_queue' = <<>> /\ turn' = "none"
      BY <1>6, <1>7, <2>2
    <3>2. \A p \in 1 .. MaxPages : m_pages'[p].write_offset = OffsetOf(Top(p + 1)' + 1)
      BY <1>1, <1>2, <1>4 DEF Running, HeadOK, InSlot, Top
    <3> QED
      BY <2>1, <3>1, <3>2 DEF HeadOK
  <2>3. CASE n > 1
    <3>1. m_op_queue' # <<>> /\ turn' = "ok"
      BY <1>6, <1>7, <2>3
    <3>2. PICK op : op = p_op'
      OBVIOUS
    <3>3. AtStart(op)
      BY <1>6, <1>10, <2>3, <3>2 DEF p_op
    <3>4. Starts(op)'
      BY <2>1, <3>1, <3>3 DEF Starts, Due
    <3>5. ~InSlot(op)'
      BY <3>3 DEF InSlot, AtStart
    <3>6. \A p \in 1 .. MaxPages : m_pages'[p].write_offset = OffsetOf(Top(p + 1)' + 1)
      BY <1>1, <1>2, <1>4 DEF Running, HeadOK, InSlot, Top
    <3> QED
      BY <2>1, <3>1, <3>2, <3>4, <3>5, <3>6 DEF HeadOK, Executing
  <2> QED
    BY <1>6, <2>2, <2>3
<1> QED
  BY <1>8, <1>9, <1>11, <1>12, <1>13 DEF IInv, Running

\* The operation executed is where it was when neither flash nor what it works
\* with has changed.
LEMMA SameExecuting ==
  ASSUME NEW op, Executing(op),
         UNCHANGED <<flash, request, turn, result, tok, desc>>
  PROVE  Executing(op)'
<1>1. Starts(op) => Starts(op)'
  BY DEF Starts, Due
<1>2. Opening(op) => Opening(op)'
  BY Still DEF Opening, InFlight, OldThere, Asks, Valid, Rec, Top, Home
<1>3. Filling(op) => Filling(op)'
  BY Still DEF Filling, Due, OldThere, Begins, New, Valid, Rec, Top, Home
<1>4. Storing(op) => Storing(op)'
  BY Still DEF Storing, InFlight, OldThere, Begins, New, Asks, Valid, Rec, Top, Home
<1>5. Sealing(op) => Sealing(op)'
  BY Still DEF Sealing, InFlight, OldThere, Begins, New, Asks, Valid, Rec, Top, Home
<1>6. Sealed(op) => Sealed(op)'
  BY DEF Sealed, Due, OldThere, Stands, New, Valid, Rec, Top, Home
<1>7. Replacing(op) => Replacing(op)'
  BY DEF Replacing, InFlight, OldThere, Stands, New, Asks, Dirtied, Valid, Rec, Top, Home
<1>8. Replaced(op) => Replaced(op)'
  BY Still DEF Replaced, Due, Stands, New, Rec, Top, Home
<1>9. Marking(op) => Marking(op)'
  BY DEF Marking, InFlight, Asks, Dirtied, Valid, Rec
<1>10. Marked(op) => Marked(op)'
  BY Still DEF Marked, Due
<1>11. Sweeping(op) => Sweeping(op)'
  BY DEF Sweeping, Due, Behind, Valid, Rec
<1>12. Clearing(op) => Clearing(op)'
  BY DEF Clearing, InFlight, Asks, Dirtied, Behind, Valid, Rec
<1>13. Ended(op) => Ended(op)'
  BY Still DEF Ended, Truthful, Valid, Rec
<1> QED
  BY <1>1, <1>2, <1>3, <1>4, <1>5, <1>6, <1>7, <1>8, <1>9, <1>10, <1>11, <1>12, <1>13 DEF Executing
----------------------------------------------------------------------------
\* The calls of the application.

\* What a call finds, and what it leaves as it was.
LEMMA CallKeeps ==
  ASSUME IInv, NEW call, CanCall(call), m_gc' = m_gc,
         m_latest_rec_id' \in {m_latest_rec_id, m_latest_rec_id + 1}
  PROVE  /\ PagesOK /\ IdsOK /\ Running /\ turn \in {"none", "event"}
         /\ m_latest_rec_id \in Nat /\ m_latest_rec_id + 1 \in Ids
         /\ calls' \in 0 .. MaxCalls /\ FlashOK' /\ IdsOK'
         /\ UNCHANGED <<flash, m_swap_page, tok, desc, request, result, reader>>
<1>1. /\ turn \in {"none", "event"} /\ "INITIALIZED" \in m_flags /\ calls < MaxCalls
      /\ calls' = calls + 1
      /\ UNCHANGED <<flash, m_swap_page, tok, desc, request, result, reader>>
  BY DEF CanCall
<1>2. PagesOK /\ IdsOK /\ Running
  BY <1>1 DEF IInv, OffState, Starting
<1>3. calls \in Nat /\ calls' \in 0 .. MaxCalls /\ m_latest_rec_id \in Nat
      /\ m_latest_rec_id <= calls /\ m_latest_rec_id + 1 \in Ids
  BY <1>1, <1>2, Sizes DEF IInv, IdsOK, Ids
<1>4. \A a \in Data : \A i \in Valid(a) : Rec(a, i).id \in Nat
  <2> TAKE a \in Data
  <2> TAKE i \in Valid(a)
  <2>1. Rec(a, i) \in SlotType
    BY PageFacts DEF IInv
  <2> QED
    BY <2>1, Sizes DEF SlotType, Ids
<1>5. \A a \in Data : \A i \in Valid(a)' : Rec(a, i)'.id <= calls'
  <2> TAKE a \in Data
  <2> TAKE i \in Valid(a)'
  <2>1. i \in Valid(a) /\ Rec(a, i)' = Rec(a, i)
    BY <1>1 DEF Valid, Rec
  <2>2. Rec(a, i).id \in Nat /\ Rec(a, i).id <= calls
    BY <1>4, <2>1 DEF IInv, FlashOK
  <2> QED
    BY <1>1, <1>3, <2>1, <2>2
<1>6. Unique'
  BY <1>1 DEF IInv, FlashOK, Unique, Valid, Rec
<1>7. FlashOK'
  BY <1>1, <1>5, <1>6 DEF IInv, FlashOK, Whole, Blank
<1>8. IdsOK'
  <2>1. m_latest_rec_id' \in 0 .. calls' /\ m_latest_rec_id <= m_latest_rec_id'
    BY <1>1, <1>3
  <2>2. \A a \in Data : \A i \in Valid(a)' : Rec(a, i)'.id <= m_latest_rec_id'
    <3> TAKE a \in Data
    <3> TAKE i \in Valid(a)'
    <3>1. i \in Valid(a) /\ Rec(a, i)' = Rec(a, i)
      BY <1>1 DEF Valid, Rec
    <3>2. Rec(a, i).id \in Nat /\ Rec(a, i).id <= m_latest_rec_id
      BY <1>2, <1>4, <3>1 DEF IdsOK
    <3> QED
      BY <1>3, <2>1, <3>1, <3>2
  <2> QED
    BY <2>1, <2>2 DEF IdsOK
<1> QED
  BY <1>1, <1>2, <1>3, <1>7, <1>8

\* What the pages and the chunks reserve for a write that is queued.
WordsFor(op, p) == IF op.code \in Writes /\ p = op.page THEN RecordWords ELSE 0

MoreReserved(op) ==
  /\ m_pages' \in [1 .. MaxPages -> PageRec]
  /\ \A p \in 1 .. MaxPages :
       /\ m_pages'[p].p_addr = m_pages[p].p_addr
       /\ m_pages'[p].page_type = m_pages[p].page_type
       /\ m_pages'[p].records_open = m_pages[p].records_open
       /\ m_pages'[p].write_offset = m_pages[p].write_offset
       /\ m_pages'[p].words_reserved = m_pages[p].words_reserved + WordsFor(op, p)
       /\ m_pages'[p].write_offset + m_pages'[p].words_reserved <= PageWords

MoreChunks(op) ==
  \/ op.code \notin Writes /\ m_chunk_queue' = m_chunk_queue
  \/ /\ op.code \in Writes
     /\ m_chunk_queue'.count = m_chunk_queue.count + 1 /\ m_chunk_queue.count < ChunkQueueSize
     /\ m_chunk_queue'.rp = m_chunk_queue.rp
     /\ m_chunk_queue'.chunk \in [0 .. ChunkQueueSize - 1 -> Ids]

\* A call that is queued.
LEMMA QueueGrows ==
  ASSUME IInv, NEW call, CanCall(call), HasRoom, m_gc' = m_gc,
         m_latest_rec_id' \in {m_latest_rec_id, m_latest_rec_id + 1},
         NEW op \in OpType, AtStart(op), Enqueue(op), NEW n, n = Len(m_op_queue)
  PROVE  /\ m_op_queue \in Seq(OpType) /\ n \in Nat /\ n + 1 <= OpQueueSize
         /\ m_op_queue' \in Seq(OpType) /\ Len(m_op_queue') = n + 1 /\ m_op_queue'[n + 1] = op
         /\ \A i \in 1 .. n : m_op_queue'[i] = m_op_queue[i]
         /\ m_op_queue' # <<>>
         /\ (m_op_queue = <<>>) <=> (n = 0)
         /\ turn' = (IF n = 0 THEN "ok" ELSE turn) /\ m_flags' = Flags'
         /\ n = 0 => turn = "none" /\ request = None /\ tok = NoTok
         /\ ToDo' = ToDo \cup {n + 1} /\ n + 1 \notin ToDo /\ ToDo \subseteq 1 .. n
         /\ Holding' = IF op.code \in Writes THEN Holding \cup {op.id} ELSE Holding
<1>1. PagesOK /\ IdsOK /\ Running /\ turn \in {"none", "event"}
  BY CallKeeps
<1>3. /\ m_op_queue \in Seq(OpType) /\ n \in Nat /\ n + 1 <= OpQueueSize
      /\ m_op_queue' \in Seq(OpType) /\ Len(m_op_queue') = n + 1 /\ m_op_queue'[n + 1] = op
      /\ \A i \in 1 .. n : m_op_queue'[i] = m_op_queue[i]
      /\ m_op_queue' # <<>>
      /\ (m_op_queue = <<>>) <=> (n = 0)
  <2>1. m_op_queue \in Seq(OpType) /\ n \in Nat
    BY <1>1 DEF Running, QueueOK
  <2>2. m_op_queue' = Append(m_op_queue, op)
    BY DEF Enqueue
  <2>3. n + 1 <= OpQueueSize
    BY <2>1, Sizes DEF HasRoom
  <2> QED
    BY <2>1, <2>2, <2>3
<1>4. m_flags = Flags /\ m_flags' = m_flags \cup {"PROCESSING"}
      /\ turn' = IF "PROCESSING" \in m_flags THEN turn ELSE "ok"
  BY <1>1 DEF Running, Enqueue
<1>5. turn' = (IF n = 0 THEN "ok" ELSE turn) /\ m_flags' = Flags'
  BY <1>3, <1>4 DEF Flags
<1>6. n = 0 => turn = "none" /\ request = None /\ tok = NoTok
  BY <1>1, <1>3 DEF Running, HeadOK
<1>7. ToDo' = ToDo \cup {n + 1} /\ n + 1 \notin ToDo /\ ToDo \subseteq 1 .. n
  BY <1>1, <1>3, <1>5, <1>6 DEF ToDo
<1>8. Holding' = IF op.code \in Writes THEN Holding \cup {op.id} ELSE Holding
  <2>1. \A j \in ToDo : m_op_queue'[j] = m_op_queue[j]
    BY <1>3, <1>7
  <2>2. HasChunk(op) <=> op.code \in Writes
    BY DEF HasChunk, AtStart, Writes
  <2> QED
    BY <1>3, <1>7, <2>1, <2>2 DEF Holding
<1> QED
  BY <1>3, <1>5, <1>6, <1>7, <1>8

LEMMA EnqueueStep ==
  ASSUME IInv, NEW call, CanCall(call), HasRoom, m_gc' = m_gc,
         m_latest_rec_id' \in {m_latest_rec_id, m_latest_rec_id + 1},
         NEW op \in OpType, AtStart(op), Enqueue(op), MoreReserved(op), MoreChunks(op),
         op.code \in Writes =>
           /\ op.id = m_latest_rec_id + 1 /\ m_latest_rec_id' = op.id /\ op.old < op.id
  PROVE  IInv'
<1>1. /\ PagesOK /\ IdsOK /\ Running /\ turn \in {"none", "event"}
      /\ m_latest_rec_id \in Nat /\ m_latest_rec_id + 1 \in Ids
      /\ calls' \in 0 .. MaxCalls /\ FlashOK' /\ IdsOK'
      /\ UNCHANGED <<flash, m_swap_page, m_gc, tok, desc, request, result, reader>>
  BY CallKeeps
<1>2. PICK n : n = Len(m_op_queue)
  OBVIOUS
<1>3. /\ m_op_queue \in Seq(OpType) /\ n \in Nat /\ n + 1 <= OpQueueSize
      /\ m_op_queue' \in Seq(OpType) /\ Len(m_op_queue') = n + 1 /\ m_op_queue'[n + 1] = op
      /\ \A i \in 1 .. n : m_op_queue'[i] = m_op_queue[i]
      /\ m_op_queue' # <<>>
      /\ (m_op_queue = <<>>) <=> (n = 0)
  BY <1>2, QueueGrows
<1>5. turn' = (IF n = 0 THEN "ok" ELSE turn) /\ m_flags' = Flags'
  BY <1>2, QueueGrows
<1>6. n = 0 => turn = "none" /\ request = None /\ tok = NoTok
  BY <1>2, QueueGrows
<1>7. PagesOK' /\ TagsOK' /\ ReaderOK'
  <2>1. PagesOK'
    BY <1>1 DEF PagesOK, MoreReserved
  <2>2. TagsOK'
    BY <1>1 DEF Running, TagsOK, MoreReserved
  <2>3. ReaderOK'
    <3>1. calls' > 0
      BY <1>1, Sizes DEF CanCall, IInv
    <3> QED
      BY <1>1, <3>1 DEF Running, ReaderOK, MoreReserved, Rec
  <2> QED
    BY <2>1, <2>2, <2>3
<1>8. op.code \in Writes => WriteOK(op)'
  <2> SUFFICES ASSUME op.code \in Writes PROVE WriteOK(op)'
    OBVIOUS
  <2>1. op.id = m_latest_rec_id + 1 /\ m_latest_rec_id' = op.id /\ op.old < op.id
    OBVIOUS
  <2>2. \A a \in Data : \A i \in Valid(a) : Rec(a, i).id # op.id
    <3> TAKE a \in Data
    <3> TAKE i \in Valid(a)
    <3>1. Rec(a, i) \in SlotType
      BY PageFacts DEF IInv
    <3>2. Rec(a, i).id \in Nat
      BY <3>1, Sizes DEF SlotType, Ids
    <3>3. Rec(a, i).id <= m_latest_rec_id
      BY <1>1 DEF IdsOK
    <3> QED
      BY <1>1, <2>1, <3>2, <3>3
  <2>3. Fresh(op.id)'
    BY <1>1, <2>2, Still DEF Fresh
  <2>4. m_latest_rec_id' >= op.id
    BY <1>1, <2>1
  <2> QED
    BY <2>1, <2>3, <2>4 DEF WriteOK
<1>9. ASSUME NEW i \in 1 .. n, m_op_queue[i].code \in Writes
      PROVE  WriteOK(m_op_queue[i]) /\ m_op_queue[i].id \in Nat /\ m_op_queue[i].id <= m_latest_rec_id
  <2>1. m_op_queue[i] \in OpType
    BY <1>2, <1>3
  <2>2. WriteOK(m_op_queue[i])
    BY <1>1, <1>2, <1>9 DEF Running, QueueOK
  <2>3. m_op_queue[i].id \in Nat
    BY <2>1, Sizes DEF OpType, Ids
  <2> QED
    BY <2>2, <2>3 DEF WriteOK
<1>10. QueueOK'
  <2>1. ASSUME NEW i \in 1 .. n + 1, m_op_queue'[i].code \in Writes
        PROVE  WriteOK(m_op_queue[i])'
    <3>1. PICK x : x = m_op_queue'[i]
      OBVIOUS
    <3>2. WriteOK(x)'
      <4>1. CASE i = n + 1
        BY <1>3, <1>8, <2>1, <3>1, <4>1
      <4>2. CASE i # n + 1
        <5>1. i \in 1 .. n /\ x = m_op_queue[i]
          BY <1>3, <3>1, <4>2
        <5>2. WriteOK(x) /\ x.id \in Nat /\ x.id <= m_latest_rec_id
          BY <1>9, <2>1, <3>1, <5>1
        <5>3. x.id <= m_latest_rec_id'
          BY <1>1, <5>2
        <5> QED
          BY <1>1, <5>2, <5>3, Still DEF WriteOK
      <4> QED
        BY <4>1, <4>2
    <3> QED
      BY <3>1, <3>2 DEF WriteOK
  <2>2. ASSUME NEW i \in 1 .. n + 1, NEW j \in 1 .. n + 1, m_op_queue'[i].code \in Writes,
               m_op_queue'[j].code \in Writes, i < j
        PROVE  m_op_queue'[i].id < m_op_queue'[j].id
    <3>1. i \in 1 .. n /\ m_op_queue'[i] = m_op_queue[i]
      BY <1>3, <2>2
    <3>2. CASE j = n + 1
      <4>1. m_op_queue'[j] = op
        BY <1>3, <3>2
      <4>2. m_op_queue[i].id \in Nat /\ m_op_queue[i].id <= m_latest_rec_id
        BY <1>9, <2>2, <3>1
      <4> QED
        BY <1>1, <2>2, <3>1, <4>1, <4>2
    <3>3. CASE j # n + 1
      <4>1. j \in 1 .. n /\ m_op_queue'[j] = m_op_queue[j]
        BY <1>3, <3>3
      <4> QED
        BY <1>1, <1>2, <2>2, <3>1, <4>1 DEF Running, QueueOK
    <3> QED
      BY <3>2, <3>3
  <2>3. \A i \in 2 .. n + 1 : AtStart(m_op_queue'[i])
    <3> TAKE i \in 2 .. n + 1
    <3>1. CASE i = n + 1
      BY <1>3, <3>1
    <3>2. CASE i # n + 1
      <4>1. i \in 2 .. n /\ i \in 1 .. n
        BY <1>3, <3>2
      <4> QED
        BY <1>1, <1>2, <1>3, <4>1 DEF Running, QueueOK
    <3> QED
      BY <3>1, <3>2
  <2>4. \A i \in 1 .. n + 1 : m_op_queue'[i].code \in Writes => WriteOK(m_op_queue[i])'
    BY <2>1
  <2> QED
    BY <1>3, <2>2, <2>3, <2>4 DEF QueueOK
<1>11. ToDo' = ToDo \cup {n + 1} /\ n + 1 \notin ToDo /\ ToDo \subseteq 1 .. n
  BY <1>2, QueueGrows
<1>12. \A p \in 1 .. MaxPages :
         Unwritten(p)' = IF op.code \in Writes /\ p = op.page
                         THEN Unwritten(p) \cup {op.id} ELSE Unwritten(p)
  <2> TAKE p \in 1 .. MaxPages
  <2>1. \A j \in ToDo : m_op_queue'[j] = m_op_queue[j]
    BY <1>3, <1>11
  <2> QED
    BY <1>3, <1>11, <2>1 DEF Unwritten
<1>13. Holding' = IF op.code \in Writes THEN Holding \cup {op.id} ELSE Holding
  BY <1>2, QueueGrows
<1>14. op.code \in Writes => op.id \notin Holding /\ \A p \in 1 .. MaxPages : op.id \notin Unwritten(p)
  <2> SUFFICES ASSUME op.code \in Writes
               PROVE  op.id \notin Holding /\ \A p \in 1 .. MaxPages : op.id \notin Unwritten(p)
    OBVIOUS
  <2>1. \A j \in ToDo : m_op_queue[j].code \in Writes => m_op_queue[j].id # op.id
    <3> TAKE j \in ToDo
    <3> SUFFICES ASSUME m_op_queue[j].code \in Writes PROVE m_op_queue[j].id # op.id
      OBVIOUS
    <3>1. j \in 1 .. n
      BY <1>11
    <3>2. m_op_queue[j].id \in Nat /\ m_op_queue[j].id <= m_latest_rec_id
      BY <1>9, <3>1
    <3> QED
      BY <1>1, <3>2
  <2> QED
    BY <2>1 DEF Holding, Unwritten, HasChunk, Writes
<1>15. AccountsOK'
  <2>1. ASSUME NEW p \in 1 .. MaxPages
        PROVE  m_pages'[p].words_reserved >= RecordWords * Cardinality(Unwritten(p)')
    <3>1. /\ m_pages'[p].words_reserved = m_pages[p].words_reserved + WordsFor(op, p)
          /\ m_pages[p].words_reserved \in Nat
      <4>1. \A r \in PageRec : r.words_reserved \in Nat
        BY Sizes DEF PageRec
      <4>2. m_pages[p] \in PageRec
        BY <1>1 DEF PagesOK
      <4> QED
        BY <4>1, <4>2 DEF MoreReserved
    <3>2. IsFiniteSet(Unwritten(p)) /\ Cardinality(Unwritten(p)) \in Nat
      BY <1>3, SetsFinite
    <3>3. PICK c \in Nat : c = Cardinality(Unwritten(p))
      BY <3>2
    <3>4. m_pages[p].words_reserved >= RecordWords * c
      BY <1>1, <3>3 DEF Running, AccountsOK
    <3>5. CASE op.code \in Writes /\ p = op.page
      <4>1. Cardinality(Unwritten(p)') = c + 1
        BY <1>12, <1>14, <3>2, <3>3, <3>5, WithMore
      <4>2. RecordWords * (c + 1) = RecordWords * c + RecordWords /\ RecordWords * c \in Nat
        BY Sizes
      <4> QED
        BY <3>1, <3>4, <3>5, <4>1, <4>2, Sizes DEF WordsFor
    <3>6. CASE ~(op.code \in Writes /\ p = op.page)
      <4>1. Cardinality(Unwritten(p)') = c
        BY <1>12, <3>3, <3>6
      <4> QED
        BY <3>1, <3>4, <3>6, <4>1 DEF WordsFor
    <3> QED
      BY <3>5, <3>6
  <2>2. /\ m_chunk_queue.count \in 0 .. ChunkQueueSize /\ m_chunk_queue.rp \in Nat
        /\ m_chunk_queue.chunk \in [0 .. ChunkQueueSize - 1 -> Ids]
        /\ m_chunk_queue.count >= Cardinality(Holding)
        /\ IsFiniteSet(Holding) /\ Cardinality(Holding) \in Nat
    BY <1>1, <1>3, SetsFinite DEF Running, AccountsOK
  <2>3. /\ m_chunk_queue'.count \in 0 .. ChunkQueueSize
        /\ m_chunk_queue'.count >= Cardinality(Holding')
        /\ m_chunk_queue'.rp \in Nat /\ m_chunk_queue'.chunk \in [0 .. ChunkQueueSize - 1 -> Ids]
    <3>1. CASE op.code \in Writes
      <4>1. Cardinality(Holding') = Cardinality(Holding) + 1
        BY <1>13, <1>14, <2>2, <3>1, WithMore
      <4> QED
        BY <2>2, <3>1, <4>1, Sizes DEF MoreChunks
    <3>2. CASE op.code \notin Writes
      BY <1>13, <2>2, <3>2 DEF MoreChunks
    <3> QED
      BY <3>1, <3>2
  <2> QED
    BY <2>1, <2>3 DEF AccountsOK
<1>16. HeadOK'
  <2>1. \A p \in 1 .. MaxPages : m_pages'[p].write_offset = m_pages[p].write_offset
    BY DEF MoreReserved
  <2>2. \A p : Top(p)' = Top(p)
    BY <1>1 DEF Top
  <2>3. CASE n = 0
    <3>1. p_op' = op /\ turn' = "ok" /\ request' = None /\ tok' = NoTok
      BY <1>1, <1>3, <1>5, <1>6, <2>3 DEF p_op
    <3>2. Starts(op)'
      BY <3>1 DEF Starts, Due
    <3>3. ~InSlot(op)'
      BY DEF InSlot, AtStart
    <3>4. \A p \in 1 .. MaxPages : m_pages'[p].write_offset = OffsetOf(Top(p + 1)' + 1)
      BY <1>1, <1>3, <2>1, <2>2, <2>3 DEF Running, HeadOK
    <3> QED
      BY <1>3, <3>1, <3>2, <3>3, <3>4 DEF HeadOK, Executing
  <2>4. CASE n > 0
    <3>1. PICK q : q = p_op
      OBVIOUS
    <3>2. p_op' = q /\ turn' = turn
      BY <1>3, <1>5, <2>4, <3>1 DEF p_op
    <3>3. Executing(q) /\ (q.code = "file_delete" \/ tok = NoTok)
      BY <1>1, <1>3, <2>4, <3>1 DEF Running, HeadOK
    <3>4. Executing(q)'
      BY <1>1, <3>2, <3>3, SameExecuting
    <3>5. InSlot(q)' <=> InSlot(q)
      BY <3>2 DEF InSlot
    <3>6. \A p \in 1 .. MaxPages :
            m_pages[p].write_offset =
              OffsetOf(IF q.page = p /\ InSlot(q) THEN Top(p + 1) ELSE Top(p + 1) + 1)
      BY <1>1, <1>3, <2>4, <3>1 DEF Running, HeadOK
    <3>7. \A p \in 1 .. MaxPages :
            m_pages'[p].write_offset =
              OffsetOf(IF q.page = p /\ InSlot(q)' THEN Top(p + 1)' ELSE Top(p + 1)' + 1)
      BY <2>1, <2>2, <3>5, <3>6
    <3> QED
      BY <1>1, <1>3, <3>2, <3>3, <3>4, <3>7 DEF HeadOK
  <2> QED
    BY <1>3, <2>3, <2>4
<1> QED
  BY <1>1, <1>5, <1>7, <1>10, <1>15, <1>16 DEF IInv, Running

\* A call that the queues have no room for only takes an identifier.
LEMMA RefusedCall ==
  ASSUME IInv, NEW call, CanCall(call), m_gc' = m_gc,
         m_latest_rec_id' = m_latest_rec_id + 1,
         UNCHANGED <<m_pages, m_chunk_queue, m_op_queue, m_flags, turn>>
  PROVE  IInv'
<1>1. /\ PagesOK /\ IdsOK /\ Running /\ turn \in {"none", "event"}
      /\ m_latest_rec_id \in Nat /\ m_latest_rec_id + 1 \in Ids
      /\ calls' \in 0 .. MaxCalls /\ FlashOK' /\ IdsOK'
      /\ UNCHANGED <<flash, m_swap_page, m_gc, tok, desc, request, result, reader>>
  BY CallKeeps
<1>2. PagesOK' /\ TagsOK' /\ m_flags' = Flags'
  BY <1>1 DEF PagesOK, Running, TagsOK, Flags
<1>3. ReaderOK'
  <2>1. calls' > 0
    BY <1>1, Sizes DEF CanCall, IInv
  <2> QED
    BY <1>1, <2>1 DEF Running, ReaderOK, Rec
<1>4. QueueOK'
  <2>1. ASSUME NEW i \in 1 .. Len(m_op_queue), m_op_queue[i].code \in Writes
        PROVE  WriteOK(m_op_queue[i])'
    <3>1. PICK x : x = m_op_queue[i]
      OBVIOUS
    <3>2. x \in OpType /\ WriteOK(x)
      BY <1>1, <2>1, <3>1 DEF Running, QueueOK
    <3>3. x.id \in Nat
      BY <3>2, Sizes DEF OpType, Ids
    <3>4. x.id <= m_latest_rec_id'
      BY <1>1, <3>2, <3>3 DEF WriteOK
    <3>5. WriteOK(x)'
      BY <1>1, <3>2, <3>4, Still DEF WriteOK
    <3> QED
      BY <3>1, <3>5 DEF WriteOK
  <2>2. \A i \in 1 .. Len(m_op_queue) : m_op_queue[i].code \in Writes => WriteOK(m_op_queue[i])'
    BY <2>1
  <2>3. /\ m_op_queue \in Seq(OpType) /\ Len(m_op_queue) <= OpQueueSize
        /\ \A i \in 2 .. Len(m_op_queue) : AtStart(m_op_queue[i])
        /\ \A i, j \in 1 .. Len(m_op_queue) :
             m_op_queue[i].code \in Writes /\ m_op_queue[j].code \in Writes /\ i < j =>
               m_op_queue[i].id < m_op_queue[j].id
    BY <1>1 DEF Running, QueueOK
  <2> QED
    BY <2>2, <2>3 DEF QueueOK
<1>5. AccountsOK'
  <2>1. Holding' = Holding /\ \A p \in 1 .. MaxPages : Unwritten(p)' = Unwritten(p)
    BY DEF Holding, Unwritten, ToDo
  <2> QED
    BY <1>1, <2>1 DEF Running, AccountsOK
<1>6. HeadOK'
  <2>1. CASE m_op_queue = <<>>
    BY <1>1, <2>1 DEF Running, HeadOK, Top
  <2>2. CASE m_op_queue # <<>>
    <3>1. PICK q : q = p_op
      OBVIOUS
    <3>2. p_op' = q
      BY <3>1 DEF p_op
    <3>3. Executing(q) /\ (q.code = "file_delete" \/ tok = NoTok)
      BY <1>1, <2>2, <3>1 DEF Running, HeadOK
    <3>4. Executing(q)'
      BY <1>1, <3>3, SameExecuting
    <3>5. InSlot(q)' <=> InSlot(q)
      BY DEF InSlot
    <3>6. \A p \in 1 .. MaxPages :
            m_pages[p].write_offset =
              OffsetOf(IF q.page = p /\ InSlot(q) THEN Top(p + 1) ELSE Top(p + 1) + 1)
      BY <1>1, <2>2, <3>1 DEF Running, HeadOK
    <3>7. \A p \in 1 .. MaxPages :
            m_pages'[p].write_offset =
              OffsetOf(IF q.page = p /\ InSlot(q)' THEN Top(p + 1)' ELSE Top(p + 1)' + 1)
      BY <1>1, <3>5, <3>6 DEF Top
    <3> QED
      BY <1>1, <2>2, <3>2, <3>3, <3>4, <3>7 DEF HeadOK
  <2> QED
    BY <2>1, <2>2
<1> QED
  BY <1>1, <1>2, <1>3, <1>4, <1>5, <1>6 DEF IInv, Running

LEMMA ReserveSet ==
  ASSUME NEW r \in PageRec, NEW w \in 0 .. PageWords,
         NEW x, x = [r EXCEPT !.words_reserved = w]
  PROVE  /\ x \in PageRec /\ x.p_addr = r.p_addr /\ x.page_type = r.page_type
         /\ x.records_open = r.records_open /\ x.write_offset = r.write_offset
         /\ x.words_reserved = w
BY DEF PageRec

\* The operation a write or update becomes.
Placed(op, p, id) == [op EXCEPT !.page = p, !.id = id]

LEMMA NewWrite ==
  ASSUME PagesOK, m_latest_rec_id + 1 \in Ids, WithSpace # {},
         NEW p, p = Min(WithSpace), NEW op \in OpType, NEW id, id = m_latest_rec_id + 1,
         NEW new, new = Placed(op, p, id)
  PROVE  /\ p \in 1 .. MaxPages /\ m_pages[p] \in PageRec
         /\ m_pages[p].write_offset + m_pages[p].words_reserved + RecordWords < PageWords
         /\ new \in OpType /\ new.code = op.code /\ new.step = op.step /\ new.page = p
         /\ new.id = id /\ new.old = op.old /\ new.file = op.file
<1>1. DOMAIN m_pages = 1 .. MaxPages /\ m_pages \in [1 .. MaxPages -> PageRec]
  BY DEF PagesOK
<1>2. WithSpace \subseteq Nat
  BY <1>1, Sizes DEF WithSpace
<1>3. p \in WithSpace
  BY <1>2, MinIn
<1>4. /\ p \in 1 .. MaxPages /\ m_pages[p] \in PageRec
      /\ m_pages[p].write_offset + m_pages[p].words_reserved + RecordWords < PageWords
  BY <1>1, <1>3 DEF WithSpace
<1>5. /\ new \in OpType /\ new.code = op.code /\ new.step = op.step /\ new.page = p
      /\ new.id = id /\ new.old = op.old /\ new.file = op.file
  BY <1>4 DEF OpType, Placed
<1> QED
  BY <1>4, <1>5

LEMMA WriteCall ==
  ASSUME IInv, NEW call, CanCall(call), NEW op, write_enqueue(op),
         op.code \in Writes, AtStart(op), op \in OpType, op.old <= m_latest_rec_id
  PROVE  IInv'
<1>1. m_latest_rec_id' = m_latest_rec_id + 1 /\ m_gc' = m_gc /\ WithSpace # {}
  BY DEF write_enqueue
<1>2. /\ PagesOK /\ IdsOK /\ Running /\ turn \in {"none", "event"}
      /\ m_latest_rec_id \in Nat /\ m_latest_rec_id + 1 \in Ids
  BY <1>1, CallKeeps
<1>3. CASE UNCHANGED <<m_pages, m_chunk_queue, m_op_queue, m_flags, turn>>
  BY <1>1, <1>3, RefusedCall
<1>4. ASSUME HasRoom, m_chunk_queue.count < ChunkQueueSize, NEW p, p = Min(WithSpace),
             NEW at, at = (m_chunk_queue.count + m_chunk_queue.rp) % ChunkQueueSize,
             m_pages' = [m_pages EXCEPT ![p].words_reserved = @ + RecordWords],
             m_chunk_queue' = [m_chunk_queue EXCEPT
                 !.chunk[at] = m_latest_rec_id + 1, !.count = @ + 1],
             Enqueue([op EXCEPT !.page = p, !.id = m_latest_rec_id + 1])
      PROVE  IInv'
  <2>2. PICK new, id : id = m_latest_rec_id + 1 /\ new = Placed(op, p, id)
    OBVIOUS
  <2>1. /\ p \in 1 .. MaxPages /\ m_pages[p] \in PageRec
        /\ m_pages[p].write_offset + m_pages[p].words_reserved + RecordWords < PageWords
        /\ new \in OpType /\ new.code = op.code /\ new.step = op.step /\ new.page = p
        /\ new.id = id /\ new.old = op.old
    BY <1>1, <1>2, <1>4, <2>2, NewWrite
  <2>4. AtStart(new)
    BY <2>1 DEF AtStart
  <2>5. PICK r \in PageRec : r = m_pages[p]
    BY <2>1
  <2>6. r.write_offset \in Nat /\ r.words_reserved \in Nat
    BY <2>5, Sizes DEF PageRec
  <2>7. PICK w : w = r.words_reserved + RecordWords
    OBVIOUS
  <2>8. w \in 0 .. PageWords /\ r.write_offset + w <= PageWords
    BY <2>1, <2>5, <2>6, <2>7, Sizes
  <2>9. PICK x : x = [r EXCEPT !.words_reserved = w]
    BY Zenon
  <2>10. /\ x \in PageRec /\ x.p_addr = r.p_addr /\ x.page_type = r.page_type
         /\ x.records_open = r.records_open /\ x.write_offset = r.write_offset
         /\ x.words_reserved = w
    BY <2>5, <2>8, <2>9, ReserveSet
  <2>11. m_pages' = [m_pages EXCEPT ![p] = x]
    BY <1>4, <2>5, <2>7, <2>9
  <2>12. /\ m_pages' \in [1 .. MaxPages -> PageRec]
         /\ \A q \in 1 .. MaxPages : m_pages'[q] = IF q = p THEN x ELSE m_pages[q]
    BY <1>2, <2>1, <2>10, <2>11 DEF PagesOK
  <2>13. MoreReserved(new)
    <3>1. ASSUME NEW q \in 1 .. MaxPages
          PROVE  /\ m_pages'[q].p_addr = m_pages[q].p_addr
                 /\ m_pages'[q].page_type = m_pages[q].page_type
                 /\ m_pages'[q].records_open = m_pages[q].records_open
                 /\ m_pages'[q].write_offset = m_pages[q].write_offset
                 /\ m_pages'[q].words_reserved = m_pages[q].words_reserved + WordsFor(new, q)
                 /\ m_pages'[q].write_offset + m_pages'[q].words_reserved <= PageWords
      <4>1. CASE q = p
        BY <2>1, <2>5, <2>7, <2>8, <2>10, <2>12, <4>1 DEF WordsFor
      <4>2. CASE q # p
        <5>1. m_pages'[q] = m_pages[q] /\ WordsFor(new, q) = 0
          BY <2>1, <2>12, <4>2 DEF WordsFor
        <5>2. m_pages[q] \in PageRec
          BY <1>2 DEF PagesOK
        <5>3. m_pages[q].words_reserved \in Nat
          BY <5>2, Sizes DEF PageRec
        <5>4. m_pages[q].write_offset + m_pages[q].words_reserved <= PageWords
          BY <1>2 DEF PagesOK
        <5> QED
          BY <5>1, <5>3, <5>4
      <4> QED
        BY <4>1, <4>2
    <3> QED
      BY <2>12, <3>1 DEF MoreReserved
  <2>14. MoreChunks(new)
    <3>1. /\ m_chunk_queue.count \in 0 .. ChunkQueueSize /\ m_chunk_queue.rp \in Nat
          /\ m_chunk_queue.chunk \in [0 .. ChunkQueueSize - 1 -> Ids]
      BY <1>2 DEF Running, AccountsOK
    <3>2. at \in 0 .. ChunkQueueSize - 1
      <4>1. m_chunk_queue.count + m_chunk_queue.rp \in Nat
        BY <3>1, Sizes
      <4> QED
        BY <1>4, <4>1, Sizes, Wraps
    <3>3. PICK ch : ch = [m_chunk_queue.chunk EXCEPT ![at] = id]
      OBVIOUS
    <3>4. ch \in [0 .. ChunkQueueSize - 1 -> Ids]
      BY <1>2, <2>2, <3>1, <3>2, <3>3
    <3>5. m_chunk_queue' = [m_chunk_queue EXCEPT !.chunk = ch, !.count = m_chunk_queue.count + 1]
      BY <1>4, <2>2, <3>3
    <3>6. /\ m_chunk_queue'.chunk = ch /\ m_chunk_queue'.count = m_chunk_queue.count + 1
          /\ m_chunk_queue'.rp = m_chunk_queue.rp
      BY <3>5
    <3> QED
      BY <1>4, <2>1, <3>4, <3>6 DEF MoreChunks
  <2>15. op.old \in Nat /\ new.old < new.id
    <3>1. op.old \in Nat
      BY Sizes DEF OpType, Ids
    <3> QED
      BY <1>2, <2>2, <2>1, <3>1
  <2>16. Enqueue(new)
    BY <1>4, <2>2 DEF Placed
  <2> QED
    BY <1>1, <1>4, <2>2, <2>1, <2>4, <2>13, <2>14, <2>15, <2>16, EnqueueStep
<1> QED
  BY <1>3, <1>4 DEF write_enqueue

LEMMA DeleteCall ==
  ASSUME IInv, NEW call, CanCall(call), HasRoom, NEW op \in OpType, AtStart(op),
         op.code \notin Writes, Enqueue(op),
         UNCHANGED <<m_latest_rec_id, m_chunk_queue, m_pages, m_gc>>
  PROVE  IInv'
<1>1. PagesOK
  BY CallKeeps
<1>2. MoreReserved(op)
  <2>1. \A p \in 1 .. MaxPages : m_pages[p].words_reserved + WordsFor(op, p) = m_pages[p].words_reserved
    <3>1. \A p \in 1 .. MaxPages : m_pages[p] \in PageRec /\ WordsFor(op, p) = 0
      BY <1>1 DEF PagesOK, WordsFor
    <3>2. \A r \in PageRec : r.words_reserved \in Nat
      BY Sizes DEF PageRec
    <3> QED
      BY <3>1, <3>2
  <2> QED
    BY <1>1, <2>1 DEF MoreReserved, PagesOK
<1>3. MoreChunks(op)
  BY DEF MoreChunks
<1> QED
  BY <1>2, <1>3, EnqueueStep

LEMMA CallStep ==
  ASSUME IInv,
         \/ \E f \in Files : \/ fds_record_write(f) \/ fds_file_delete(f)
                             \/ \E id \in 1 .. m_latest_rec_id : fds_record_update(f, id)
         \/ \E id \in 1 .. m_latest_rec_id : fds_record_delete(id)
  PROVE  IInv'
<1>1. 0 \in Ids /\ 1 \in 1 .. MaxPages
  BY Sizes DEF Ids
<1>2. ASSUME NEW f \in Files, fds_record_write(f)
      PROVE  IInv'
  <2>1. PICK op : op = [NoOp EXCEPT !.code = "write", !.step = "HEADER_BEGIN", !.file = f]
    OBVIOUS
  <2>2. op = [code |-> "write", step |-> "HEADER_BEGIN", page |-> 1, id |-> 0, file |-> f, old |-> 0]
    BY <2>1 DEF NoOp
  <2>3. op \in OpType /\ op.code = "write" /\ op.step = "HEADER_BEGIN" /\ op.old = 0
    BY <1>1, <2>2 DEF OpType
  <2>4. CanCall("write") /\ write_enqueue(op)
    BY <1>2, <2>1 DEF fds_record_write
  <2>5. op.old <= m_latest_rec_id
    <3>1. m_latest_rec_id' = m_latest_rec_id + 1 /\ m_gc' = m_gc
      BY <2>4 DEF write_enqueue
    <3>2. m_latest_rec_id \in Nat
      BY <2>4, <3>1, CallKeeps
    <3> QED
      BY <2>3, <3>2
  <2> QED
    BY <2>3, <2>4, <2>5, WriteCall DEF AtStart, Writes
<1>3. ASSUME NEW f \in Files, NEW id \in 1 .. m_latest_rec_id, fds_record_update(f, id)
      PROVE  IInv'
  <2>1. PICK op : op = [NoOp EXCEPT !.code = "update", !.step = "FIND_RECORD", !.file = f, !.old = id]
    OBVIOUS
  <2>2. op = [code |-> "update", step |-> "FIND_RECORD", page |-> 1, id |-> 0, file |-> f, old |-> id]
    BY <2>1 DEF NoOp
  <2>3. CanCall("update") /\ write_enqueue(op)
    BY <1>3, <2>1 DEF fds_record_update
  <2>4. id \in Ids
    <3>1. m_latest_rec_id' = m_latest_rec_id + 1 /\ m_gc' = m_gc
      BY <2>3 DEF write_enqueue
    <3>2. m_latest_rec_id \in Nat /\ m_latest_rec_id + 1 \in Ids
      BY <2>3, <3>1, CallKeeps
    <3> QED
      BY <3>2, Sizes DEF Ids
  <2>5. /\ op \in OpType /\ op.code = "update" /\ op.step = "FIND_RECORD"
        /\ op.old <= m_latest_rec_id
    BY <1>1, <2>2, <2>4 DEF OpType
  <2> QED
    BY <2>3, <2>5, WriteCall DEF AtStart, Writes
<1>4. ASSUME NEW id \in 1 .. m_latest_rec_id, fds_record_delete(id)
      PROVE  IInv'
  <2>1. PICK op : op = [NoOp EXCEPT !.code = "delete", !.step = "DEL_RECORD", !.old = id]
    OBVIOUS
  <2>2. op = [code |-> "delete", step |-> "DEL_RECORD", page |-> 1, id |-> 0, file |-> 0, old |-> id]
    BY <2>1 DEF NoOp
  <2>3. /\ CanCall("delete") /\ HasRoom /\ Enqueue(op)
        /\ UNCHANGED <<m_latest_rec_id, m_chunk_queue, m_pages, m_gc>>
    BY <1>4, <2>1 DEF fds_record_delete
  <2>4. id \in Ids
    <3>1. m_latest_rec_id \in Nat /\ m_latest_rec_id + 1 \in Ids
      BY <2>3, CallKeeps
    <3> QED
      BY <3>1, Sizes DEF Ids
  <2>5. op \in OpType /\ op.code = "delete" /\ op.step = "DEL_RECORD"
    BY <1>1, <2>2, <2>4 DEF OpType
  <2> QED
    BY <2>3, <2>5, DeleteCall DEF AtStart, Writes
<1>5. ASSUME NEW f \in Files, fds_file_delete(f)
      PROVE  IInv'
  <2>1. PICK op : op = [NoOp EXCEPT !.code = "file_delete", !.step = "DEL_FILE", !.file = f]
    OBVIOUS
  <2>2. op = [code |-> "file_delete", step |-> "DEL_FILE", page |-> 1, id |-> 0, file |-> f, old |-> 0]
    BY <2>1 DEF NoOp
  <2>3. /\ CanCall("file_delete") /\ HasRoom /\ Enqueue(op)
        /\ UNCHANGED <<m_latest_rec_id, m_chunk_queue, m_pages, m_gc>>
    BY <1>5, <2>1 DEF fds_file_delete
  <2>4. op \in OpType /\ op.code = "file_delete" /\ op.step = "DEL_FILE"
    BY <1>1, <2>2 DEF OpType
  <2> QED
    BY <2>3, <2>4, DeleteCall DEF AtStart, Writes
<1> QED
  BY <1>2, <1>3, <1>4, <1>5

----------------------------------------------------------------------------
\* Reading.

\* What a step that reads leaves as it was.
LEMMA ReadKeeps ==
  ASSUME IInv, Reading, calls' \in {calls, calls + 1}, calls' \in 0 .. MaxCalls,
         m_pages' \in [1 .. MaxPages -> PageRec],
         \A p \in 1 .. MaxPages :
           /\ m_pages'[p].p_addr = m_pages[p].p_addr
           /\ m_pages'[p].page_type = m_pages[p].page_type
           /\ m_pages'[p].write_offset = m_pages[p].write_offset
           /\ m_pages'[p].words_reserved = m_pages[p].words_reserved,
         ReaderOK'
  PROVE  IInv'
<1>1. /\ turn \in {"none", "event"} /\ "INITIALIZED" \in m_flags
      /\ UNCHANGED <<flash, m_flags, m_latest_rec_id, m_op_queue, m_chunk_queue, m_swap_page,
                     m_gc, tok, desc, request, turn, result>>
  BY DEF Reading, busy
<1>2. PagesOK /\ IdsOK /\ Running
  BY <1>1 DEF IInv, OffState, Starting
<1>3. calls \in Nat /\ calls' \in Nat /\ calls <= calls' /\ m_latest_rec_id \in Nat
      /\ m_latest_rec_id <= calls
  BY <1>2, Sizes DEF IInv, IdsOK
<1>4. FlashOK'
  <2>1. \A a \in Data : \A i \in Valid(a)' : Rec(a, i)'.id <= calls'
    <3> TAKE a \in Data
    <3> TAKE i \in Valid(a)'
    <3>1. i \in Valid(a) /\ Rec(a, i)' = Rec(a, i)
      BY <1>1, Still
    <3>2. Rec(a, i) \in SlotType /\ Rec(a, i).id <= calls
      BY <3>1, PageFacts DEF IInv, FlashOK
    <3>3. Rec(a, i).id \in Nat
      BY <3>2, Sizes DEF SlotType, Ids
    <3> QED
      BY <1>3, <3>1, <3>2, <3>3
  <2>2. Unique'
    BY <1>1 DEF IInv, FlashOK, Unique, Valid, Rec
  <2> QED
    BY <1>1, <2>1, <2>2 DEF IInv, FlashOK, Whole, Blank
<1>5. IdsOK'
  <2>1. \A a \in Data : \A i \in Valid(a)' : Rec(a, i)'.id <= m_latest_rec_id'
    BY <1>1, <1>2, Still DEF IdsOK
  <2> QED
    BY <1>1, <1>3, <2>1 DEF IdsOK
<1>6. PagesOK' /\ TagsOK' /\ m_flags' = Flags'
  <2>1. PagesOK'
    BY <1>1, <1>2 DEF PagesOK
  <2> QED
    BY <1>1, <1>2, <2>1 DEF Running, TagsOK, Flags
<1>7. QueueOK'
  <2>1. ASSUME NEW i \in 1 .. Len(m_op_queue), m_op_queue[i].code \in Writes
        PROVE  WriteOK(m_op_queue[i])'
    <3>1. PICK x : x = m_op_queue[i]
      OBVIOUS
    <3>2. WriteOK(x)
      BY <1>2, <2>1, <3>1 DEF Running, QueueOK
    <3>3. WriteOK(x)'
      BY <1>1, <3>2, Still DEF WriteOK
    <3>4. m_op_queue'[i] = x
      BY <1>1, <3>1
    <3> QED
      BY <3>3, <3>4 DEF WriteOK
  <2>2. \A i \in 1 .. Len(m_op_queue) : m_op_queue[i].code \in Writes => WriteOK(m_op_queue[i])'
    BY <2>1
  <2> QED
    BY <1>1, <1>2, <2>2 DEF Running, QueueOK
<1>8. AccountsOK'
  <2>1. Holding' = Holding /\ \A p \in 1 .. MaxPages : Unwritten(p)' = Unwritten(p)
    BY <1>1 DEF Holding, Unwritten, ToDo
  <2> QED
    BY <1>1, <1>2, <2>1 DEF Running, AccountsOK
<1>9. HeadOK'
  <2>1. CASE m_op_queue = <<>>
    BY <1>1, <1>2, <2>1 DEF Running, HeadOK, Top
  <2>2. CASE m_op_queue # <<>>
    <3>1. PICK q : q = p_op
      OBVIOUS
    <3>2. p_op' = q
      BY <1>1, <3>1 DEF p_op
    <3>3. Executing(q) /\ (q.code = "file_delete" \/ tok = NoTok)
      BY <1>2, <2>2, <3>1 DEF Running, HeadOK
    <3>4. Executing(q)'
      BY <1>1, <3>3, SameExecuting
    <3>5. InSlot(q)' <=> InSlot(q)
      BY <1>1 DEF InSlot
    <3>6. \A p \in 1 .. MaxPages :
            m_pages[p].write_offset =
              OffsetOf(IF q.page = p /\ InSlot(q) THEN Top(p + 1) ELSE Top(p + 1) + 1)
      BY <1>2, <2>2, <3>1 DEF Running, HeadOK
    <3>7. \A p \in 1 .. MaxPages :
            m_pages'[p].write_offset =
              OffsetOf(IF q.page = p /\ InSlot(q)' THEN Top(p + 1)' ELSE Top(p + 1)' + 1)
      BY <1>1, <3>5, <3>6 DEF Top
    <3> QED
      BY <1>1, <2>2, <3>2, <3>3, <3>4, <3>7 DEF HeadOK
  <2> QED
    BY <2>1, <2>2
<1> QED
  BY <1>4, <1>5, <1>6, <1>7, <1>8, <1>9 DEF IInv, Running

\* A record that is found is valid.
LEMMA FoundFile ==
  ASSUME IInv, PagesOK, NEW file, NEW t, FoundInFile(file, t) # {}
  PROVE  LET f == First(FoundInFile(file, t))
         IN  /\ f[1] \in 1 .. MaxPages /\ f[2] \in Valid(f[1] + 1)
             /\ m_pages[f[1]].p_addr = f[1] + 1
<1>1. DOMAIN m_pages = 1 .. MaxPages /\ \A p \in 1 .. MaxPages : m_pages[p].p_addr = p + 1
  BY DEF PagesOK
<1>2. \A a \in Data : ValidOn(flash[a]) = Valid(a) /\ Valid(a) \subseteq Nat
  <2> TAKE a \in Data
  <2>1. Whole(flash[a]) /\ Valid(a) = {i \in 1 .. Top(a) : Rec(a, i).st = "valid"}
    BY PageFacts DEF IInv
  <2>2. ValidOn(flash[a]) = Valid(a)
    BY <2>1, NoHoles DEF Valid
  <2> QED
    BY <2>1, <2>2
<1>3. \A p \in 1 .. MaxPages :
        ValidOn(flash[m_pages[p].p_addr]) = Valid(p + 1) /\ Valid(p + 1) \subseteq Nat
  BY <1>1, <1>2, PageIsData
<1>4. ASSUME NEW f \in FoundInFile(file, t)
      PROVE  /\ f \in Nat \X Nat /\ f[1] \in 1 .. MaxPages /\ f[2] \in Valid(f[1] + 1)
             /\ m_pages[f[1]].p_addr = f[1] + 1
  <2>1. PICK p \in 1 .. MaxPages : f \in {p} \X ValidOn(flash[m_pages[p].p_addr])
    BY <1>1 DEF FoundInFile
  <2>2. f[1] = p /\ f \in {p} \X Valid(p + 1)
    BY <1>3, <2>1
  <2>3. p \in Nat /\ Valid(p + 1) \subseteq Nat
    BY <1>3
  <2> QED
    BY <1>1, <2>2, <2>3
<1>5. FoundInFile(file, t) \subseteq Nat \X Nat
  BY <1>4
<1> QED
  BY <1>4, <1>5, FirstIn

LEMMA FindStep ==
  ASSUME IInv, NEW file \in Files, fds_record_find_in_file(file)
  PROVE  IInv'
<1>1. PagesOK /\ IdsOK /\ Running
  <2>1. "INITIALIZED" \in m_flags
    BY DEF fds_record_find_in_file, Reading
  <2> QED
    BY <2>1 DEF IInv, OffState, Starting
<1>2. /\ calls' \in 0 .. MaxCalls /\ calls' = calls + 1 /\ calls' > 0
      /\ flash' = flash /\ m_pages' = m_pages /\ ~reader.is_open
  BY Sizes DEF fds_record_find_in_file, Reading, IInv
<1>3. PICK f : f = First(FoundInFile(file, NoTok))
  OBVIOUS
<1>4. /\ f[1] \in 1 .. MaxPages /\ f[2] \in Valid(f[1] + 1) /\ m_pages[f[1]].p_addr = f[1] + 1
      /\ reader' = [kind |-> "desc", record_id |-> flash[m_pages[f[1]].p_addr].recs[f[2]].id,
                    p_addr |-> m_pages[f[1]].p_addr, slot |-> f[2],
                    gc_run_count |-> m_gc.run_count, is_open |-> FALSE]
  BY <1>1, <1>3, FoundFile DEF fds_record_find_in_file
<1>5. PICK a \in Data : a = f[1] + 1
  BY <1>4, PageIsData
<1>6. /\ f[2] \in 1 .. Top(a) /\ f[2] \in Nat /\ f[2] \in DOMAIN flash[a].recs
      /\ Rec(a, f[2]).st = "valid" /\ Rec(a, f[2]) \in SlotType /\ a \in Addrs
  BY <1>4, <1>5, PageFacts DEF IInv
<1>7. Rec(a, f[2]).id \in Ids
  BY <1>6 DEF SlotType
<1>8. reader' = [kind |-> "desc", record_id |-> Rec(a, f[2]).id, p_addr |-> a, slot |-> f[2],
                 gc_run_count |-> 0, is_open |-> FALSE]
  BY <1>1, <1>4, <1>5 DEF PagesOK, Rec
<1>9. reader' \in Descriptor
  BY <1>6, <1>7, <1>8 DEF Descriptor
<1>10. ReaderOK'
  <2>1. \A p \in 1 .. MaxPages : m_pages[p].records_open = 0
    BY <1>1, <1>2 DEF Running, ReaderOK
  <2>2. /\ reader'.p_addr = a /\ reader'.slot = f[2] /\ reader'.record_id = Rec(a, f[2]).id
        /\ reader'.gc_run_count = 0 /\ ~reader'.is_open
    BY <1>8
  <2> QED
    BY <1>2, <1>6, <1>9, <2>1, <2>2 DEF ReaderOK, Rec
<1> QED
  BY <1>1, <1>2, <1>10, ReadKeeps DEF fds_record_find_in_file, PagesOK

\* Pages do not move: what was found is where it was.
LEMMA LocatedThere ==
  ASSUME IInv, Reading, reader # NoReader
  PROVE  /\ reader \in Descriptor /\ First(Located) = <<reader.p_addr - 1, reader.slot>>
         /\ reader.p_addr - 1 \in 1 .. MaxPages
         /\ m_pages[reader.p_addr - 1].p_addr = reader.p_addr
         /\ PagesOK /\ Running /\ m_gc.run_count = 0 /\ calls > 0
<1>1. PagesOK /\ IdsOK /\ Running
  BY DEF Reading, IInv, OffState, Starting
<1>2. /\ reader \in Descriptor /\ reader.p_addr \in Data /\ calls > 0
      /\ reader.slot \in DOMAIN flash[reader.p_addr].recs
      /\ Rec(reader.p_addr, reader.slot).id = reader.record_id /\ reader.gc_run_count = 0
  BY <1>1 DEF Running, ReaderOK
<1>3. Cached
  BY <1>1, <1>2 DEF Cached, PagesOK, Rec
<1>4. PICK a, i : a = reader.p_addr /\ i = reader.slot
  OBVIOUS
<1>5. a \in Data /\ a - 1 \in 1 .. MaxPages /\ a \in Nat /\ i \in Nat /\ (a - 1) + 1 = a
  BY <1>2, <1>4, DataIsAddr DEF Descriptor
<1>6. DOMAIN m_pages = 1 .. MaxPages /\ \A p \in 1 .. MaxPages : m_pages[p].p_addr = p + 1
  BY <1>1 DEF PagesOK
<1>7. {q \in DOMAIN m_pages : m_pages[q].p_addr = a} = {a - 1}
  BY <1>5, <1>6
<1>8. Located = {<<a - 1, i>>}
  BY <1>3, <1>4, <1>7 DEF Located
<1>9. First(Located) \in Located
  <2>1. Located \subseteq Nat \X Nat /\ Located # {}
    BY <1>5, <1>8
  <2> QED
    BY <2>1, FirstIn
<1> QED
  BY <1>1, <1>2, <1>4, <1>5, <1>6, <1>8, <1>9 DEF PagesOK

LEMMA OpenSet ==
  ASSUME NEW r \in PageRec, NEW n \in 0 .. MaxCalls, NEW x, x = [r EXCEPT !.records_open = n]
  PROVE  /\ x \in PageRec /\ x.p_addr = r.p_addr /\ x.page_type = r.page_type
         /\ x.records_open = n /\ x.write_offset = r.write_offset
         /\ x.words_reserved = r.words_reserved
BY DEF PageRec

\* Opening and closing count on the page of the record.
LEMMA OpenStep ==
  ASSUME IInv, Reading, reader # NoReader, calls' = calls, NEW open \in BOOLEAN, NEW n,
         n = (IF open THEN 1 ELSE 0), reader.is_open = ~open,
         NEW p, p = First(Located)[1],
         m_pages' = [m_pages EXCEPT ![p].records_open = n],
         reader' = [Refreshed EXCEPT !.is_open = open]
  PROVE  IInv'
<1>1. /\ reader \in Descriptor /\ First(Located) = <<reader.p_addr - 1, reader.slot>>
      /\ reader.p_addr - 1 \in 1 .. MaxPages /\ m_pages[reader.p_addr - 1].p_addr = reader.p_addr
      /\ PagesOK /\ Running /\ m_gc.run_count = 0 /\ calls > 0
  BY LocatedThere
<1>2. p = reader.p_addr - 1 /\ p \in 1 .. MaxPages /\ First(Located)[2] = reader.slot
  BY <1>1
<1>3. PICK a, i, b, id : /\ a = reader.p_addr /\ i = reader.slot /\ b = reader.is_open
                         /\ id = reader.record_id
  OBVIOUS
<1>4. reader = [kind |-> "desc", record_id |-> id, p_addr |-> a, slot |-> i,
                gc_run_count |-> 0, is_open |-> b]
  BY <1>1, <1>3 DEF Descriptor
<1>5. Refreshed = [reader EXCEPT !.p_addr = a, !.slot = i, !.gc_run_count = 0]
  BY <1>1, <1>2, <1>3 DEF Refreshed
<1>6. Refreshed = reader
  <2>1. PICK x, y : x = reader /\ y = Refreshed
    OBVIOUS
  <2>2. x = [kind |-> "desc", record_id |-> id, p_addr |-> a, slot |-> i,
             gc_run_count |-> 0, is_open |-> b]
    BY <1>4, <2>1
  <2>3. y = [x EXCEPT !.p_addr = a, !.slot = i, !.gc_run_count = 0]
    BY <1>5, <2>1
  <2>4. y = [kind |-> "desc", record_id |-> id, p_addr |-> a, slot |-> i,
             gc_run_count |-> 0, is_open |-> b]
    BY <2>2, <2>3
  <2> QED
    BY <2>1, <2>2, <2>4, Zenon
<1>7. reader' = [kind |-> "desc", record_id |-> id, p_addr |-> a, slot |-> i,
                 gc_run_count |-> 0, is_open |-> open]
  BY <1>4, <1>6
<1>8. a \in Data /\ a \in Nat /\ p + 1 = a /\ p \in Nat
  BY <1>1, <1>2, <1>3, DataIsAddr DEF Running, ReaderOK
<1>9. PICK r \in PageRec : r = m_pages[p]
  BY <1>1, <1>2 DEF PagesOK
<1>10. n \in 0 .. MaxCalls
  BY <1>1, Sizes DEF IInv
<1>11. PICK x : x = [r EXCEPT !.records_open = n]
  OBVIOUS
<1>12. /\ x \in PageRec /\ x.p_addr = r.p_addr /\ x.page_type = r.page_type
       /\ x.records_open = n /\ x.write_offset = r.write_offset
       /\ x.words_reserved = r.words_reserved
  BY <1>10, <1>11, OpenSet
<1>13. /\ m_pages' \in [1 .. MaxPages -> PageRec]
       /\ \A q \in 1 .. MaxPages : m_pages'[q] = IF q = p THEN x ELSE m_pages[q]
  <2>1. m_pages' = [m_pages EXCEPT ![p] = x]
    BY <1>9, <1>11
  <2> QED
    BY <1>1, <1>2, <1>12, <2>1 DEF PagesOK
<1>14. flash' = flash
  BY DEF Reading
<1>15. ReaderOK'
  <2>1. /\ a \in Data /\ i \in DOMAIN flash[a].recs /\ Rec(a, i).id = id
        /\ Rec(a, i).st \in {"valid", "dirty"}
    BY <1>1, <1>3 DEF Running, ReaderOK
  <2>2. reader' \in Descriptor
    <3>1. id \in Ids /\ a \in Addrs /\ i \in Nat
      BY <1>1, <1>3 DEF Descriptor
    <3>2. PICK y : y = reader'
      OBVIOUS
    <3>3. y \in Descriptor
      BY <1>7, <3>1, <3>2 DEF Descriptor
    <3> QED
      BY <3>2, <3>3
  <2>3. \A q \in 1 .. MaxPages : q # p => m_pages[q].records_open = 0
    BY <1>1, <1>3, <1>8, Sizes DEF Running, ReaderOK
  <2>4. \A q \in 1 .. MaxPages : m_pages'[q].records_open = IF open /\ a = q + 1 THEN 1 ELSE 0
    <3> TAKE q \in 1 .. MaxPages
    <3>1. CASE q = p
      BY <1>8, <1>12, <1>13, <3>1
    <3>2. CASE q # p
      BY <1>8, <1>13, <2>3, <3>2
    <3> QED
      BY <3>1, <3>2
  <2>5. /\ reader'.p_addr = a /\ reader'.slot = i /\ reader'.record_id = id
        /\ reader'.gc_run_count = 0 /\ reader'.is_open = open
    BY <1>7
  <2> QED
    BY <1>1, <1>14, <2>1, <2>2, <2>4, <2>5 DEF ReaderOK, Rec
<1>16. \A q \in 1 .. MaxPages :
         /\ m_pages'[q].p_addr = m_pages[q].p_addr
         /\ m_pages'[q].page_type = m_pages[q].page_type
         /\ m_pages'[q].write_offset = m_pages[q].write_offset
         /\ m_pages'[q].words_reserved = m_pages[q].words_reserved
  BY <1>9, <1>12, <1>13
<1> QED
  BY <1>13, <1>15, <1>16, ReadKeeps DEF IInv

LEMMA ReadStep ==
  ASSUME IInv, fds_record_open \/ fds_record_close
  PROVE  IInv'
<1>1. Reading /\ reader # NoReader /\ calls' = calls
  BY DEF fds_record_open, fds_record_close
<1>2. /\ reader \in Descriptor /\ First(Located) = <<reader.p_addr - 1, reader.slot>>
      /\ reader.p_addr - 1 \in 1 .. MaxPages /\ Running
  BY <1>1, LocatedThere
<1>3. PICK p : p = First(Located)[1] /\ p = reader.p_addr - 1 /\ p \in 1 .. MaxPages
  BY <1>2
<1>4. p + 1 = reader.p_addr
  BY <1>2, <1>3, Sizes DEF Descriptor, Addrs
<1>5. m_pages[p].records_open = IF reader.is_open THEN 1 ELSE 0
  BY <1>2, <1>3, <1>4 DEF Running, ReaderOK
<1>6. reader.is_open \in BOOLEAN
  BY <1>2 DEF Descriptor
<1>7. CASE fds_record_open
  <2>1. /\ ~reader.is_open /\ m_pages' = [m_pages EXCEPT ![p].records_open = @ + 1]
        /\ reader' = [Refreshed EXCEPT !.is_open = TRUE]
    BY <1>3, <1>7 DEF fds_record_open
  <2>2. m_pages[p].records_open + 1 = 1
    BY <1>5, <2>1
  <2>3. m_pages' = [m_pages EXCEPT ![p].records_open = 1]
    BY <2>1, <2>2
  <2>4. reader.is_open = ~TRUE
    BY <1>6, <2>1
  <2> QED
    BY <1>1, <1>3, <2>1, <2>3, <2>4, OpenStep
<1>8. CASE fds_record_close
  <2>1. /\ reader.is_open /\ m_pages' = [m_pages EXCEPT ![p].records_open = @ - 1]
        /\ reader' = [Refreshed EXCEPT !.is_open = FALSE]
    BY <1>3, <1>8 DEF fds_record_close
  <2>2. m_pages[p].records_open - 1 = 0
    BY <1>5, <2>1
  <2>3. m_pages' = [m_pages EXCEPT ![p].records_open = 0]
    BY <2>1, <2>2
  <2>4. reader.is_open = ~FALSE
    BY <1>6, <2>1
  <2> QED
    BY <1>1, <1>3, <2>1, <2>3, <2>4, OpenStep
<1> QED
  BY <1>7, <1>8

----------------------------------------------------------------------------
\* Every step.

LEMMA InitHolds ==
  ASSUME Init
  PROVE  IInv
<1>1. DOMAIN flash = Addrs /\ \A a \in Addrs : flash[a] = Erased
  BY DEF Init
<1>2. Whole(Erased)
  <2>1. Erased \in PageSet /\ Len(Erased.recs) + 1 = 1 /\ DOMAIN Erased.recs = {}
    BY DEF Erased, PageSet
  <2>2. OffsetOf(Len(Erased.recs) + 1) <= PageWords
    BY <2>1, OffsetOne, Sizes
  <2> QED
    BY <2>1, <2>2 DEF Whole
<1>3. 1 \in Addrs /\ \A a \in Data : a \in Addrs
  BY DataIsAddr, Sizes DEF Addrs
<1>4. \A a \in Data : Valid(a) = {}
  BY <1>1, <1>3 DEF Valid, ValidSlots, Erased
<1>5. FlashOK
  BY <1>1, <1>2, <1>3, <1>4 DEF FlashOK, Blank, Unique
<1>6. OffState
  BY DEF Init, OffState
<1> QED
  BY <1>5, <1>6, Sizes DEF IInv, Init

LEMMA StaysSo ==
  ASSUME IInv, UNCHANGED vars
  PROVE  IInv'
<1>1. UNCHANGED <<flash, m_flags, m_latest_rec_id, m_op_queue, m_chunk_queue, m_pages,
                  m_swap_page, m_gc, tok, desc, request, turn, result, reader, calls>>
  BY DEF vars, ram, setup, busy, env
<1>2. calls' \in 0 .. MaxCalls /\ FlashOK'
  BY <1>1 DEF IInv, FlashOK, Whole, Blank, Unique, Valid, Rec
<1>3. CASE OffState
  <2>1. OffState'
    BY <1>1, <1>3 DEF OffState
  <2> QED
    BY <1>2, <2>1 DEF IInv
<1>4. CASE PagesOK /\ IdsOK /\ Starting
  <2>1. PagesOK' /\ IdsOK'
    BY <1>1, <1>4, Still DEF PagesOK, IdsOK
  <2>2. p_op' = p_op
    BY <1>1 DEF p_op
  <2>3. Tagging'
    BY <1>1, <1>4, <2>2 DEF Starting, Tagging, Due, InFlight, Blank
  <2>4. Starting'
    BY <1>1, <1>4, <2>2, <2>3, Still DEF Starting
  <2> QED
    BY <1>2, <2>1, <2>4 DEF IInv
<1>5. CASE PagesOK /\ IdsOK /\ Running
  <2>1. /\ PagesOK' /\ IdsOK'
    BY <1>1, <1>5, Still DEF PagesOK, IdsOK
  <2>2. TagsOK' /\ m_flags' = Flags' /\ ReaderOK'
    BY <1>1, <1>5, Still DEF Running, TagsOK, Flags, ReaderOK
  <2>3. QueueOK'
    <3>1. ASSUME NEW i \in 1 .. Len(m_op_queue), m_op_queue[i].code \in Writes
          PROVE  WriteOK(m_op_queue[i])'
      <4>1. PICK x : x = m_op_queue[i]
        OBVIOUS
      <4>2. WriteOK(x)
        BY <1>5, <3>1, <4>1 DEF Running, QueueOK
      <4>3. WriteOK(x)'
        BY <1>1, <4>2, Still DEF WriteOK
      <4>4. m_op_queue'[i] = x
        BY <1>1, <4>1
      <4> QED
        BY <4>3, <4>4 DEF WriteOK
    <3>2. \A i \in 1 .. Len(m_op_queue) :
            m_op_queue[i].code \in Writes => WriteOK(m_op_queue[i])'
      BY <3>1
    <3> QED
      BY <1>1, <1>5, <3>2 DEF Running, QueueOK
  <2>4. AccountsOK'
    <3>1. Holding' = Holding /\ \A p \in 1 .. MaxPages : Unwritten(p)' = Unwritten(p)
      BY <1>1 DEF Holding, Unwritten, ToDo
    <3> QED
      BY <1>1, <1>5, <3>1 DEF Running, AccountsOK
  <2>5. HeadOK'
    <3>1. CASE m_op_queue = <<>>
      BY <1>1, <1>5, <3>1 DEF Running, HeadOK, Top
    <3>2. CASE m_op_queue # <<>>
      <4>1. PICK q : q = p_op
        OBVIOUS
      <4>2. p_op' = q
        BY <1>1, <4>1 DEF p_op
      <4>3. Executing(q) /\ (q.code = "file_delete" \/ tok = NoTok)
        BY <1>5, <3>2, <4>1 DEF Running, HeadOK
      <4>4. Executing(q)'
        BY <1>1, <4>3, SameExecuting
      <4>5. InSlot(q)' <=> InSlot(q)
        BY <1>1 DEF InSlot
      <4>6. \A p \in 1 .. MaxPages :
              m_pages[p].write_offset =
                OffsetOf(IF q.page = p /\ InSlot(q) THEN Top(p + 1) ELSE Top(p + 1) + 1)
        BY <1>5, <3>2, <4>1 DEF Running, HeadOK
      <4>7. \A p \in 1 .. MaxPages :
              m_pages'[p].write_offset =
                OffsetOf(IF q.page = p /\ InSlot(q)' THEN Top(p + 1)' ELSE Top(p + 1)' + 1)
        BY <1>1, <4>5, <4>6 DEF Top
      <4> QED
        BY <1>1, <3>2, <4>2, <4>3, <4>4, <4>7 DEF HeadOK
    <3> QED
      BY <3>1, <3>2
  <2> QED
    BY <1>2, <2>1, <2>2, <2>3, <2>4, <2>5 DEF IInv, Running
<1> QED
  BY <1>3, <1>4, <1>5 DEF IInv

LEMMA Inductive ==
  ASSUME Plain, IInv, [Next]_vars
  PROVE  IInv'
<1>1. CASE fds_init
  <2>1. OffState
    <3> SUFFICES ASSUME PagesOK PROVE FALSE
      BY DEF IInv
    <3>1. DOMAIN m_pages = 1 .. MaxPages /\ m_pages = <<>>
      BY <1>1 DEF PagesOK, fds_init
    <3>2. 1 \in DOMAIN m_pages
      BY <3>1, Sizes
    <3>3. DOMAIN <<>> = {}
      OBVIOUS
    <3> QED
      BY <3>1, <3>2, <3>3
  <2> QED
    BY <1>1, <2>1, BootStep DEF IInv
<1>2. CASE gc_execute
  <2>1. turn \in {"ok", "timeout"} /\ p_op.code = "gc"
    BY <1>2 DEF gc_execute
  <2>2. p_op \in OpType
    BY <2>1, TurnOk
  <2> QED
    BY <2>1, <2>2 DEF OpType
<1>3. CASE fds_gc
  BY <1>3 DEF fds_gc, CanCall, Plain
<1>4. CASE FlashTimeout
  BY <1>4 DEF FlashTimeout, Plain
<1>5. CASE UNCHANGED vars
  BY <1>5, StaysSo
<1>6. CASE \E f \in Files : fds_record_find_in_file(f)
  BY <1>6, FindStep
<1>7. CASE init_execute
  BY <1>7, InitStepKept
<1>8. CASE write_execute
  BY <1>8, WriteStepKept
<1>9. CASE delete_execute
  BY <1>9, DeleteStepKept
<1>10. CASE Advance
  BY <1>10, AdvanceStep
<1>11. CASE FlashDone
  BY <1>11, FlashDoneStep
<1>12. CASE PowerLoss
  BY <1>12, PowerLossStep
<1>13. CASE fds_record_open \/ fds_record_close
  BY <1>13, ReadStep
<1>14. CASE \/ \E f \in Files : \/ fds_record_write(f) \/ fds_file_delete(f)
                                \/ \E id \in 1 .. m_latest_rec_id : fds_record_update(f, id)
            \/ \E id \in 1 .. m_latest_rec_id : fds_record_delete(id)
  BY <1>14, CallStep
<1> QED
  BY <1>1, <1>2, <1>3, <1>4, <1>5, <1>6, <1>7, <1>8, <1>9, <1>10, <1>11, <1>12, <1>13, <1>14
     DEF Next

----------------------------------------------------------------------------
\* What the invariant says of the properties.

\* The records flash holds, whatever is tagged yet, are the valid ones on its pages
\* of data.
LEMMA ContentOf ==
  FlashOK => \A r : r \in Content <=> \E a \in Data : \E i \in Valid(a) : r = RecordOf(Rec(a, i))
<1> SUFFICES ASSUME FlashOK
             PROVE  \A r : r \in Content <=>
                             \E a \in Data : \E i \in Valid(a) : r = RecordOf(Rec(a, i))
  OBVIOUS
<1>1. \A a \in Addrs : LiveOn(a) = {RecordOf(Rec(a, i)) : i \in Valid(a)}
  <2> TAKE a \in Addrs
  <2>1. Whole(flash[a])
    BY DEF FlashOK
  <2> QED
    BY <2>1, NoHoles DEF LiveOn, Valid, Rec
<1>2. \A a \in Addrs : a = 1 \/ a \in Data
  BY Sizes DEF Addrs, Data
<1>3. Valid(1) = {} /\ flash[1].tag # "data" /\ 1 \in Addrs
  BY Sizes DEF FlashOK, Erased, SwapPage, Valid, ValidSlots, Addrs
<1>4. \A a \in Data : a \in Addrs /\ (a \in Tagged("data") \/ Valid(a) = {}) /\ a \notin Tagged("swap")
  BY DataIsAddr DEF FlashOK, Tagged, Erased, Valid, ValidSlots
<1>5. \A a \in Tagged("data") : a \in Data
  BY <1>2, <1>3 DEF Tagged
<1>6. \A a \in Tagged("swap") : LiveOn(a) = {}
  BY <1>1, <1>2, <1>3, <1>4 DEF Tagged
<1>7. \A r : r \in Content <=> \E a \in Tagged("data") : r \in LiveOn(a)
  BY <1>6 DEF Content
<1>8. \A r : \A a \in Data :
        (a \in Tagged("data") /\ r \in LiveOn(a)) <=> \E i \in Valid(a) : r = RecordOf(Rec(a, i))
  BY <1>1, <1>4
<1> QED
  BY <1>5, <1>7, <1>8

LEMMA IsVisible ==
  ASSUME IInv
  PROVE  Visible
<1> SUFFICES ASSUME turn \in {"none", "event"}, "INITIALIZED" \in m_flags
             PROVE  Found = Content /\ \A r, q \in Content : r.id = q.id => r = q
  BY DEF Visible
<1>1. PagesOK /\ TagsOK /\ FlashOK
  BY DEF IInv, OffState, Starting, Running
<1>2. \A r : r \in Content <=> \E a \in Data : \E i \in Valid(a) : r = RecordOf(Rec(a, i))
  BY <1>1, ContentOf
<1>3. Found = Content
  <2>1. {q \in DOMAIN m_pages : m_pages[q].page_type = "data"} = 1 .. MaxPages
    BY <1>1 DEF PagesOK, TagsOK
  <2>2. Found = UNION {LiveOn(p + 1) : p \in 1 .. MaxPages}
    BY <1>1, <2>1 DEF Found, PagesOK
  <2>3. {p + 1 : p \in 1 .. MaxPages} = Data
    BY Sizes DEF Data
  <2>4. \A a \in Data : LiveOn(a) = {RecordOf(Rec(a, i)) : i \in Valid(a)}
    <3> TAKE a \in Data
    <3>1. Whole(flash[a])
      BY <1>1, PageFacts
    <3> QED
      BY <3>1, NoHoles DEF LiveOn, Valid, Rec
  <2>5. \A r : r \in Found <=> \E a \in Data : r \in LiveOn(a)
    BY <2>2, <2>3
  <2> QED
    BY <1>2, <2>4, <2>5
<1>4. ASSUME NEW r \in Content, NEW q \in Content, r.id = q.id
      PROVE  r = q
  <2>1. PICK a \in Data : \E i \in Valid(a) : r = RecordOf(Rec(a, i))
    BY <1>2
  <2>2. PICK b \in Data : \E j \in Valid(b) : q = RecordOf(Rec(b, j))
    BY <1>2
  <2>3. PICK i \in Valid(a) : r = RecordOf(Rec(a, i))
    BY <2>1
  <2>4. PICK j \in Valid(b) : q = RecordOf(Rec(b, j))
    BY <2>2
  <2>5. Rec(a, i).id = Rec(b, j).id
    BY <1>4, <2>3, <2>4 DEF RecordOf
  <2>6. a = b /\ i = j
    BY <1>1, <2>5 DEF FlashOK, Unique
  <2> QED
    BY <2>3, <2>4, <2>6
<1> QED
  BY <1>3, <1>4

LEMMA IsTruthful ==
  ASSUME IInv
  PROVE  EventTruthful
<1> SUFFICES ASSUME turn = "event", result = "success"
             PROVE  /\ p_op.code \in {"write", "update"} => \E r \in Content : r.id = p_op.id
                    /\ p_op.code \in {"delete", "update"} => \A r \in Content : r.id # p_op.old
                    /\ p_op.code = "file_delete" => \A r \in Content : r.file # p_op.file
  BY DEF EventTruthful
<1>1. Running /\ FlashOK /\ TagsOK
  BY DEF IInv, OffState, Starting, Running
<1>2. Executing(p_op)
  BY <1>1 DEF Running, HeadOK
<1>3. Truthful(p_op)
  BY <1>2 DEF Executing, Starts, Opening, Filling, Storing, Sealing, Sealed, Replacing, Replaced,
              Marking, Marked, Sweeping, Clearing, Ended, Due, InFlight
<1>4. \A r : r \in Content <=> \E a \in Data : \E i \in Valid(a) : r = RecordOf(Rec(a, i))
  BY <1>1, ContentOf
<1>5. \A a, i : RecordOf(Rec(a, i)).id = Rec(a, i).id /\ RecordOf(Rec(a, i)).file = Rec(a, i).file
  BY DEF RecordOf
<1> HIDE DEF Content
<1> QED
  BY <1>3, <1>4, <1>5 DEF Truthful, Fresh, Writes

LEMMA IsTagged ==
  ASSUME IInv
  PROVE  SwapIsTagged
<1> SUFFICES ASSUME "INITIALIZED" \in m_flags
             PROVE  /\ flash[m_swap_page.p_addr] = [tag |-> "swap", recs |-> <<>>]
                    /\ \A p \in DOMAIN m_pages : flash[m_pages[p].p_addr].tag = "data"
  BY DEF SwapIsTagged
<1>1. PagesOK /\ TagsOK
  BY DEF IInv, OffState, Starting, Running
<1>2. flash[1] = SwapPage /\ m_swap_page.p_addr = 1
  BY <1>1 DEF PagesOK, TagsOK
<1>3. \A p \in DOMAIN m_pages : p \in 1 .. MaxPages /\ m_pages[p].p_addr = p + 1
  BY <1>1 DEF PagesOK
<1> QED
  BY <1>1, <1>2, <1>3, PageIsData DEF TagsOK, SwapPage

\* What fstorage is busy with.
LEMMA Requests ==
  ASSUME IInv, request # None
  PROVE  \/ /\ request.kind = "tag" /\ request.page \in {SwapPage, EmptyDataPage}
         \/ /\ PagesOK /\ IdsOK /\ Running /\ m_op_queue # <<>>
            /\ \E kind, a, i, v : Asked(kind, a, i, v)
<1>1. PagesOK /\ IdsOK /\ (Starting \/ Running)
  BY DEF IInv, OffState
<1>2. CASE Starting
  BY <1>2 DEF Starting, Tagging, Due
<1>3. CASE Running
  <2>1. m_op_queue # <<>>
    BY <1>3 DEF Running, HeadOK
  <2> QED
    BY <1>1, <1>3, <2>1, RequestMeans
<1> QED
  BY <1>1, <1>2, <1>3

LEMMA NothingOverwritten ==
  ASSUME IInv
  PROVE  NoOverwrite
<1> SUFFICES ASSUME request # None, request.kind \in {"begin", "copy"}
             PROVE  request.slot \notin DOMAIN flash[request.addr].recs
  BY DEF NoOverwrite
<1>1. PICK kind, a, i, v : Asked(kind, a, i, v)
  BY Requests
<1>2. request.kind = kind /\ request.addr = a /\ request.slot = i
  BY <1>1 DEF Asked, Asks
<1>3. a \in Data /\ i = Top(a) + 1
  BY <1>1, <1>2 DEF Asked
<1>4. DOMAIN flash[a].recs = 1 .. Top(a) /\ Top(a) \in Nat
  BY <1>3, PageFacts DEF IInv
<1> QED
  BY <1>2, <1>3, <1>4

LEMMA WholeIsTyped ==
  ASSUME NEW page \in PageSet, OffsetOf(Len(page.recs) + 1) <= PageWords
  PROVE  PageType(page)
BY DEF PageType, PageSet

LEMMA RequestTyped ==
  ASSUME IInv, request # None
  PROVE  PageType(request.page)
<1>1. \A page \in {SwapPage, EmptyDataPage} : PageType(page)
  <2> TAKE page \in {SwapPage, EmptyDataPage}
  <2>1. page \in PageSet /\ Len(page.recs) + 1 = 1
    <3>1. <<>> \in Seq(SlotType) /\ Len(<<>>) + 1 = 1
      OBVIOUS
    <3>2. page.tag \in {"erased", "data", "swap"} /\ page.recs = <<>>
      BY DEF SwapPage, EmptyDataPage
    <3>3. page = [tag |-> page.tag, recs |-> <<>>]
      BY DEF SwapPage, EmptyDataPage
    <3> QED
      BY <3>1, <3>2, <3>3 DEF PageSet
  <2>2. OffsetOf(Len(page.recs) + 1) <= PageWords
    BY <2>1, OffsetOne, Sizes
  <2> QED
    BY <2>1, <2>2, WholeIsTyped
<1>2. ASSUME NEW kind, NEW a, NEW i, NEW v, Asked(kind, a, i, v)
      PROVE  PageType(request.page)
  <2>1. /\ request.page = Put(flash[a], i, v) /\ a \in Data /\ i \in 1 .. Top(a) + 1
        /\ v \in SlotType /\ (i > Top(a) => OffsetOf(Top(a) + 2) <= PageWords)
    BY <1>2 DEF Asked, Asks
  <2>2. flash[a] \in PageSet /\ Top(a) \in Nat /\ OffsetOf(Top(a) + 1) <= PageWords
    BY <2>1, PageFacts DEF IInv, Whole, Top
  <2>3. /\ Put(flash[a], i, v) \in PageSet
        /\ Len(Put(flash[a], i, v).recs) = IF i > Top(a) THEN i ELSE Top(a)
    BY <2>1, <2>2, PutOn DEF Top
  <2>4. i > Top(a) => i + 1 = Top(a) + 2
    BY <2>1, <2>2
  <2>5. OffsetOf(Len(Put(flash[a], i, v).recs) + 1) <= PageWords
    BY <2>1, <2>2, <2>3, <2>4
  <2> QED
    BY <2>1, <2>3, <2>5, WholeIsTyped
<1> QED
  BY <1>1, <1>2, Requests

LEMMA SlotThere ==
  ASSUME NEW op, Executing(op), InSlot(op)
  PROVE  Top(Home(op)) > 0
<1>1. \/ Filling(op) \/ Storing(op) \/ Sealing(op) \/ Sealed(op) \/ Replacing(op)
      \/ Replaced(op)
  BY DEF Executing, InSlot, Starts, AtStart, Opening, Marking, Marked, Sweeping, Clearing, Ended,
         Due, InFlight, Writes
<1> QED
  BY <1>1 DEF Filling, Storing, Sealing, Sealed, Replacing, Replaced, Begins, Stands

LEMMA IsTyped ==
  ASSUME IInv
  PROVE  TypeOK
<1>1. \A a \in Addrs : PageType(flash[a])
  BY WholeIsTyped DEF IInv, FlashOK, Whole
<1>2. m_flags \subseteq {"INITIALIZING", "INITIALIZED", "PROCESSING"}
  BY DEF IInv, OffState, Starting, Running, Flags
<1>3. m_latest_rec_id \in Ids
  BY Sizes DEF IInv, OffState, IdsOK, Ids
<1>4. Len(m_op_queue) <= OpQueueSize
  <2>1. OffState => Len(m_op_queue) = 0
    BY DEF OffState
  <2>2. Starting => Len(m_op_queue) = 1
    BY DEF Starting
  <2>3. Running => Len(m_op_queue) <= OpQueueSize
    BY DEF Running, QueueOK
  <2> QED
    BY <2>1, <2>2, <2>3, Sizes DEF IInv
<1>5. m_chunk_queue.rp \in Nat /\ m_chunk_queue.count \in 0 .. ChunkQueueSize
  BY Sizes DEF IInv, OffState, Starting, Running, AccountsOK, NoChunks
<1>6. ASSUME NEW p \in DOMAIN m_pages
      PROVE  /\ m_pages[p].p_addr \in Addrs /\ m_pages[p].page_type \in {"data", "erased"}
             /\ m_pages[p].write_offset \in TagWords .. PageWords
             /\ m_pages[p].words_reserved \in 0 .. PageWords
             /\ m_pages[p].records_open \in 0 .. MaxCalls
  <2>1. PagesOK /\ (Starting \/ Running)
    BY <1>6 DEF IInv, OffState
  <2>2. p \in 1 .. MaxPages /\ m_pages[p] \in PageRec
    BY <1>6, <2>1 DEF PagesOK
  <2>3. PICK r \in PageRec : r = m_pages[p]
    BY <2>2
  <2>4. /\ r.p_addr \in Addrs /\ r.page_type \in {"data", "erased"}
        /\ r.write_offset \in 0 .. PageWords /\ r.words_reserved \in 0 .. PageWords
        /\ r.records_open \in 0 .. MaxCalls
    BY DEF PageRec
  <2>5. p + 1 \in Data /\ Top(p + 1) \in Nat
    BY <2>2, PageIsData, PageFacts DEF IInv
  <2>6. PICK k \in Nat : k >= 1 /\ r.write_offset = OffsetOf(k)
    <3>1. CASE Starting
      <4>1. r.write_offset = OffsetOf(Top(p + 1) + 1)
        BY <2>2, <2>3, <3>1 DEF Starting
      <4> QED
        BY <2>5, <4>1
    <3>2. CASE Running
      <4>1. r.write_offset =
              OffsetOf(IF m_op_queue # <<>> /\ p_op.page = p /\ InSlot(p_op)
                       THEN Top(p + 1) ELSE Top(p + 1) + 1)
        BY <2>2, <2>3, <3>2 DEF Running, HeadOK
      <4>2. CASE m_op_queue # <<>> /\ p_op.page = p /\ InSlot(p_op)
        <5>1. Top(p + 1) >= 1
          <6>1. Executing(p_op)
            BY <3>2, <4>2 DEF Running, HeadOK
          <6>2. Top(Home(p_op)) > 0
            BY <4>2, <6>1, SlotThere
          <6> QED
            BY <2>5, <4>2, <6>2 DEF Home
        <5> QED
          BY <2>5, <4>1, <4>2, <5>1
      <4>3. CASE ~(m_op_queue # <<>> /\ p_op.page = p /\ InSlot(p_op))
        BY <2>5, <4>1, <4>3
      <4> QED
        BY <4>2, <4>3
    <3> QED
      BY <2>1, <3>1, <3>2
  <2>7. OffsetOf(k) >= TagWords /\ OffsetOf(k) \in Nat
    BY <2>6, Offset
  <2>8. r.write_offset \in TagWords .. PageWords
    BY <2>4, <2>6, <2>7, Sizes
  <2> QED
    BY <2>3, <2>4, <2>8
<1>7. m_swap_page.p_addr \in 0 .. VirtualPages
  BY Sizes DEF IInv, OffState, PagesOK, NoSwap
<1>8. request = None \/ PageType(request.page)
  BY RequestTyped
<1>9. /\ turn \in {"none", "ok", "timeout", "event"}
      /\ turn # "none" => m_op_queue # <<>>
  <2>1. CASE OffState
    BY <2>1 DEF OffState
  <2>2. CASE Starting
    <3>1. m_op_queue # <<>>
      <4>1. Len(m_op_queue) = 1
        BY <2>2 DEF Starting
      <4>2. Len(<<>>) = 0
        OBVIOUS
      <4> QED
        BY <4>1, <4>2
    <3>2. Tagging
      BY <2>2 DEF Starting
    <3> QED
      BY <3>1, <3>2 DEF Tagging, Due, InFlight
  <2>3. CASE Running
    <3>1. CASE m_op_queue = <<>>
      BY <2>3, <3>1 DEF Running, HeadOK
    <3>2. CASE m_op_queue # <<>>
      <4>1. Executing(p_op)
        BY <2>3, <3>2 DEF Running, HeadOK
      <4>2. turn \in {"ok", "none", "event"}
        BY <4>1 DEF Executing, Starts, Opening, Filling, Storing, Sealing, Sealed, Replacing,
                    Replaced, Marking, Marked, Sweeping, Clearing, Ended, Due, InFlight
      <4> QED
        BY <3>2, <4>2
    <3> QED
      BY <3>1, <3>2
  <2> QED
    BY <2>1, <2>2, <2>3 DEF IInv
<1> QED
  BY <1>1, <1>2, <1>3, <1>4, <1>5, <1>6, <1>7, <1>8, <1>9 DEF TypeOK

----------------------------------------------------------------------------
\* The theorems.

\* Nothing fds keeps in memory leaves its range, and no record, chunk or
\* operation is placed beyond the end of its page or queue, whatever the
\* application calls and whenever the power fails (write_space_reserve,
\* op_enqueue, page_offsets_update, pages_init).
THEOREM PagesKeepTheirSize == ASSUME Plain PROVE Spec => []TypeOK
<1>1. Init => IInv
  BY InitHolds
<1>2. IInv /\ [Next]_vars => IInv'
  BY Inductive
<1>3. IInv => TypeOK
  BY IsTyped
<1> QED
  BY <1>1, <1>2, <1>3, PTL DEF Spec

\* Whenever the application may look for records it finds exactly those flash
\* holds, and never two with one identifier: although fds keeps the identifier it
\* gave out last in memory only, no other record gets it after a reset
\* (page_scan, pages_init, write_enqueue).
THEOREM RecordsAreVisible == ASSUME Plain PROVE Spec => []Visible
<1>1. Init => IInv
  BY InitHolds
<1>2. IInv /\ [Next]_vars => IInv'
  BY Inductive
<1>3. IInv => Visible
  BY IsVisible
<1> QED
  BY <1>1, <1>2, <1>3, PTL DEF Spec

\* An event that reports success tells the truth: what was to be written is in
\* flash, what was to be deleted or replaced is not (write_execute,
\* delete_execute, event_prepare).
THEOREM EventsAreTruthful == ASSUME Plain PROVE Spec => []EventTruthful
<1>1. Init => IInv
  BY InitHolds
<1>2. IInv /\ [Next]_vars => IInv'
  BY Inductive
<1>3. IInv => EventTruthful
  BY IsTruthful
<1> QED
  BY <1>1, <1>2, <1>3, PTL DEF Spec

\* Once fds is initialized the swap is tagged and empty and every page it
\* writes records to is tagged as data, however often the initialization was
\* cut short (pages_init, init_execute).
THEOREM SwapStaysTagged == ASSUME Plain PROVE Spec => []SwapIsTagged
<1>1. Init => IInv
  BY InitHolds
<1>2. IInv /\ [Next]_vars => IInv'
  BY Inductive
<1>3. IInv => SwapIsTagged
  BY IsTagged
<1> QED
  BY <1>1, <1>2, <1>3, PTL DEF Spec

\* A record is begun only where flash is erased, also after a reset that found
\* a record half written (write_execute, page_scan).
THEOREM NothingIsOverwritten == ASSUME Plain PROVE Spec => []NoOverwrite
<1>1. Init => IInv
  BY InitHolds
<1>2. IInv /\ [Next]_vars => IInv'
  BY Inductive
<1>3. IInv => NoOverwrite
  BY NothingOverwritten
<1> QED
  BY <1>1, <1>2, <1>3, PTL DEF Spec
=============================================================================
