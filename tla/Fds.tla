-------------------------------- MODULE Fds --------------------------------
(***************************************************************************)
(* Flash data storage (fds.c) on top of fstorage: records on pages of      *)
(* flash, written word by word; deletion by a mark; garbage collection,    *)
(* which copies the live records of a page to the swap page, erases the    *)
(* page and lets the two change places; and the recovery of all this when  *)
(* the power fails at any moment.                                          *)
(*                                                                         *)
(* Records have one length.  A page is a sequence of slots, each as long   *)
(* as a record; offsets are in words, as in the code.  The record key is   *)
(* left out: it selects records the way the file does.  A queue of the     *)
(* code, a ring, is a sequence, but for the chunk queue, whose read index  *)
(* the code does not always wrap.                                          *)
(***************************************************************************)
EXTENDS SequencesExt

CONSTANTS
    VirtualPages,      \* FDS_VIRTUAL_PAGES
    PageWords,         \* FDS_PAGE_SIZE
    RecordWords,       \* of every record, header included
    OpQueueSize, ChunkQueueSize,
    Files,             \* identifiers of files
    Calls,             \* what the application uses, see Api
    Faults,            \* what goes wrong: "power", "flash"
    MaxCalls, MaxGc, MaxFaults   \* bounds: calls, fds_gc among them, faults

\* "gc_again": fds_gc is called while a collection runs or waits to.
Api == {"write", "update", "delete", "file_delete", "gc", "gc_again", "read"}

TagWords == 2                        \* FDS_PAGE_TAG_SIZE
MaxPages == VirtualPages - 1         \* FDS_MAX_PAGES
Addrs    == 1 .. VirtualPages        \* the virtual pages by address

ASSUME FdsAssumption ==
    /\ VirtualPages \in Nat /\ VirtualPages >= 2
    /\ {PageWords, RecordWords, OpQueueSize, ChunkQueueSize} \subseteq Nat \ {0}
    /\ RecordWords < PageWords - TagWords
    /\ Calls \subseteq Api
    /\ Faults \subseteq {"power", "flash"}
    \* A token of file_find_and_delete that a timeout left behind points into
    \* a page that garbage collection may then move: not modelled.
    /\ "flash" \in Faults => ~({"file_delete", "gc"} \subseteq Calls)
    /\ {MaxCalls, MaxGc, MaxFaults} \subseteq Nat

VARIABLES
    flash,             \* the pages
    m_flags,           \* of "INITIALIZING", "INITIALIZED", "PROCESSING"
    m_latest_rec_id,
    m_op_queue,        \* the operations, the head is the one being executed
    m_chunk_queue,     \* [chunk, rp, count]
    m_pages,           \* what is known of the data pages
    m_swap_page,       \* [p_addr, write_offset]
    m_gc,
    tok,               \* the static token of file_find_and_delete
    desc,              \* the static descriptor of write_execute, with its page
    request,           \* the request fstorage is busy with
    turn,              \* what is due now: queue_process after "ok" or
                       \* "timeout", the "event" of a finished operation, "none"
    result,            \* of the operation whose event is due
    reader,            \* the descriptor of a record the application reads
    calls, gcs, faults

setup == <<m_pages, m_swap_page, m_gc>>
ram   == <<m_flags, m_latest_rec_id, m_op_queue, m_chunk_queue, setup, tok, desc>>
busy  == <<request, turn, result>>
env   == <<reader, calls, gcs, faults>>
vars  == <<flash, ram, busy, env>>

None     == [kind |-> "none"]
NoReader == [kind |-> "none", is_open |-> FALSE]

----------------------------------------------------------------------------
\* Flash.

\* A slot that was passed over, the slot of a record whose header is begun.
Hole     == [st |-> "hole",  id |-> 0, file |-> 0, data |-> 0]
Begun    == [st |-> "begun", id |-> 0, file |-> 0, data |-> 0]
Torn     == 0                         \* data that is not the record's

Erased   == [tag |-> "erased", recs |-> <<>>]

\* Programming clears bits: a page tagged as data stays one, see the two tags.
TagAs(page, tag) ==
    [page EXCEPT !.tag = IF page.tag = "data" THEN "data" ELSE tag]

\* A slot is written, slots before it that are not remain erased.
Put(page, i, slot) ==
    [page EXCEPT !.recs =
        [k \in 1 .. (IF i > Len(@) THEN i ELSE Len(@)) |->
            IF k = i THEN slot ELSE IF k <= Len(page.recs) THEN page.recs[k] ELSE Hole]]

SlotAt(offset) == (offset - TagWords) \div RecordWords + 1
OffsetOf(slot) == TagWords + (slot - 1) * RecordWords

\* A scan of a page ends at the first word that is erased.
Reach(page) ==
    {i \in DOMAIN page.recs : \A j \in 1 .. i : page.recs[j].st # "hole"}

ValidOn(page) == {i \in Reach(page) : page.recs[i].st = "valid"}

\* record_find_next: the first valid record after slot i, or 0.
record_find_next(page, i) ==
    LET next == {j \in ValidOn(page) : j > i}
    IN  IF next = {} THEN 0 ELSE CHOOSE j \in next : \A k \in next : j <= k

\* Mutant: only the valid records count.
BadPage_scan(page) ==
    [offset |-> OffsetOf(Cardinality(ValidOn(page)) + 1),
     can_gc |-> Reach(page) # ValidOn(page),
     latest |-> {0} \cup {page.recs[i].id : i \in ValidOn(page)}]

page_scan(page) ==
    [offset |-> OffsetOf(Cardinality(Reach(page)) + 1),
     can_gc |-> Reach(page) # ValidOn(page),
     latest |-> {0} \cup {page.recs[i].id : i \in ValidOn(page)}]

----------------------------------------------------------------------------
\* After a reset (the zeroed variables) and in fds_init.

DataPage == [page_type |-> "data", p_addr |-> 0, write_offset |-> TagWords,
             words_reserved |-> 0, records_open |-> 0, can_gc |-> FALSE]
ErasedPage(a) == [DataPage EXCEPT !.page_type = "erased", !.p_addr = a]

NoSwap == [p_addr |-> 0, write_offset |-> 0]
GcIdle == [state |-> "BEGIN", cur_page |-> 1, p_record_src |-> 0, run_count |-> 0,
           do_gc_page |-> {}, resume |-> FALSE]
NoDesc == [record_id |-> 0, p_addr |-> 0, slot |-> 0, page |-> 1]
NoTok  == [page |-> 1, slot |-> 0]
NoChunks == [chunk |-> [i \in 0 .. ChunkQueueSize - 1 |-> 0], rp |-> 0, count |-> 0]

Init ==
    /\ m_flags = {} /\ m_latest_rec_id = 0 /\ m_op_queue = <<>>
    /\ m_chunk_queue = NoChunks
    /\ m_pages = <<>> /\ m_swap_page = NoSwap /\ m_gc = GcIdle
    /\ tok = NoTok /\ desc = NoDesc
    /\ request = None /\ turn = "none" /\ result = "none" /\ reader = NoReader
    /\ flash = [a \in Addrs |-> Erased]
    /\ calls = 0 /\ gcs = 0 /\ faults = 0

\* One page of the loop of pages_init; s is what is known of the pages before.
PageInit(s, a) ==
    LET page == flash[a]
        scan == page_scan(page)
    IN  CASE page.tag = "erased" /\ s.swap.p_addr = 0 ->
                 [s EXCEPT !.swap = [p_addr |-> a, write_offset |-> TagWords],
                           !.not_found = TRUE, !.seen = @ \cup {"ERASED"}]
          [] page.tag = "erased" /\ s.swap.p_addr # 0 ->
                 [s EXCEPT !.pages = Append(@, ErasedPage(a)),
                           !.cur = Len(s.pages) + 1, !.seen = @ \cup {"ERASED"}]
          [] page.tag = "data" ->
                 [s EXCEPT !.pages = Append(@, [DataPage EXCEPT
                               !.p_addr = a, !.write_offset = scan.offset,
                               !.can_gc = scan.can_gc]),
                           !.ids = @ \cup scan.latest, !.seen = @ \cup {"DATA"}]
          [] page.tag = "swap" ->
                 [s EXCEPT !.pages = IF s.not_found
                               THEN Append(@, ErasedPage(s.swap.p_addr)) ELSE @,
                           !.swap = [p_addr |-> a, write_offset |-> scan.offset],
                           !.ids = @ \cup scan.latest,
                           !.seen = @ \cup {IF scan.offset = TagWords
                                            THEN "SWAP_CLEAN" ELSE "SWAP_DIRTY"}]

Scanned[a \in 0 .. VirtualPages] ==
    IF a = 0 THEN [pages |-> <<>>, swap |-> NoSwap, not_found |-> FALSE, cur |-> 1,
                   ids |-> {0}, seen |-> {}]
             ELSE PageInit(Scanned[a - 1], a)

pages_init == Scanned[VirtualPages]

\* fds_init_opts_t: the first step of the initialization.  Of any other mixture
\* of pages the code says that it should not happen.
InitStep(seen) ==
    CASE seen \in {{}, {"DATA"}}                     -> "NO_PAGES"
      [] seen = {"DATA", "SWAP_CLEAN"}               -> "INSTALLED"
      [] seen \in {{"ERASED"}, {"ERASED", "DATA"}}   -> "TAG_SWAP"
      [] seen \in {{"ERASED", "SWAP_CLEAN"},
                   {"ERASED", "DATA", "SWAP_CLEAN"}} -> "TAG_DATA"
      [] seen \in {{"ERASED", "SWAP_DIRTY"},
                   {"ERASED", "DATA", "SWAP_DIRTY"}} -> "PROMOTE_SWAP"
      [] seen = {"DATA", "SWAP_DIRTY"}               -> "ERASE_SWAP"
      [] OTHER                                       -> "undefined"

NoOp == [code |-> "none", step |-> "none", page |-> 1, id |-> 0, file |-> 0, old |-> 0]

\* Called at boot.  No swap page at all ("NO_PAGES": fds gives up) is never
\* found; what it does with an undefined step is not modelled.
fds_init ==
    /\ m_flags = {} /\ m_pages = <<>>
    /\ LET s == pages_init
           step == InitStep(s.seen)
       IN  /\ m_pages' = s.pages /\ m_swap_page' = s.swap
           /\ m_gc' = [m_gc EXCEPT !.cur_page = s.cur]
           /\ m_latest_rec_id' = Max(s.ids)
           /\ \/ /\ step = "INSTALLED" /\ m_flags' = {"INITIALIZED"}
                 /\ UNCHANGED <<m_op_queue, turn>>
              \/ /\ step \notin {"NO_PAGES", "INSTALLED", "undefined"}
                 /\ m_flags' = {"INITIALIZING", "PROCESSING"}
                 /\ m_op_queue' = <<[NoOp EXCEPT !.code = "init", !.step = step]>>
                 /\ turn' = "ok"
    /\ UNCHANGED <<flash, m_chunk_queue, tok, desc, request, result, env>>

----------------------------------------------------------------------------
\* The queue of operations.

p_op == m_op_queue[1]
SetOp(op) == m_op_queue' = [m_op_queue EXCEPT ![1] = op]

\* A call of fs_store or fs_erase; what the page will be when it is done.
Issue(kind, a, slot, page) ==
    /\ request' = [kind |-> kind, addr |-> a, slot |-> slot, page |-> page]
    /\ turn' = "none" /\ UNCHANGED result

Tag(a, tag)    == Issue("tag", a, 0, TagAs(flash[a], tag))
Erase(a)       == Issue("erase", a, 0, Erased)
Store(kind, a, i, slot) == Issue(kind, a, i, Put(flash[a], i, slot))

\* A write or update still holds its chunk until it is written.
HasChunk(op) ==
    op.code \in {"write", "update"}
    /\ op.step \in {"FIND_RECORD", "HEADER_BEGIN", "RECORD_ID", "CHUNKS"}

\* The read index is not wrapped.
chunk_queue_skip ==
    m_chunk_queue' = IF HasChunk(p_op)
                     THEN [m_chunk_queue EXCEPT !.rp = @ + 1, !.count = @ - 1]
                     ELSE m_chunk_queue

\* The operation is over: its event goes to the application.
Completed ==
    /\ turn' = "event" /\ result' = "success"
    /\ UNCHANGED <<request, m_chunk_queue>>

Failed(ret) ==
    /\ turn' = "event" /\ result' = ret /\ chunk_queue_skip
    /\ UNCHANGED request

\* queue_advance, and the next turn of queue_process.
Advance ==
    /\ turn = "event"
    /\ m_op_queue' = Tail(m_op_queue) /\ result' = "none"
    /\ IF Len(m_op_queue) > 1
       THEN turn' = "ok" /\ UNCHANGED m_flags
       ELSE turn' = "none" /\ m_flags' = m_flags \ {"PROCESSING"}
    /\ UNCHANGED <<flash, m_latest_rec_id, m_chunk_queue, setup, tok, desc, request, env>>

----------------------------------------------------------------------------
\* init_execute

InitTagSwap ==
    /\ p_op.step = "TAG_SWAP"
    /\ Tag(m_swap_page.p_addr, "swap")
    /\ SetOp([p_op EXCEPT !.step = "TAG_DATA"])
    /\ UNCHANGED <<m_flags, m_chunk_queue, m_pages, m_swap_page>>

ErasedOnes == {i \in DOMAIN m_pages : m_pages[i].page_type = "erased"}

InitTagData ==
    /\ p_op.step = "TAG_DATA" /\ ErasedOnes # {}
    /\ LET i == Min(ErasedOnes)
       IN  /\ Tag(m_pages[i].p_addr, "data")
           /\ m_pages' = [m_pages EXCEPT ![i].page_type = "data"]
    /\ UNCHANGED <<m_flags, m_op_queue, m_chunk_queue, m_swap_page>>

InitDone ==
    /\ p_op.step = "TAG_DATA" /\ ErasedOnes = {}
    /\ m_flags' = (m_flags \cup {"INITIALIZED"}) \ {"INITIALIZING"}
    /\ Completed
    /\ UNCHANGED <<m_op_queue, m_pages, m_swap_page>>

\* Mutant: the swap that was erased is not tagged again.
BadInitEraseSwap ==
    /\ p_op.step = "ERASE_SWAP"
    /\ Erase(m_swap_page.p_addr)
    /\ m_swap_page' = [m_swap_page EXCEPT !.write_offset = TagWords]
    /\ SetOp([p_op EXCEPT !.step = "TAG_DATA"])
    /\ UNCHANGED <<m_flags, m_chunk_queue, m_pages>>

InitEraseSwap ==
    /\ p_op.step = "ERASE_SWAP"
    /\ Erase(m_swap_page.p_addr)
    /\ m_swap_page' = [m_swap_page EXCEPT !.write_offset = TagWords]
    /\ SetOp([p_op EXCEPT !.step = "TAG_SWAP"])
    /\ UNCHANGED <<m_flags, m_chunk_queue, m_pages>>

\* Mutant: the promoted page is not entered among the data pages.
BadInitPromoteSwap ==
    /\ p_op.step = "PROMOTE_SWAP"
    /\ Tag(m_swap_page.p_addr, "data")
    /\ m_swap_page' = [p_addr |-> m_pages[m_gc.cur_page].p_addr, write_offset |-> TagWords]
    /\ m_pages' = [m_pages EXCEPT ![m_gc.cur_page].page_type = "data"]
    /\ SetOp([p_op EXCEPT !.step = "TAG_SWAP"])
    /\ UNCHANGED <<m_flags, m_chunk_queue>>

\* The page at cur_page becomes the swap.
InitPromoteSwap ==
    /\ p_op.step = "PROMOTE_SWAP"
    /\ Tag(m_swap_page.p_addr, "data")
    /\ m_swap_page' = [p_addr |-> m_pages[m_gc.cur_page].p_addr, write_offset |-> TagWords]
    /\ m_pages' = [m_pages EXCEPT
           ![m_gc.cur_page].p_addr = m_swap_page.p_addr,
           ![m_gc.cur_page].write_offset = m_swap_page.write_offset,
           ![m_gc.cur_page].page_type = "data"]
    /\ SetOp([p_op EXCEPT !.step = "TAG_SWAP"])
    /\ UNCHANGED <<m_flags, m_chunk_queue>>

InitTimeout ==
    /\ m_flags' = m_flags \ {"INITIALIZING"}
    /\ Failed("timeout")
    /\ UNCHANGED <<m_op_queue, m_pages, m_swap_page>>

init_execute ==
    /\ turn \in {"ok", "timeout"} /\ p_op.code = "init"
    /\ \/ turn = "timeout" /\ InitTimeout
       \/ /\ turn = "ok"
          /\ \/ InitTagSwap \/ InitTagData \/ InitDone \/ InitEraseSwap
             \/ InitPromoteSwap
    /\ UNCHANGED <<flash, m_latest_rec_id, m_gc, tok, desc, env>>

----------------------------------------------------------------------------
\* write_execute

\* The first record with an identifier on the pages known, by page and slot.
FoundById(id) ==
    {f \in UNION {{p} \X ValidOn(flash[m_pages[p].p_addr]) : p \in DOMAIN m_pages} :
        flash[m_pages[f[1]].p_addr].recs[f[2]].id = id}

First(found) ==
    CHOOSE f \in found : \A g \in found : f[1] < g[1] \/ (f[1] = g[1] /\ f[2] <= g[2])

DescOf(id, f) == [record_id |-> id, p_addr |-> m_pages[f[1]].p_addr, slot |-> f[2],
                  page |-> f[1]]

page_offsets_update(p) ==
    m_pages' = [m_pages EXCEPT ![p].write_offset = @ + RecordWords,
                               ![p].words_reserved = @ - RecordWords]

\* The operation writes at the write offset of its page.
Here     == m_pages[p_op.page].p_addr
HereSlot == SlotAt(m_pages[p_op.page].write_offset)
Was      == flash[Here].recs[HereSlot]

StepTo(step) == SetOp([p_op EXCEPT !.step = step])

\* Mutant: the header is written whole before the data.
BadWriteBegin(step) ==
    /\ p_op.step = step
    /\ Store("begin", Here, HereSlot, [Begun EXCEPT !.st = "valid", !.file = p_op.file])
    /\ StepTo("RECORD_ID")
    /\ UNCHANGED <<m_chunk_queue, m_pages>>

WriteBegin(step) ==
    /\ p_op.step = step
    /\ Store("begin", Here, HereSlot, Begun)
    /\ StepTo("RECORD_ID")
    /\ UNCHANGED <<m_chunk_queue, m_pages>>

\* An update looks for the old copy before it writes; it fails without one.
FindOld ==
    LET found == FoundById(p_op.old)
    IN  \/ /\ found # {}
           /\ desc' = DescOf(p_op.old, First(found))
           /\ WriteBegin("FIND_RECORD")
        \/ /\ p_op.step = "FIND_RECORD" /\ found = {}
           /\ Failed("not_found")
           /\ UNCHANGED <<m_op_queue, m_pages, desc>>

WriteId ==
    /\ p_op.step = "RECORD_ID"
    /\ Store("id", Here, HereSlot, [Was EXCEPT !.id = p_op.id])
    /\ StepTo("CHUNKS")
    /\ UNCHANGED <<m_chunk_queue, m_pages>>

\* The data comes from where the entry of the chunk queue points.
WriteChunk ==
    /\ p_op.step = "CHUNKS"
    /\ Store("chunk", Here, HereSlot,
             [Was EXCEPT !.data = IF m_chunk_queue.rp < ChunkQueueSize
                                  THEN m_chunk_queue.chunk[m_chunk_queue.rp] ELSE Torn])
    /\ m_chunk_queue' = [m_chunk_queue EXCEPT !.rp = (@ + 1) % ChunkQueueSize,
                                              !.count = @ - 1]
    /\ StepTo("HEADER_FINALIZE")
    /\ UNCHANGED m_pages

\* Mutant: an update forgets the old copy.
BadWriteFinalize ==
    /\ p_op.step = "HEADER_FINALIZE"
    /\ Store("finalize", Here, HereSlot, [Was EXCEPT !.st = "valid", !.file = p_op.file])
    /\ StepTo("DONE")
    /\ UNCHANGED <<m_chunk_queue, m_pages>>

WriteFinalize ==
    /\ p_op.step = "HEADER_FINALIZE"
    /\ Store("finalize", Here, HereSlot, [Was EXCEPT !.st = "valid", !.file = p_op.file])
    /\ StepTo(IF p_op.code = "update" THEN "FLAG_DIRTY" ELSE "DONE")
    /\ UNCHANGED <<m_chunk_queue, m_pages>>

\* record_header_flag_dirty
FlagDirty(a, i, p) ==
    /\ Store("dirty", a, i, [flash[a].recs[i] EXCEPT !.st = "dirty"])
    /\ m_pages' = [m_pages EXCEPT ![p].can_gc = TRUE]

DeleteOld ==
    /\ p_op.step = "FLAG_DIRTY"
    /\ FlagDirty(desc.p_addr, desc.slot, desc.page)
    /\ StepTo("DONE")
    /\ UNCHANGED m_chunk_queue

WriteDone ==
    /\ p_op.step = "DONE"
    /\ page_offsets_update(p_op.page)
    /\ Completed
    /\ UNCHANGED m_op_queue

WriteTimeout ==
    /\ page_offsets_update(p_op.page)
    /\ Failed("timeout")
    /\ UNCHANGED m_op_queue

write_execute ==
    /\ turn \in {"ok", "timeout"} /\ p_op.code \in {"write", "update"}
    /\ \/ turn = "timeout" /\ WriteTimeout /\ UNCHANGED desc
       \/ /\ turn = "ok"
          /\ \/ FindOld
             \/ /\ \/ WriteBegin("HEADER_BEGIN") \/ WriteId \/ WriteChunk
                   \/ WriteFinalize \/ DeleteOld \/ WriteDone
                /\ UNCHANGED desc
    /\ UNCHANGED <<flash, m_flags, m_latest_rec_id, m_swap_page, m_gc, tok, env>>

----------------------------------------------------------------------------
\* delete_execute

\* record_find_and_delete
DeleteRecord ==
    /\ p_op.step = "DEL_RECORD"
    /\ LET found == FoundById(p_op.old)
           f     == First(found)
       IN  \/ /\ found # {}
              /\ FlagDirty(m_pages[f[1]].p_addr, f[2], f[1])
              /\ StepTo("DEL_DONE")
              /\ UNCHANGED m_chunk_queue
           \/ /\ found = {}
              /\ Failed("not_found")
              /\ UNCHANGED <<m_pages, m_op_queue>>
    /\ UNCHANGED tok

\* record_find: what follows a token among the records of a file.
FoundInFile(file, t) ==
    {f \in UNION {{p} \X ValidOn(flash[m_pages[p].p_addr]) :
                    p \in {q \in DOMAIN m_pages : m_pages[q].page_type = "data"}} :
        /\ f[1] > t.page \/ (f[1] = t.page /\ f[2] > t.slot)
        /\ flash[m_pages[f[1]].p_addr].recs[f[2]].file = file}

\* file_find_and_delete
DeleteFile ==
    /\ p_op.step = "DEL_FILE"
    /\ LET found == FoundInFile(p_op.file, tok)
           f     == First(found)
       IN  \/ /\ found # {}
              /\ FlagDirty(m_pages[f[1]].p_addr, f[2], f[1])
              /\ tok' = [page |-> f[1], slot |-> f[2]]
              /\ UNCHANGED m_chunk_queue
           \/ /\ found = {}
              /\ tok' = NoTok /\ Completed
              /\ UNCHANGED m_pages
    /\ UNCHANGED m_op_queue

DeleteDone ==
    /\ p_op.step = "DEL_DONE"
    /\ Completed
    /\ UNCHANGED <<m_op_queue, m_pages, tok>>

delete_execute ==
    /\ turn \in {"ok", "timeout"} /\ p_op.code \in {"delete", "file_delete"}
    /\ \/ /\ turn = "timeout" /\ Failed("timeout")
          /\ UNCHANGED <<m_op_queue, m_pages, tok>>
       \/ turn = "ok" /\ (DeleteRecord \/ DeleteFile \/ DeleteDone)
    /\ UNCHANGED <<flash, m_flags, m_latest_rec_id, m_swap_page, m_gc, desc, env>>

----------------------------------------------------------------------------
\* gc_execute

\* gc_state_advance: what the garbage collector, the pages and the swap are
\* after the step that is done; a collection that is resumed repeats the step.
NextState ==
    CASE m_gc.state = "BEGIN"                            -> "NEXT_PAGE"
      [] m_gc.state = "COPY_RECORD"                      -> "FIND_NEXT_RECORD"
      [] m_gc.state = "ERASE_PAGE"                       -> "PROMOTE_SWAP"
      [] m_gc.state \in {"DISCARD_SWAP", "PROMOTE_SWAP"} -> "TAG_NEW_SWAP"
      [] m_gc.state = "TAG_NEW_SWAP"                     -> "NEXT_PAGE"

gc_init ==
    [m_gc EXCEPT !.state = "NEXT_PAGE", !.run_count = @ + 1, !.cur_page = 1,
                 !.resume = FALSE,
                 !.do_gc_page = {i \in DOMAIN m_pages : m_pages[i].page_type = "data"}]

\* Mutant: a collection that was resumed is resumed again.
BadGc ==
    CASE m_gc.resume                             -> m_gc
      [] ~m_gc.resume /\ m_gc.state = "BEGIN"    -> gc_init
      [] ~m_gc.resume /\ m_gc.state # "BEGIN"    -> [m_gc EXCEPT !.state = NextState]

Gc ==
    CASE m_gc.resume                             -> [m_gc EXCEPT !.resume = FALSE]
      [] ~m_gc.resume /\ m_gc.state = "BEGIN"    -> gc_init
      [] ~m_gc.resume /\ m_gc.state # "BEGIN"    -> [m_gc EXCEPT !.state = NextState]

SwapPages == ~m_gc.resume /\ m_gc.state = "ERASE_PAGE"

GcPages ==
    IF SwapPages
    THEN [m_pages EXCEPT ![m_gc.cur_page].p_addr = m_swap_page.p_addr,
                         ![m_gc.cur_page].write_offset = m_swap_page.write_offset]
    ELSE m_pages

GcSwap ==
    CASE SwapPages -> [p_addr |-> m_pages[m_gc.cur_page].p_addr, write_offset |-> TagWords]
      [] ~m_gc.resume /\ m_gc.state = "COPY_RECORD" ->
             [m_swap_page EXCEPT !.write_offset = @ + RecordWords]
      [] m_gc.resume \/ m_gc.state \notin {"ERASE_PAGE", "COPY_RECORD"} -> m_swap_page

gc_record_copy(g) ==
    /\ m_gc' = [g EXCEPT !.state = "COPY_RECORD"]
    /\ Store("copy", GcSwap.p_addr, SlotAt(GcSwap.write_offset),
             flash[GcPages[g.cur_page].p_addr].recs[g.p_record_src])
    /\ m_swap_page' = GcSwap

\* The page is erased, unless one of its records was opened meanwhile.
gc_page_erase(g) ==
    \/ /\ GcPages[g.cur_page].records_open = 0
       /\ m_gc' = [g EXCEPT !.state = "ERASE_PAGE"]
       /\ Erase(GcPages[g.cur_page].p_addr)
       /\ m_swap_page' = GcSwap
    \/ /\ GcPages[g.cur_page].records_open # 0
       /\ m_gc' = [g EXCEPT !.state = "DISCARD_SWAP"]
       /\ Erase(GcSwap.p_addr)
       /\ m_swap_page' = [GcSwap EXCEPT !.write_offset = TagWords]

gc_record_find_next(g) ==
    LET i == record_find_next(flash[GcPages[g.cur_page].p_addr], g.p_record_src)
    IN  \/ i # 0 /\ gc_record_copy([g EXCEPT !.p_record_src = i])
        \/ i = 0 /\ gc_page_erase(g)

\* gc_page_next: pages with deleted records and no open ones.
Collectable(g) ==
    {i \in g.do_gc_page : GcPages[i].records_open = 0 /\ GcPages[i].can_gc}

gc_next_page ==
    \/ /\ Collectable(Gc) = {}
       /\ m_gc' = [Gc EXCEPT !.state = "BEGIN", !.cur_page = 1, !.p_record_src = 0,
                             !.do_gc_page = {}]
       /\ Completed /\ m_swap_page' = GcSwap
    \/ /\ Collectable(Gc) # {}
       /\ LET p == Min(Collectable(Gc))
          IN  gc_record_find_next([Gc EXCEPT !.cur_page = p,
                                             !.do_gc_page = {i \in @ : i > p}])
       /\ UNCHANGED m_chunk_queue

GcStep ==
    \/ Gc.state = "NEXT_PAGE" /\ gc_next_page
    \/ /\ \/ Gc.state = "FIND_NEXT_RECORD" /\ gc_record_find_next(Gc)
          \/ Gc.state = "COPY_RECORD" /\ gc_record_copy(Gc)
          \/ Gc.state = "ERASE_PAGE" /\ gc_page_erase(Gc)
          \/ /\ Gc.state = "PROMOTE_SWAP" /\ m_gc' = Gc /\ m_swap_page' = GcSwap
             /\ Tag(GcPages[Gc.cur_page].p_addr, "data")
          \/ /\ Gc.state = "TAG_NEW_SWAP" /\ m_gc' = [Gc EXCEPT !.p_record_src = 0]
             /\ m_swap_page' = GcSwap /\ Tag(GcSwap.p_addr, "swap")
       /\ UNCHANGED m_chunk_queue
    \* The default of the switch: "Should not happen."
    \/ /\ Gc.state = "DISCARD_SWAP" /\ m_gc' = Gc /\ m_swap_page' = GcSwap
       /\ Failed("internal")

gc_execute ==
    /\ turn \in {"ok", "timeout"} /\ p_op.code = "gc"
    /\ \/ turn = "timeout" /\ Failed("timeout") /\ UNCHANGED setup
       \/ turn = "ok" /\ GcStep /\ m_pages' = GcPages
    /\ UNCHANGED <<flash, m_flags, m_latest_rec_id, m_op_queue, tok, desc, env>>

----------------------------------------------------------------------------
\* The application: calls are made while flash is busy, and in the callback of
\* an event, before the queue advances.

CanCall(call) ==
    /\ call \in Calls /\ calls < MaxCalls /\ calls' = calls + 1
    /\ turn \in {"none", "event"} /\ "INITIALIZED" \in m_flags
    /\ UNCHANGED <<flash, m_swap_page, tok, desc, request, result, reader, faults>>

Queued(codes) == {i \in DOMAIN m_op_queue : m_op_queue[i].code \in codes}

HasRoom == Len(m_op_queue) < OpQueueSize

\* op_enqueue and queue_start
Enqueue(op) ==
    /\ m_op_queue' = Append(m_op_queue, op)
    /\ m_flags' = m_flags \cup {"PROCESSING"}
    /\ turn' = IF "PROCESSING" \in m_flags THEN turn ELSE "ok"

\* Mutant: the words reserved by the writes in the queue do not count.
BadWithSpace ==
    {p \in DOMAIN m_pages :
        /\ m_pages[p].page_type = "data"
        /\ m_pages[p].write_offset + RecordWords < PageWords}

\* write_space_reserve
WithSpace ==
    {p \in DOMAIN m_pages :
        /\ m_pages[p].page_type = "data"
        /\ m_pages[p].write_offset + m_pages[p].words_reserved + RecordWords < PageWords}

\* write_enqueue: a new record takes an identifier, even when the queue is full.
write_enqueue(op) ==
    /\ WithSpace # {}
    /\ m_latest_rec_id' = m_latest_rec_id + 1
    /\ \/ /\ HasRoom /\ m_chunk_queue.count < ChunkQueueSize
          /\ LET p  == Min(WithSpace)
                 at == (m_chunk_queue.count + m_chunk_queue.rp) % ChunkQueueSize
             IN  /\ m_pages' = [m_pages EXCEPT ![p].words_reserved = @ + RecordWords]
                 /\ m_chunk_queue' = [m_chunk_queue EXCEPT
                        !.chunk[at] = m_latest_rec_id + 1, !.count = @ + 1]
                 /\ Enqueue([op EXCEPT !.page = p, !.id = m_latest_rec_id + 1])
       \/ /\ ~HasRoom \/ m_chunk_queue.count >= ChunkQueueSize
          /\ UNCHANGED <<m_pages, m_chunk_queue, m_op_queue, m_flags, turn>>
    /\ UNCHANGED <<m_gc, gcs>>

fds_record_write(f) ==
    /\ CanCall("write")
    /\ write_enqueue([NoOp EXCEPT !.code = "write", !.step = "HEADER_BEGIN", !.file = f])

fds_record_update(f, id) ==
    /\ CanCall("update")
    /\ write_enqueue([NoOp EXCEPT !.code = "update", !.step = "FIND_RECORD", !.file = f,
                                  !.old = id])

fds_record_delete(id) ==
    /\ CanCall("delete") /\ HasRoom
    /\ Enqueue([NoOp EXCEPT !.code = "delete", !.step = "DEL_RECORD", !.old = id])
    /\ UNCHANGED <<m_latest_rec_id, m_chunk_queue, m_pages, m_gc, gcs>>

fds_file_delete(f) ==
    /\ CanCall("file_delete") /\ HasRoom
    /\ Enqueue([NoOp EXCEPT !.code = "file_delete", !.step = "DEL_FILE", !.file = f])
    /\ UNCHANGED <<m_latest_rec_id, m_chunk_queue, m_pages, m_gc, gcs>>

fds_gc ==
    /\ CanCall("gc") /\ HasRoom
    /\ gcs < MaxGc /\ gcs' = gcs + 1
    /\ Queued({"gc"}) = {} \/ "gc_again" \in Calls
    /\ Enqueue([NoOp EXCEPT !.code = "gc"])
    /\ m_gc' = [m_gc EXCEPT !.resume = @ \/ m_gc.state # "BEGIN"]
    /\ UNCHANGED <<m_latest_rec_id, m_chunk_queue, m_pages>>

\* Reading: a descriptor is found, opened and closed again.
Reading ==
    /\ "read" \in Calls /\ turn \in {"none", "event"} /\ "INITIALIZED" \in m_flags
    /\ UNCHANGED <<flash, m_flags, m_latest_rec_id, m_op_queue, m_chunk_queue,
                   m_swap_page, m_gc, tok, desc, busy, gcs, faults>>

fds_record_find_in_file(f) ==
    /\ Reading /\ calls < MaxCalls /\ calls' = calls + 1
    /\ ~reader.is_open
    /\ LET found == FoundInFile(f, NoTok)
           one   == First(found)
           a     == m_pages[one[1]].p_addr
       IN  /\ found # {}
           /\ reader' = [kind |-> "desc", record_id |-> flash[a].recs[one[2]].id,
                         p_addr |-> a, slot |-> one[2],
                         gc_run_count |-> m_gc.run_count, is_open |-> FALSE]
    /\ UNCHANGED m_pages

\* record_find_by_desc: the cached address serves as long as no collection was
\* begun and the identifier is still found there.
Cached ==
    /\ reader.gc_run_count = m_gc.run_count
    /\ reader.slot \in DOMAIN flash[reader.p_addr].recs
    /\ flash[reader.p_addr].recs[reader.slot].id = reader.record_id

Located ==
    IF Cached
    THEN {<<p, reader.slot>> : p \in {q \in DOMAIN m_pages :
                                         m_pages[q].p_addr = reader.p_addr}}
    ELSE FoundById(reader.record_id)

\* What it leaves in the descriptor.
Refreshed ==
    LET f == First(Located)
    IN  [reader EXCEPT !.p_addr = m_pages[f[1]].p_addr, !.slot = f[2],
                       !.gc_run_count = m_gc.run_count]

fds_record_open ==
    /\ Reading /\ reader # NoReader /\ ~reader.is_open /\ Located # {}
    /\ m_pages' = [m_pages EXCEPT ![First(Located)[1]].records_open = @ + 1]
    /\ reader' = [Refreshed EXCEPT !.is_open = TRUE]
    /\ UNCHANGED calls

fds_record_close ==
    /\ Reading /\ reader # NoReader /\ reader.is_open /\ Located # {}
    /\ m_pages[First(Located)[1]].records_open > 0
    /\ m_pages' = [m_pages EXCEPT ![First(Located)[1]].records_open = @ - 1]
    /\ reader' = [Refreshed EXCEPT !.is_open = FALSE]
    /\ UNCHANGED calls

----------------------------------------------------------------------------
\* fstorage and the power supply.

FlashDone ==
    /\ request # None /\ turn = "none"
    /\ flash' = [flash EXCEPT ![request.addr] = request.page]
    /\ request' = None /\ turn' = "ok"
    /\ UNCHANGED <<ram, result, env>>

\* A request failed FS_OP_MAX_RETRIES times and once more.
FlashTimeout ==
    /\ request # None /\ turn = "none" /\ "flash" \in Faults
    /\ faults < MaxFaults /\ faults' = faults + 1
    /\ request' = None /\ turn' = "timeout"
    /\ UNCHANGED <<flash, ram, result, reader, calls, gcs>>

\* What a request the power cut short has done: nothing, all, or half a copy.
\* An erase and a tag are taken to be done or not.
CutShort ==
    {flash[request.addr], request.page} \cup
    IF request.kind = "copy"
    THEN {[request.page EXCEPT !.recs[request.slot].data = Torn]} ELSE {}

PowerLoss ==
    /\ "power" \in Faults /\ faults < MaxFaults /\ faults' = faults + 1
    /\ m_pages # <<>>
    /\ \/ request = None /\ UNCHANGED flash
       \/ /\ request # None
          /\ \E page \in CutShort : flash' = [flash EXCEPT ![request.addr] = page]
    /\ m_flags' = {} /\ m_latest_rec_id' = 0 /\ m_op_queue' = <<>>
    /\ m_chunk_queue' = NoChunks
    /\ m_pages' = <<>> /\ m_swap_page' = NoSwap /\ m_gc' = GcIdle
    /\ tok' = NoTok /\ desc' = NoDesc
    /\ request' = None /\ turn' = "none" /\ result' = "none" /\ reader' = NoReader
    /\ UNCHANGED <<calls, gcs>>

Next ==
    \/ fds_init
    \/ init_execute \/ write_execute \/ delete_execute \/ gc_execute \/ Advance
    \/ \E f \in Files : \/ fds_record_write(f) \/ fds_file_delete(f)
                        \/ fds_record_find_in_file(f)
                        \/ \E id \in 1 .. m_latest_rec_id : fds_record_update(f, id)
    \/ \E id \in 1 .. m_latest_rec_id : fds_record_delete(id)
    \/ fds_gc \/ fds_record_open \/ fds_record_close
    \/ FlashDone \/ FlashTimeout \/ PowerLoss

Spec == Init /\ [][Next]_vars

\* The SoftDevice ends every request, and fds goes on with it at once.
Fairness ==
    /\ WF_vars(fds_init) /\ WF_vars(FlashDone) /\ WF_vars(Advance)
    /\ WF_vars(init_execute) /\ WF_vars(write_execute) /\ WF_vars(delete_execute)
    /\ WF_vars(gc_execute)

FairSpec == Spec /\ Fairness

----------------------------------------------------------------------------
\* Properties.

Ids == 0 .. MaxCalls

SlotType ==
    [st : {"hole", "begun", "valid", "dirty"}, id : Ids, file : Files \cup {0}, data : Ids]

PageType(page) ==
    /\ page.tag \in {"erased", "data", "swap"}
    /\ \A i \in DOMAIN page.recs : page.recs[i] \in SlotType
    \* No record reaches beyond the end of its page.
    /\ OffsetOf(Len(page.recs) + 1) <= PageWords

\* Types; every page, the swap too, stays within its size.
TypeOK ==
    /\ \A a \in Addrs : PageType(flash[a])
    /\ m_flags \subseteq {"INITIALIZING", "INITIALIZED", "PROCESSING"}
    /\ m_latest_rec_id \in Ids
    /\ Len(m_op_queue) <= OpQueueSize
    /\ m_chunk_queue.rp \in Nat /\ m_chunk_queue.count \in 0 .. ChunkQueueSize
    /\ \A p \in DOMAIN m_pages :
           /\ m_pages[p].p_addr \in Addrs /\ m_pages[p].page_type \in {"data", "erased"}
           /\ m_pages[p].write_offset \in TagWords .. PageWords
           /\ m_pages[p].words_reserved \in 0 .. PageWords
           /\ m_pages[p].records_open \in 0 .. MaxCalls
    /\ m_swap_page.p_addr \in 0 .. VirtualPages
    /\ request = None \/ PageType(request.page)
    /\ turn \in {"none", "ok", "timeout", "event"}
    /\ turn # "none" => m_op_queue # <<>>

RecordOf(slot) == [id |-> slot.id, file |-> slot.file, data |-> slot.data]

LiveOn(a) == {RecordOf(flash[a].recs[i]) : i \in ValidOn(flash[a])}

Tagged(tag) == {a \in Addrs : flash[a].tag = tag}

\* The records flash holds: those of data pages and, once the page they were
\* copied from is erased, those of the swap.
Content ==
    UNION {LiveOn(a) : a \in Tagged("data")} \cup
    IF Tagged("erased") # {} THEN UNION {LiveOn(a) : a \in Tagged("swap")} ELSE {}

\* The records that are asked for and not written yet.
ToWrite ==
    {[id |-> m_op_queue[i].id, file |-> m_op_queue[i].file, data |-> m_op_queue[i].id] :
        i \in Queued({"write", "update"})} \ Content

\* The ones whose deletion is asked for; by an update when it has written.
ToDelete ==
    {r \in Content :
        \E i \in DOMAIN m_op_queue :
            LET op == m_op_queue[i]
            IN  \/ op.code = "delete" /\ op.old = r.id
                \/ op.code = "update" /\ op.old = r.id
                   /\ \E n \in Content : n.id = op.id
                \/ op.code = "file_delete" /\ op.file = r.file}

Store_ == INSTANCE RecordStore WITH
    Records <- [id : 1 .. MaxCalls, file : Files, data : 1 .. MaxCalls],
    stored <- Content, toWrite <- ToWrite, toDelete <- ToDelete

\* Flash is a record store: nothing is stored that nobody asked for or that is
\* not whole, nothing is lost that nobody deleted, an update never loses both
\* copies, and neither garbage collection nor a failure of the power is seen.
ImplementsStore == Store_!Spec

\* The records on pages fds knows.
Found == UNION {LiveOn(m_pages[p].p_addr) :
                p \in {q \in DOMAIN m_pages : m_pages[q].page_type = "data"}}

\* Whenever the application may look for them it finds the records flash holds,
\* all of them, and no two with one identifier (pages_init, gc_swap_pages).
Visible ==
    turn \in {"none", "event"} /\ "INITIALIZED" \in m_flags =>
        /\ Found = Content
        /\ \A r, q \in Content : r.id = q.id => r = q

\* An event that reports success tells the truth (event_prepare).
EventTruthful ==
    turn = "event" /\ result = "success" =>
        /\ p_op.code \in {"write", "update"} => \E r \in Content : r.id = p_op.id
        /\ p_op.code \in {"delete", "update"} => \A r \in Content : r.id # p_op.old
        /\ p_op.code = "file_delete" => \A r \in Content : r.file # p_op.file

\* Between collections the page fds takes for the swap is tagged as one and
\* holds nothing, and the pages it writes records to are tagged as data
\* (pages_init, init_execute, gc_swap_pages).
SwapIsTagged ==
    "INITIALIZED" \in m_flags /\ m_gc.state = "BEGIN" =>
        /\ flash[m_swap_page.p_addr] = [tag |-> "swap", recs |-> <<>>]
        /\ \A p \in DOMAIN m_pages : flash[m_pages[p].p_addr].tag = "data"

\* A record is written to flash that is erased; a copy may be repeated
\* (write_offset, page_scan, gc_update_swap_offset).
NoOverwrite ==
    request # None /\ request.kind \in {"begin", "copy"} =>
        LET recs == flash[request.addr].recs
            i    == request.slot
        IN  \/ i \notin DOMAIN recs \/ recs[i] = Hole
            \/ request.kind = "copy" /\ recs[i] = request.page.recs[i]

\* Fds comes to rest again and again, initialized or given up: every operation
\* that was queued ends, garbage collection and its resumption too.
Settles == []<>(m_pages # <<>> /\ m_op_queue = <<>> /\ m_flags \subseteq {"INITIALIZED"})

----------------------------------------------------------------------------
\* What the code does not keep: no run checks these, TLC refutes each of them
\* with the constants named (README, Weaknesses).

\* Reserved words are those of writes in the queue (write_space_reserve,
\* write_execute).  Refuted by an update that fails: Calls write, update, delete.
ReservedAccounted ==
    turn \in {"none", "ok", "timeout"} =>
        \A p \in DOMAIN m_pages :
            m_pages[p].words_reserved =
                RecordWords * Cardinality({i \in Queued({"write", "update"}) :
                                              m_op_queue[i].page = p})

\* What a record that is open points to stays in flash (fds_record_open).
\* Refuted with Calls write, delete, gc, read and MaxGc 2.
OpenIntact ==
    reader # NoReader /\ reader.is_open =>
        /\ reader.slot \in DOMAIN flash[reader.p_addr].recs
        /\ flash[reader.p_addr].recs[reader.slot].id = reader.record_id

\* Only a record that flash holds is opened (fds_record_open).  Refuted with
\* Calls write, delete, read.
OpensLive ==
    [][reader' # NoReader /\ reader'.is_open /\ ~reader.is_open =>
           flash[reader'.p_addr].recs[reader'.slot].st = "valid"]_vars

\* The read index stays within the chunk queue (chunk_queue_skip).  Refuted with
\* Calls write, update, delete and ChunkQueueSize 2.
ChunkIndexInRange == m_chunk_queue.rp < ChunkQueueSize

\* Garbage collection never reaches the default of its switch (gc_execute).
\* Refuted with Calls write, delete, gc, gc_again, read and MaxGc 2.
GcKnowsItsState == ~(turn = "event" /\ result = "internal")

\* The pages a reset finds make a mixture fds_init knows (fds_init).  Refuted
\* with Calls write, delete, gc, gc_again and Faults power, flash.
LayoutKnown == m_pages = <<>> => InitStep(pages_init.seen) # "undefined"

=============================================================================
