------------------------------- MODULE Memory -------------------------------
(***************************************************************************)
(* src/src/kernel/memory.c: the boot steps that size the memory, and the   *)
(* two page allocators: single physical pages from memory_map (get_page,   *)
(* put_page) and runs of kernel pages from the kernel_map bitmap           *)
(* (alloc_kpage, free_kpage), with the page tables under which the kernel  *)
(* reaches the latter.  Addresses and sizes are counted in pages; a base   *)
(* that is not at a page is one that is not BASE.                          *)
(***************************************************************************)
EXTENDS Bitmap, Sequences, Functions

CONSTANTS
    BASE,       \* IDX(MEMORY_BASE): 256 in the source
    KPAGES,     \* IDX(KERNEL_MEMORY_SIZE): 2048 in the source
    PER_PAGE,   \* entries of memory_map in a page: 4096 in the source
    ENTRIES,    \* entries of a page directory or table: 1024 in the source
    ArdsTables, \* the memory maps the BIOS may hand over
    MaxCount    \* bound: pages asked for in one call

\* An ards_t: `size` whole pages and `rest` bytes of another.
Ards == [base : Nat, size : Nat, rest : 0 .. PER_PAGE - 1, valid : BOOLEAN]

ASSUME MemoryAssumption ==
    /\ BASE \in Nat /\ KPAGES \in Nat /\ BASE < KPAGES
    /\ BASE > 3     \* 1M lies above the directory and the tables
    /\ PER_PAGE \in Nat \ {0}
    /\ ENTRIES \in Nat /\ ENTRIES > 2 /\ KPAGES = 2 * ENTRIES
    /\ ArdsTables \subseteq Seq(Ards)
    /\ MaxCount \in Nat \ {0}

VARIABLES
    phase,       \* how far kernel_init is; "halted" after a panic or assert
    memory_size, \* pages of the zone that memory_init chooses
    total_pages,
    free_pages,
    start_page,  \* the first page get_page may hand out
    memory_map,  \* the pages whose count in memory_map is not 0
    kernel_bits, \* the bits of kernel_map
    page_tables, \* by page that cr3 or a directory names: its present entries
    kernel_refs, \* by page: the callers alloc_kpage gave it to, less the frees
    page_refs    \* by page: the callers get_page gave it to, less the puts

vars == <<phase, memory_size, total_pages, free_pages, start_page,
          memory_map, kernel_bits, page_tables, kernel_refs, page_refs>>

\* The pages a u32 can address: the cast of the u64 base and size.
PAGES32 == ENTRIES * ENTRIES

\* Every page that total_pages may reach.
Pages == 0 .. PAGES32 + BASE - 1

\* What callers know of the pages they were given.
Given(refs, pages) ==
    [p \in Pages |-> IF p \in pages THEN refs[p] + 1 ELSE refs[p]]
Returned(refs, pages) ==
    [p \in Pages |-> IF p \in pages THEN refs[p] - 1 ELSE refs[p]]
Held(refs) == {p \in Pages : refs[p] > 0}

kernel_held == Held(kernel_refs)
page_held   == Held(page_refs)

KERNEL_PAGE_DIR   == 1
KERNEL_PAGE_TABLE == <<2, 3>>
NoPage            == -1

MapBytes == (KPAGES - BASE) \div BYTE     \* kernel_map.length

\* The memory_map of all that a u32 can address has fewer pages than kernel_map
\* has bits: 257 of 1792.
ASSUME MapFitsAssumption ==
    (PAGES32 + BASE + PER_PAGE - 1) \div PER_PAGE <= MapBytes * BYTE

-----------------------------------------------------------------------------
\* ptr->size > memory_size, as u64.
Larger(zone, best) ==
    \/ zone.size > best.size
    \/ zone.size = best.size /\ zone.rest > best.rest

\* The zone memory_init ends up with: each valid zone that is larger than the
\* size so far (already cut to u32) replaces it.
Chosen(ards) ==
    LET zone[i \in 0 .. Len(ards)] ==
            IF i = 0 THEN [base |-> 0, size |-> 0, rest |-> 0]
            ELSE IF ards[i].valid /\ Larger(ards[i], zone[i - 1])
                 THEN [base |-> ards[i].base % PAGES32,
                       size |-> ards[i].size % PAGES32,
                       rest |-> ards[i].rest]
                 ELSE zone[i - 1]
    IN  zone[Len(ards)]

\* A magic number that is not ONIX_MAGIC: panic.
MemoryInitUnknown ==
    /\ phase = "memory_init"
    /\ phase' = "halted"
    /\ UNCHANGED <<memory_size, total_pages, free_pages, start_page, memory_map,
                   kernel_bits, page_tables, kernel_refs, page_refs>>

\* The zone must begin at 1M and end at a page (asserts), and then hold the
\* kernel's part (panic).
MemoryInit(ards) ==
    LET zone == Chosen(ards)
    IN  /\ phase = "memory_init"
        /\ memory_size' = zone.size
        /\ IF zone.base = BASE /\ zone.rest = 0
           THEN /\ total_pages' = zone.size + BASE
                /\ free_pages' = zone.size
                /\ phase' = IF zone.size >= KPAGES THEN "memory_map_init" ELSE "halted"
           ELSE /\ phase' = "halted"
                /\ UNCHANGED <<total_pages, free_pages>>
        /\ UNCHANGED <<start_page, memory_map, kernel_bits, page_tables,
                       kernel_refs, page_refs>>

\* div_round_up(total_pages, PAGE_SIZE)
MapPages == (total_pages + PER_PAGE - 1) \div PER_PAGE

\* memory_map lies at the start of the zone; its pages and all below are used,
\* in memory_map and, by a first bitmap_scan, in kernel_map.
MemoryMapInit ==
    /\ phase = "memory_map_init"
    /\ free_pages' = free_pages - MapPages
    /\ start_page' = BASE + MapPages
    /\ memory_map' = 0 .. start_page' - 1
    /\ kernel_bits' = LET start == BitmapFind({}, MapBytes, MapPages)
                      IN  IF start = EOF THEN {}
                          ELSE BitmapMark({}, start, MapPages)
    /\ phase' = "mapping_init"
    /\ UNCHANGED <<memory_size, total_pages, page_tables, kernel_refs, page_refs>>

\* Fault: each page table begins with page 0 again.
MapTableAgain(didx) == [tidx \in (IF didx = 0 THEN 1 ELSE 0) .. ENTRIES - 1 |-> tidx]

\* The present entries of a kernel page table: every page to itself, but page 0
\* not at all.
MapTable(didx) ==
    [tidx \in (IF didx = 0 THEN 1 ELSE 0) .. ENTRIES - 1 |-> didx * ENTRIES + tidx]

\* The directory names the tables and, last, itself.
KernelTables ==
    [page \in {KERNEL_PAGE_DIR} \cup Range(KERNEL_PAGE_TABLE) |->
        IF page = KERNEL_PAGE_DIR
        THEN [didx \in {0, 1, ENTRIES - 1} |->
                IF didx = ENTRIES - 1 THEN KERNEL_PAGE_DIR
                ELSE KERNEL_PAGE_TABLE[didx + 1]]
        ELSE MapTable(CHOOSE didx \in 0 .. 1 : KERNEL_PAGE_TABLE[didx + 1] = page)]

MarkMapped == memory_map \cup (1 .. KPAGES - 1)

\* mapping_init marks every page the kernel's page tables map as used and
\* starts paging; free_pages is not touched.
MappingInit ==
    /\ phase = "mapping_init"
    /\ memory_map' = MarkMapped
    /\ page_tables' = KernelTables
    /\ phase' = "running"
    /\ UNCHANGED <<memory_size, total_pages, free_pages, start_page,
                   kernel_bits, kernel_refs, page_refs>>

Didx(vaddr) == vaddr \div ENTRIES
Tidx(vaddr) == vaddr % ENTRIES

\* The CPU's walk from a virtual page to the page it is mapped to.
Translate(vaddr) ==
    LET entry(page, i) == IF page \in DOMAIN page_tables /\ i \in DOMAIN page_tables[page]
                          THEN page_tables[page][i] ELSE NoPage
    IN  entry(entry(KERNEL_PAGE_DIR, Didx(vaddr)), Tidx(vaddr))

\* Where get_pde and get_pte say that the directory and the table of vaddr are.
GetPde == PAGES32 - 1
GetPte(vaddr) == (PAGES32 - ENTRIES) + Didx(vaddr)

-----------------------------------------------------------------------------
AvailablePages == {i \in start_page .. total_pages - 1 : i \notin memory_map}

\* Fault: the page stays marked as free.
LeaveFree(i) == memory_map

\* memory_map[i] = 1 of get_page.
Take(i) == memory_map \cup {i}

GetPage ==
    /\ phase = "running"
    /\ IF AvailablePages # {} /\ free_pages > 0
       THEN /\ memory_map' = Take(Min(AvailablePages))
            /\ free_pages' = free_pages - 1
            /\ page_refs' = Given(page_refs, {Min(AvailablePages)})
            /\ UNCHANGED phase
       ELSE /\ phase' = "halted"
            /\ UNCHANGED <<memory_map, free_pages, page_refs>>
    /\ UNCHANGED <<memory_size, total_pages, start_page, kernel_bits, page_tables,
                   kernel_refs>>

\* Fault: the page stays uncounted.
PutPageUncounted(idx) ==
    /\ phase = "running"
    /\ idx \in page_held
    /\ memory_map' = memory_map \ {idx}
    /\ page_refs' = Returned(page_refs, {idx})
    /\ UNCHANGED <<phase, memory_size, total_pages, free_pages, start_page,
                   kernel_bits, page_tables, kernel_refs>>

PutPage(idx) ==
    /\ phase = "running"
    /\ idx \in page_held
    /\ idx >= start_page /\ idx < total_pages /\ idx \in memory_map
    /\ memory_map' = memory_map \ {idx}
    /\ free_pages' = free_pages + 1
    /\ free_pages' > 0 /\ free_pages' < total_pages
    /\ page_refs' = Returned(page_refs, {idx})
    /\ UNCHANGED <<phase, memory_size, total_pages, start_page,
                   kernel_bits, page_tables, kernel_refs>>

AllocKpage(count) ==
    LET start == BitmapFind(kernel_bits, MapBytes, count)
    IN  /\ phase = "running"
        /\ IF start # EOF
           THEN /\ kernel_bits' = BitmapMark(kernel_bits, start, count)
                /\ kernel_refs' = Given(kernel_refs,
                                        BASE + start .. BASE + start + count - 1)
                /\ UNCHANGED phase
           ELSE /\ phase' = "halted"
                /\ UNCHANGED <<kernel_bits, kernel_refs>>
        /\ UNCHANGED <<memory_size, total_pages, free_pages, start_page,
                       memory_map, page_tables, page_refs>>

\* Fault: only the first page of a run is given back.
FreeOne(vaddr, count) ==
    /\ phase = "running"
    /\ (vaddr .. vaddr + count - 1) \subseteq kernel_held
    /\ kernel_bits' = BitmapClear(kernel_bits, vaddr - BASE, 1)
    /\ kernel_refs' = Returned(kernel_refs, vaddr .. vaddr + count - 1)
    /\ UNCHANGED <<phase, memory_size, total_pages, free_pages, start_page,
                   memory_map, page_tables, page_refs>>

\* A caller frees pages it holds, not always as the run it got.
FreeKpage(vaddr, count) ==
    /\ phase = "running"
    /\ (vaddr .. vaddr + count - 1) \subseteq kernel_held
    /\ (vaddr - BASE .. vaddr - BASE + count - 1) \subseteq kernel_bits
    /\ kernel_bits' = BitmapClear(kernel_bits, vaddr - BASE, count)
    /\ kernel_refs' = Returned(kernel_refs, vaddr .. vaddr + count - 1)
    /\ UNCHANGED <<phase, memory_size, total_pages, free_pages, start_page,
                   memory_map, page_tables, page_refs>>

-----------------------------------------------------------------------------
Init ==
    /\ phase = "memory_init"
    /\ memory_size = 0
    /\ total_pages = 0
    /\ free_pages = 0
    /\ start_page = 0
    /\ memory_map = {}
    /\ kernel_bits = {}
    /\ page_tables = <<>>
    /\ kernel_refs = [p \in Pages |-> 0]
    /\ page_refs = [p \in Pages |-> 0]

Next ==
    \/ MemoryInitUnknown
    \/ \E ards \in ArdsTables : MemoryInit(ards)
    \/ MemoryMapInit
    \/ MappingInit
    \/ GetPage
    \/ \E idx \in page_held : PutPage(idx)
    \/ \E count \in 1 .. MaxCount : AllocKpage(count)
    \/ \E vaddr \in kernel_held, count \in 1 .. MaxCount : FreeKpage(vaddr, count)

Spec == Init /\ [][Next]_vars

-----------------------------------------------------------------------------
(* Properties *)

TypeOK ==
    /\ phase \in {"memory_init", "memory_map_init", "mapping_init", "running",
                  "halted"}
    /\ memory_size \in 0 .. PAGES32 - 1
    /\ total_pages \in Nat /\ free_pages \in Nat /\ start_page \in Nat
    /\ memory_map \subseteq 0 .. total_pages - 1
    /\ kernel_bits \subseteq BitRange(MapBytes)
    /\ page_tables \in {<<>>, KernelTables}
    /\ kernel_refs \in [Pages -> Nat] /\ page_refs \in [Pages -> Nat]
    /\ kernel_held \subseteq BASE .. KPAGES - 1
    /\ page_held \subseteq 0 .. total_pages - 1

\* No page is in two hands, whether one allocator has given it twice or both
\* have given it, and the pages that memory_map itself lies in are in none.  The
\* two keep separate books, so this hangs on what the boot steps mark in each.
NoPageTwice ==
    \A page \in Pages :
        /\ kernel_refs[page] + page_refs[page] <= 1
        /\ page < start_page => kernel_refs[page] + page_refs[page] = 0

\* Once paging is on the kernel reaches memory_map and the pages alloc_kpage
\* hands out at their own address, no page of get_page and not page 0; the directory and
\* its tables are handed out by neither, and get_pde and get_pte find them.
KernelPagesMapped ==
    phase = "running" =>
        /\ \A page \in kernel_held \cup (BASE .. start_page - 1) : Translate(page) = page
        /\ \A page \in page_held, vaddr \in 0 .. PAGES32 - 1 : Translate(vaddr) # page
        /\ Translate(0) = NoPage
        /\ (kernel_held \cup page_held) \cap DOMAIN page_tables = {}
        /\ Translate(GetPde) = KERNEL_PAGE_DIR
        /\ \A vaddr \in 0 .. KPAGES - 1 :
                Translate(GetPte(vaddr)) = page_tables[KERNEL_PAGE_DIR][Didx(vaddr)]

\* After any sequence of allocations and partial frees the bitmap marks what
\* is held and the reserved pages, nothing else: no leak, no early reuse.
BitmapMatchesHolders ==
    phase = "running" =>
        kernel_bits = {p - BASE : p \in kernel_held \cup (BASE .. start_page - 1)}

\* bitmap_scan stops at the first place where the run fits, whatever the
\* fragmentation, and fails only when there is none.
ScanIsFirstFit ==
    \A count \in 1 .. MapBytes * BYTE :
        BitmapFind(kernel_bits, MapBytes, count) =
            FirstFit(kernel_bits, MapBytes, count)

\* The assert(free_pages > 0) of get_page never fails while there is a page.
\* The count is not exact: mapping_init takes pages without subtracting them.
FreePagesSuffice ==
    phase = "running" => free_pages >= Cardinality(AvailablePages)

=============================================================================
