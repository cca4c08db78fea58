---------------------------- MODULE MemoryProofs ----------------------------
(***************************************************************************)
(* The two page allocators for every size of the memory, of the kernel's   *)
(* part of it and of a page, and for every memory map the BIOS may hand    *)
(* over; bitmap_scan for every bitmap.                                     *)
(***************************************************************************)
EXTENDS Memory, KernelLemmas, FiniteSetTheorems

-----------------------------------------------------------------------------
(* bitmap_scan *)

\* The recursion of ClearRun has a solution, so ClearRun is it.
LEMMA RunUnfolds ==
    ASSUME NEW bits, NEW length \in Nat
    PROVE  /\ ClearRun(bits, length) \in [0 .. length * BYTE -> Nat]
           /\ ClearRun(bits, length)[0] = 0
           /\ \A i \in 1 .. length * BYTE :
                ClearRun(bits, length)[i] =
                    IF i - 1 \notin bits THEN ClearRun(bits, length)[i - 1] + 1 ELSE 0
<1> DEFINE size == length * BYTE
           Counts(g) == g = [i \in 0 .. size |->
                                IF i = 0 THEN 0
                                ELSE IF i - 1 \notin bits THEN g[i - 1] + 1 ELSE 0]
           step == [i \in 1 .. size |-> [c \in Nat |-> IF i - 1 \notin bits
                                                       THEN c + 1 ELSE 0]]
<1>1. step \in [1 .. size -> [Nat -> Nat]]
    OBVIOUS
<1>2. \A i \in 1 .. size : \A c \in Nat :
        step[i][c] = IF i - 1 \notin bits THEN c + 1 ELSE 0
    OBVIOUS
<1>3. size \in Nat
    BY DEF BYTE
<1> HIDE DEF step, size
<1>4. PICK g : IsHistory(g, size, Nat, 0, step)
    BY <1>1, <1>3, LoopHistory
<1>5. Counts(g)
    <2>1. \A i \in 1 .. size : g[i - 1] \in Nat
        BY <1>3, <1>4 DEF IsHistory
    <2>2. \A i \in 1 .. size : g[i] = IF i - 1 \notin bits THEN g[i - 1] + 1 ELSE 0
        BY <1>2, <1>4, <2>1 DEF IsHistory
    <2>3. g \in [0 .. size -> Nat] /\ g[0] = 0
        BY <1>4 DEF IsHistory
    <2> QED
        BY <1>3, <2>2, <2>3
<1> DEFINE run == ClearRun(bits, length)
<1>6. run = CHOOSE h : Counts(h)
    BY DEF ClearRun, size
<1>7. Counts(run)
    <2> HIDE DEF Counts, run
    <2> QED
        BY <1>5, <1>6, Zenon
<1>8. \A i \in 0 .. size : run[i] \in Nat
    <2> DEFINE S == {i \in 0 .. size : run[i] \in Nat}
    <2> HIDE DEF run
    <2>1. 0 \in S
        BY <1>3, <1>7
    <2>2. \A i \in 1 .. size : i - 1 \in S => i \in S
        BY <1>3, <1>7
    <2> HIDE DEF S
    <2>3. \A i \in 0 .. size : i \in S
        BY <1>3, <2>1, <2>2, BoundedInduction, Zenon
    <2> QED
        BY <2>3 DEF S
<1> HIDE DEF run
<1>9. /\ run \in [0 .. size -> Nat] /\ run[0] = 0
      /\ \A i \in 1 .. size : run[i] = IF i - 1 \notin bits THEN run[i - 1] + 1 ELSE 0
    BY <1>3, <1>7, <1>8
<1> QED
    BY <1>9 DEF run, size

\* The counter of the search loop is the length of the run of clear bits that
\* ends at the bit just read: clear as far back as it counts, and no further.
LEMMA RunCounts ==
    ASSUME NEW bits, NEW length \in Nat, NEW i \in 0 .. length * BYTE
    PROVE  /\ ClearRun(bits, length)[i] \in 0 .. i
           /\ \A k \in i - ClearRun(bits, length)[i] .. i - 1 : k \notin bits
           /\ ClearRun(bits, length)[i] < i => i - ClearRun(bits, length)[i] - 1 \in bits
<1> DEFINE size == length * BYTE
           run == ClearRun(bits, length)
           S == {n \in 0 .. size :
                    /\ run[n] \in 0 .. n
                    /\ \A k \in n - run[n] .. n - 1 : k \notin bits
                    /\ run[n] < n => n - run[n] - 1 \in bits}
<1>1. /\ size \in Nat /\ run[0] = 0
      /\ \A n \in 1 .. size : run[n] = IF n - 1 \notin bits THEN run[n - 1] + 1 ELSE 0
    BY RunUnfolds DEF BYTE
<1> HIDE DEF run, size
<1>2. 0 \in S
    BY <1>1
<1>3. ASSUME NEW n \in 1 .. size, n - 1 \in S
      PROVE  n \in S
    <2> DEFINE c == run[n - 1]
    <2>1. /\ n \in Nat /\ c \in 0 .. n - 1
          /\ \A k \in n - 1 - c .. n - 2 : k \notin bits
          /\ c < n - 1 => n - 1 - c - 1 \in bits
        BY <1>1, <1>3
    <2> HIDE DEF c
    <2>2. CASE n - 1 \in bits
        <3>1. run[n] = 0
            BY <1>1, <2>2
        <3> QED
            BY <1>1, <2>1, <2>2, <3>1
    <2>3. CASE n - 1 \notin bits
        <3>1. run[n] = c + 1
            BY <1>1, <2>3 DEF c
        <3>2. \A k \in n - run[n] .. n - 1 : k \notin bits
            BY <2>1, <2>3, <3>1
        <3> QED
            BY <1>1, <2>1, <3>1, <3>2
    <2> QED
        BY <2>2, <2>3
<1>4. \A n \in 0 .. size : n \in S
    <2> HIDE DEF S
    <2> QED
        BY <1>1, <1>2, <1>3, BoundedInduction, Zenon
<1> QED
    BY <1>4 DEF run, size

\* bitmap_scan finds the first place where count clear bits fit, whatever the
\* bitmap, and fails only if there is none.
THEOREM FindIsFirstFit ==
    ASSUME NEW bits, NEW length \in Nat, NEW count \in Nat \ {0}
    PROVE  BitmapFind(bits, length, count) = FirstFit(bits, length, count)
<1> DEFINE size == length * BYTE
           run  == ClearRun(bits, length)
           hits == {i \in 1 .. size : run[i] = count}
           fits == {s \in BitRange(length) :
                        /\ s + count <= size
                        /\ (s .. s + count - 1) \cap bits = {}}
<1>1. /\ BitmapFind(bits, length, count) = IF hits = {} THEN EOF ELSE Min(hits) - count
      /\ FirstFit(bits, length, count) = IF fits = {} THEN EOF ELSE Min(fits)
    BY DEF BitmapFind, FirstFit
<1>2. /\ size \in Nat
      /\ \A s : s \in fits <=> /\ s \in 0 .. size - 1 /\ s + count <= size
                               /\ \A k \in s .. s + count - 1 : k \notin bits
    BY DEF BitRange, BYTE
<1>3. \A i \in 0 .. size :
        /\ run[i] \in 0 .. i
        /\ \A k \in i - run[i] .. i - 1 : k \notin bits
        /\ run[i] < i => i - run[i] - 1 \in bits
    BY RunCounts
<1> HIDE DEF run, size
<1>4. hits \in SUBSET Nat /\ fits \in SUBSET Nat
    BY <1>2 DEF BitRange
<1>5. ASSUME NEW h \in hits
      PROVE  h - count \in fits
    BY <1>2, <1>3
<1> HIDE DEF fits
<1>6. ASSUME NEW s \in fits, \A r \in fits : s <= r
      PROVE  s + count \in hits
    <2> DEFINE i == s + count
    <2>1. s \in Nat /\ i \in 1 .. size
        BY <1>2, <1>6
    <2>2. /\ run[i] \in 0 .. i
          /\ \A k \in i - run[i] .. i - 1 : k \notin bits
          /\ run[i] < i => i - run[i] - 1 \in bits
        BY <1>2, <1>3, <2>1
    <2>3. run[i] >= count
        <3> SUFFICES ASSUME run[i] < count
                     PROVE  FALSE
            BY <2>2
        <3>1. i - run[i] - 1 \in bits /\ i - run[i] - 1 \in s .. s + count - 1
            BY <2>1, <2>2
        <3> QED
            BY <1>2, <3>1
    <2>4. ~(run[i] > count)
        <3> SUFFICES ASSUME run[i] > count
                     PROVE  FALSE
            OBVIOUS
        <3>1. s - 1 \in 0 .. size - 1 /\ s - 1 + count <= size
            BY <1>2, <2>1, <2>2
        <3>2. \A k \in s - 1 .. s - 1 + count - 1 : k \notin bits
            BY <2>1, <2>2
        <3>3. s - 1 \in fits
            BY <1>2, <3>1, <3>2
        <3> QED
            BY <1>6, <2>1, <3>3
    <2> QED
        BY <2>1, <2>2, <2>3, <2>4
<1>7. CASE fits = {}
    <2>1. hits = {}
        BY <1>5, <1>7
    <2> QED
        BY <1>1, <1>7, <2>1
<1>8. CASE fits # {}
    <2>1. Min(fits) \in fits /\ \A r \in fits : Min(fits) <= r
        BY <1>4, <1>8, MinProperties
    <2>2. Min(fits) + count \in hits
        BY <1>6, <2>1
    <2> HIDE DEF hits
    <2>3. Min(hits) \in hits /\ \A h \in hits : Min(hits) <= h
        BY <1>4, <2>2, MinProperties
    <2>4. Min(hits) - count \in fits
        BY <1>5, <2>3
    <2>5. Min(hits) <= Min(fits) + count /\ Min(fits) <= Min(hits) - count
        BY <2>1, <2>2, <2>3, <2>4
    <2>6. Min(hits) \in Nat /\ Min(fits) \in Nat
        BY <1>4, <2>1, <2>3
    <2> QED
        BY <1>1, <1>8, <2>2, <2>5, <2>6
<1> QED
    BY <1>7, <1>8

-----------------------------------------------------------------------------
(* The books of the two allocators *)

\* What the boot steps and any calls leave.  Everything below KPAGES is marked
\* in memory_map, what lies below start_page is reserved in kernel_map, and each
\* book records what its own allocator has handed out besides; the count of free
\* pages keeps to it from mapping_init on, too large by what that step took.
Books ==
    /\ memory_size \in KPAGES .. PAGES32 - 1
    /\ total_pages = memory_size + BASE
    /\ start_page = BASE + MapPages
    /\ memory_map = (0 .. KPAGES - 1) \cup page_held
    /\ page_held \subseteq KPAGES .. total_pages - 1
    /\ free_pages \in Nat
    /\ free_pages = total_pages - start_page - Cardinality(page_held)
    /\ kernel_held \subseteq start_page .. BASE + MapBytes * BYTE - 1
    /\ kernel_bits = {p - BASE : p \in kernel_held \cup (BASE .. start_page - 1)}
    /\ page_tables = KernelTables

NothingHeld == kernel_held = {} /\ page_held = {}

\* Neither allocator gives a page to two callers.
OneCaller ==
    kernel_refs \in [Pages -> 0 .. 1] /\ page_refs \in [Pages -> 0 .. 1]

\* The steps of the boot, each with what it leaves to the next.
Boots ==
    \/ /\ phase \in {"memory_init", "halted"}
       /\ NothingHeld
       /\ memory_size \in 0 .. PAGES32 - 1
       /\ total_pages \in Nat /\ free_pages \in Nat /\ start_page = 0
       /\ memory_map = {} /\ kernel_bits = {} /\ page_tables = <<>>
    \/ /\ phase = "memory_map_init"
       /\ NothingHeld
       /\ memory_size \in KPAGES .. PAGES32 - 1
       /\ total_pages = memory_size + BASE
       /\ free_pages = memory_size /\ start_page = 0
       /\ memory_map = {} /\ kernel_bits = {} /\ page_tables = <<>>
    \/ /\ phase = "mapping_init"
       /\ NothingHeld
       /\ memory_size \in KPAGES .. PAGES32 - 1
       /\ total_pages = memory_size + BASE
       /\ free_pages = total_pages - start_page /\ start_page = BASE + MapPages
       /\ memory_map = 0 .. start_page - 1
       /\ kernel_bits = 0 .. MapPages - 1 /\ page_tables = <<>>
    \/ phase \in {"running", "halted"} /\ Books

MemoryInv == OneCaller /\ Boots

LEMMA MemoryConstants ==
    /\ BASE \in Nat /\ BASE > 3 /\ BASE < KPAGES
    /\ PER_PAGE \in Nat \ {0}
    /\ ENTRIES \in Nat /\ ENTRIES > 2 /\ KPAGES = 2 * ENTRIES
    /\ PAGES32 \in Nat \ {0} /\ PAGES32 >= KPAGES
    /\ MapBytes \in Nat /\ BASE + MapBytes * BYTE <= KPAGES
<1>1. /\ BASE \in Nat /\ BASE > 3 /\ BASE < KPAGES /\ PER_PAGE \in Nat \ {0}
      /\ ENTRIES \in Nat /\ ENTRIES > 2 /\ KPAGES = 2 * ENTRIES
    BY MemoryAssumption
<1>2. ENTRIES * (ENTRIES - 2) >= 0 /\ ENTRIES * ENTRIES = ENTRIES * (ENTRIES - 2) + 2 * ENTRIES
    BY <1>1
<1>3. PAGES32 \in Nat \ {0} /\ PAGES32 >= KPAGES
    BY <1>1, <1>2 DEF PAGES32
<1>4. KPAGES - BASE \in Nat
    BY <1>1
<1>5. MapBytes \in Nat /\ MapBytes * BYTE <= KPAGES - BASE
    BY <1>4 DEF MapBytes, BYTE
<1> QED
    BY <1>1, <1>3, <1>5 DEF BYTE

\* Pages that nobody has, given to one caller.
LEMMA GivenOnce ==
    ASSUME NEW refs \in [Pages -> 0 .. 1], NEW pages \in SUBSET Pages,
           \A p \in pages : p \notin Held(refs)
    PROVE  /\ Given(refs, pages) \in [Pages -> 0 .. 1]
           /\ Held(Given(refs, pages)) = Held(refs) \cup pages
<1>1. \A p \in Pages : refs[p] \in 0 .. 1 /\ (p \in pages => refs[p] = 0)
    BY DEF Held
<1>2. \A p \in Pages : Given(refs, pages)[p] = IF p \in pages THEN 1 ELSE refs[p]
    BY <1>1 DEF Given
<1>3. Given(refs, pages) \in [Pages -> 0 .. 1]
    BY <1>1 DEF Given
<1>4. \A p \in Pages : Given(refs, pages)[p] > 0 <=> refs[p] > 0 \/ p \in pages
    BY <1>1, <1>2
<1> QED
    BY <1>3, <1>4 DEF Held

\* Pages that a caller has, given back.
LEMMA ReturnedOnce ==
    ASSUME NEW refs \in [Pages -> 0 .. 1], NEW pages \in SUBSET Held(refs)
    PROVE  /\ Returned(refs, pages) \in [Pages -> 0 .. 1]
           /\ Held(Returned(refs, pages)) = Held(refs) \ pages
<1>1. \A p \in Pages : refs[p] \in 0 .. 1 /\ (p \in pages => refs[p] = 1)
    BY DEF Held
<1>2. \A p \in Pages : Returned(refs, pages)[p] = IF p \in pages THEN 0 ELSE refs[p]
    BY <1>1 DEF Returned
<1>3. Returned(refs, pages) \in [Pages -> 0 .. 1]
    BY <1>1 DEF Returned
<1>4. \A p \in Pages : Returned(refs, pages)[p] > 0 <=> refs[p] > 0 /\ p \notin pages
    BY <1>1, <1>2
<1> QED
    BY <1>3, <1>4 DEF Held

\* Who has which page, when the counts stay as they are.
LEMMA SameHands ==
    /\ UNCHANGED kernel_refs => UNCHANGED kernel_held
    /\ UNCHANGED page_refs => UNCHANGED page_held
BY DEF kernel_held, page_held, Held

\* The pages of memory_map are at least one, and kernel_map has a bit for each.
LEMMA MapPagesFit ==
    ASSUME NEW total \in KPAGES .. PAGES32 + BASE - 1
    PROVE  (total + PER_PAGE - 1) \div PER_PAGE \in 1 .. MapBytes * BYTE
<1> DEFINE top == PAGES32 + BASE + PER_PAGE - 1
           len == total + PER_PAGE - 1
<1>1. PER_PAGE \in Nat \ {0} /\ top \in Nat /\ len \in Nat /\ PER_PAGE <= len /\ len <= top
    BY MemoryConstants
<1>2. top \div PER_PAGE <= MapBytes * BYTE
    BY MapFitsAssumption
<1>3. PER_PAGE \div PER_PAGE = 1
    <2>1. (1 * PER_PAGE + 0) \div PER_PAGE = 1
        BY <1>1, DivMod
    <2> QED
        BY <1>1, <2>1
<1>4. top \div PER_PAGE \in Int /\ MapBytes * BYTE \in Int
    BY <1>1, MemoryConstants DEF BYTE
<1> HIDE DEF top, len
<1>5. 1 <= len \div PER_PAGE
    BY <1>1, <1>3, DivMonotone
<1>6. len \div PER_PAGE <= top \div PER_PAGE /\ len \div PER_PAGE \in Nat
    BY <1>1, DivMonotone
<1>7. len \div PER_PAGE \in 1 .. MapBytes * BYTE
    BY <1>2, <1>4, <1>5, <1>6
<1> QED
    BY <1>7 DEF len

\* The zone that memory_init ends up with has the width of a u32.
LEMMA ChosenZone ==
    ASSUME NEW ards \in ArdsTables
    PROVE  Chosen(ards) \in [base : 0 .. PAGES32 - 1, size : 0 .. PAGES32 - 1,
                            rest : 0 .. PER_PAGE - 1]
<1> DEFINE Zones == [base : 0 .. PAGES32 - 1, size : 0 .. PAGES32 - 1,
                     rest : 0 .. PER_PAGE - 1]
           None  == [base |-> 0, size |-> 0, rest |-> 0]
           Better(z, i) == IF ards[i].valid /\ Larger(ards[i], z)
                           THEN [base |-> ards[i].base % PAGES32,
                                 size |-> ards[i].size % PAGES32,
                                 rest |-> ards[i].rest]
                           ELSE z
           Picks(g) == g = [i \in 0 .. Len(ards) |-> IF i = 0 THEN None
                                                     ELSE Better(g[i - 1], i)]
           step == [i \in 1 .. Len(ards) |-> [z \in Zones |-> Better(z, i)]]
<1>1. ards \in Seq(Ards) /\ Len(ards) \in Nat
    BY MemoryAssumption
<1>2. \A i \in 1 .. Len(ards) : \A z \in Zones : Better(z, i) \in Zones
    <2> SUFFICES ASSUME NEW i \in 1 .. Len(ards), NEW z \in Zones
                 PROVE  Better(z, i) \in Zones
        OBVIOUS
    <2>1. ards[i] \in [base : Nat, size : Nat, rest : 0 .. PER_PAGE - 1, valid : BOOLEAN]
        BY <1>1, ElementOfSeq DEF Ards
    <2>2. \A b \in Int : b % PAGES32 \in 0 .. PAGES32 - 1
        <3>1. PAGES32 \in Nat \ {0}
            BY MemoryConstants
        <3> QED
            BY <3>1, ModRange, Zenon
    <2> DEFINE cut == [base |-> ards[i].base % PAGES32, size |-> ards[i].size % PAGES32,
                       rest |-> ards[i].rest]
    <2>3. cut \in Zones
        <3>1. ards[i].base \in Int /\ ards[i].size \in Int /\ ards[i].rest \in 0 .. PER_PAGE - 1
            BY <2>1
        <3>2. /\ ards[i].base % PAGES32 \in 0 .. PAGES32 - 1
              /\ ards[i].size % PAGES32 \in 0 .. PAGES32 - 1
            BY <2>2, <3>1, Zenon
        <3> QED
            BY <3>1, <3>2, Zenon
    <2> QED
        BY <2>3, Zenon
<1>3. None \in Zones
    BY MemoryConstants
<1> HIDE DEF Zones, None, Better
<1>4. /\ step \in [1 .. Len(ards) -> [Zones -> Zones]]
      /\ \A i \in 1 .. Len(ards) : \A z \in Zones : step[i][z] = Better(z, i)
    BY <1>2
<1> HIDE DEF step
<1>5. PICK g : IsHistory(g, Len(ards), Zones, None, step)
    BY <1>1, <1>3, <1>4, LoopHistory
<1>6. Picks(g)
    <2>1. g \in [0 .. Len(ards) -> Zones] /\ g[0] = None
        BY <1>5 DEF IsHistory
    <2>2. \A i \in 1 .. Len(ards) : g[i - 1] \in Zones
        BY <1>1, <2>1
    <2>3. \A i \in 1 .. Len(ards) : g[i] = Better(g[i - 1], i)
        BY <1>4, <1>5, <2>2 DEF IsHistory
    <2> QED
        BY <1>1, <2>1, <2>3
<1> DEFINE zone == CHOOSE h : Picks(h)
<1>7. Picks(zone)
    <2> HIDE DEF Picks
    <2> QED
        BY <1>6, Zenon
<1>8. Chosen(ards) = zone[Len(ards)]
    BY DEF Chosen, Better, None
<1> HIDE DEF zone
<1>9. \A i \in 0 .. Len(ards) : zone[i] \in Zones
    <2> DEFINE S == {i \in 0 .. Len(ards) : zone[i] \in Zones}
    <2>0. zone[0] = None /\ \A i \in 1 .. Len(ards) : zone[i] = Better(zone[i - 1], i)
        <3>1. zone[0] = None
            BY <1>1, <1>7
        <3>2. ASSUME NEW i \in 1 .. Len(ards)
              PROVE  zone[i] = Better(zone[i - 1], i)
            <4>1. i \in 0 .. Len(ards) /\ i # 0
                BY <1>1
            <4> QED
                BY <1>7, <4>1
        <3> QED
            BY <3>1, <3>2
    <2>1. 0 \in S
        BY <1>1, <1>3, <2>0
    <2>2. \A i \in 1 .. Len(ards) : i - 1 \in S => i \in S
        BY <1>1, <1>2, <2>0
    <2> HIDE DEF S
    <2>3. \A i \in 0 .. Len(ards) : i \in S
        BY <1>1, <2>1, <2>2, BoundedInduction, Zenon
    <2> QED
        BY <2>3 DEF S
<1> QED
    BY <1>1, <1>8, <1>9 DEF Zones

LEMMA MemoryInvInit == Init => MemoryInv
<1> SUFFICES ASSUME Init
             PROVE  MemoryInv
    OBVIOUS
<1>1. OneCaller /\ NothingHeld
    BY DEF Init, OneCaller, NothingHeld, kernel_held, page_held, Held
<1> QED
    BY <1>1, MemoryConstants DEF Init, MemoryInv, Boots

\* What a step of the boot leaves of who has which page: nobody has any.
LEMMA BootStep ==
    ASSUME OneCaller, NothingHeld, UNCHANGED <<kernel_refs, page_refs>>
    PROVE  OneCaller' /\ NothingHeld'
BY SameHands DEF OneCaller, NothingHeld

\* The wrong magic number.
LEMMA MemoryInvMemoryInitUnknown ==
    ASSUME MemoryInv, MemoryInitUnknown
    PROVE  MemoryInv'
<1>1. /\ phase = "memory_init" /\ phase' = "halted"
      /\ UNCHANGED <<memory_size, total_pages, free_pages, start_page, memory_map,
                     kernel_bits, page_tables, kernel_refs, page_refs>>
    BY DEF MemoryInitUnknown
<1>2. /\ OneCaller /\ NothingHeld /\ start_page = 0
      /\ memory_size \in 0 .. PAGES32 - 1 /\ total_pages \in Nat /\ free_pages \in Nat
      /\ memory_map = {} /\ kernel_bits = {} /\ page_tables = <<>>
    BY <1>1 DEF MemoryInv, Boots
<1>3. OneCaller' /\ NothingHeld'
    BY <1>1, <1>2, BootStep
<1> QED
    BY <1>1, <1>2, <1>3 DEF MemoryInv, Boots

\* memory_init stops unless the zone at 1M is as large as the kernel's part.
LEMMA MemoryInvMemoryInit ==
    ASSUME MemoryInv, NEW ards \in ArdsTables, MemoryInit(ards)
    PROVE  MemoryInv'
<1>1. phase = "memory_init"
    BY DEF MemoryInit
<1>2. /\ OneCaller /\ NothingHeld /\ start_page = 0
      /\ total_pages \in Nat /\ free_pages \in Nat
      /\ memory_map = {} /\ kernel_bits = {} /\ page_tables = <<>>
    BY <1>1 DEF MemoryInv, Boots
<1> DEFINE size == Chosen(ards).size
<1>3. size \in 0 .. PAGES32 - 1
    BY ChosenZone
<1>4. /\ memory_size' = size
      /\ UNCHANGED <<start_page, memory_map, kernel_bits, page_tables, kernel_refs,
                     page_refs>>
      /\ \/ /\ total_pages' = size + BASE /\ free_pages' = size
            /\ \/ phase' = "memory_map_init" /\ size >= KPAGES
               \/ phase' = "halted"
         \/ phase' = "halted" /\ UNCHANGED <<total_pages, free_pages>>
    BY DEF MemoryInit
<1> HIDE DEF size
<1>5. OneCaller' /\ NothingHeld'
    BY <1>2, <1>4, BootStep
<1> QED
    BY <1>2, <1>3, <1>4, <1>5, MemoryConstants DEF MemoryInv, Boots

\* memory_map_init reserves the pages of memory_map in both books: the first
\* bitmap_scan of an empty kernel_map starts at bit 0.
LEMMA MemoryInvMemoryMapInit ==
    ASSUME MemoryInv, MemoryMapInit
    PROVE  MemoryInv'
<1>1. phase = "memory_map_init"
    BY DEF MemoryMapInit
<1>2. /\ OneCaller /\ NothingHeld /\ page_tables = <<>>
      /\ memory_size \in KPAGES .. PAGES32 - 1 /\ total_pages = memory_size + BASE
      /\ free_pages = memory_size
    BY <1>1 DEF MemoryInv, Boots
<1>3. MapPages \in 1 .. MapBytes * BYTE /\ MapPages' = MapPages
    <2>1. total_pages \in KPAGES .. PAGES32 + BASE - 1
        BY <1>2, MemoryConstants
    <2>2. total_pages' = total_pages
        BY DEF MemoryMapInit
    <2> QED
        BY <2>1, <2>2, MapPagesFit DEF MapPages
<1>4. MapBytes * BYTE \in Nat /\ MapPages \in Nat \ {0}
    BY <1>3, MemoryConstants DEF BYTE
<1>5. BitmapFind({}, MapBytes, MapPages) = 0
    <2> DEFINE fits == {s \in BitRange(MapBytes) :
                            /\ s + MapPages <= MapBytes * BYTE
                            /\ (s .. s + MapPages - 1) \cap {} = {}}
    <2>1. BitmapFind({}, MapBytes, MapPages) = FirstFit({}, MapBytes, MapPages)
        BY <1>4, MemoryConstants, FindIsFirstFit
    <2>2. FirstFit({}, MapBytes, MapPages) = IF fits = {} THEN EOF ELSE Min(fits)
        BY DEF FirstFit
    <2>3. 0 \in fits /\ fits \in SUBSET Nat
        BY <1>3, <1>4 DEF BitRange
    <2> HIDE DEF fits
    <2>4. Min(fits) \in fits /\ Min(fits) <= 0
        BY <2>3, MinProperties
    <2>5. fits # {} /\ Min(fits) \in Nat
        BY <2>3, <2>4, Zenon
    <2>6. Min(fits) = 0
        BY <2>4, <2>5
    <2> QED
        BY <2>1, <2>2, <2>5, <2>6, Zenon
<1>6. kernel_bits' = 0 .. MapPages - 1
    <2>1. kernel_bits' = BitmapMark({}, 0, MapPages)
        BY <1>5 DEF MemoryMapInit, EOF
    <2> QED
        BY <2>1, <1>4 DEF BitmapMark
<1>7. /\ free_pages' = free_pages - MapPages /\ start_page' = BASE + MapPages
      /\ memory_map' = 0 .. start_page' - 1 /\ phase' = "mapping_init"
      /\ UNCHANGED <<memory_size, total_pages, page_tables, kernel_refs, page_refs>>
    BY DEF MemoryMapInit
<1>8. OneCaller' /\ NothingHeld'
    BY <1>2, <1>7, BootStep
<1>9. free_pages' = total_pages' - start_page'
    BY <1>2, <1>4, <1>7, MemoryConstants
<1> QED
    BY <1>2, <1>3, <1>6, <1>7, <1>8, <1>9 DEF MemoryInv, Boots

\* What the books say of the bounds.
LEMMA BooksBounds ==
    ASSUME Books
    PROVE  /\ MapPages \in 1 .. MapBytes * BYTE
           /\ start_page \in Nat /\ start_page = BASE + MapPages /\ start_page <= KPAGES
           /\ total_pages \in Nat /\ total_pages > KPAGES
           /\ IsFiniteSet(page_held) /\ Cardinality(page_held) \in Nat
           /\ kernel_bits \subseteq 0 .. MapBytes * BYTE - 1
           /\ \A i \in Int : i \in kernel_bits <=>
                    BASE + i \in kernel_held \/ i \in 0 .. MapPages - 1
<1>1. total_pages \in KPAGES .. PAGES32 + BASE - 1 /\ total_pages > KPAGES
    BY MemoryConstants DEF Books
<1>2. MapPages \in 1 .. MapBytes * BYTE
    BY <1>1, MapPagesFit DEF MapPages
<1>3. start_page = BASE + MapPages
    BY DEF Books
<1>4. IsFiniteSet(page_held) /\ Cardinality(page_held) \in Nat
    <2>1. IsFiniteSet(KPAGES .. total_pages - 1)
        BY <1>1, MemoryConstants, FS_Interval
    <2>2. page_held \subseteq KPAGES .. total_pages - 1
        BY DEF Books
    <2> QED
        BY <2>1, <2>2, FS_Subset, FS_CardinalityType
<1>5. MapBytes * BYTE \in Nat
    BY MemoryConstants DEF BYTE
<1>6. kernel_held \subseteq start_page .. BASE + MapBytes * BYTE - 1
    BY DEF Books
<1>7. kernel_bits = {p - BASE : p \in kernel_held \cup (BASE .. start_page - 1)}
    BY DEF Books
<1>8. ASSUME NEW i \in Int
      PROVE  i \in kernel_bits <=> BASE + i \in kernel_held \/ i \in 0 .. MapPages - 1
    <2>1. ASSUME i \in kernel_bits
          PROVE  BASE + i \in kernel_held \/ i \in 0 .. MapPages - 1
        <3>1. PICK p \in kernel_held \cup (BASE .. start_page - 1) : i = p - BASE
            BY <1>7, <2>1
        <3> QED
            BY <1>2, <1>3, <1>5, <1>6, <3>1, MemoryConstants
    <2>2. ASSUME BASE + i \in kernel_held \/ i \in 0 .. MapPages - 1
          PROVE  i \in kernel_bits
        <3>1. BASE + i \in kernel_held \cup (BASE .. start_page - 1)
            BY <1>2, <1>3, <1>5, <2>2, MemoryConstants
        <3>2. (BASE + i) - BASE = i
            BY MemoryConstants
        <3> QED
            BY <1>7, <3>1, <3>2
    <2> QED
        BY <2>1, <2>2
<1>9. kernel_bits \subseteq 0 .. MapBytes * BYTE - 1
    <2> SUFFICES ASSUME NEW i \in kernel_bits
                 PROVE  i \in 0 .. MapBytes * BYTE - 1
        OBVIOUS
    <2>1. PICK p \in kernel_held \cup (BASE .. start_page - 1) : i = p - BASE
        BY <1>7
    <2> QED
        BY <1>2, <1>3, <1>5, <1>6, <2>1, MemoryConstants
<1> QED
    BY <1>1, <1>2, <1>3, <1>4, <1>5, <1>8, <1>9, MemoryConstants

\* mapping_init marks what it maps, which covers what memory_map_init marked.
LEMMA MemoryInvMappingInit ==
    ASSUME MemoryInv, MappingInit
    PROVE  MemoryInv'
<1>1. phase = "mapping_init"
    BY DEF MappingInit
<1>2. /\ OneCaller /\ NothingHeld /\ memory_size \in KPAGES .. PAGES32 - 1
      /\ total_pages = memory_size + BASE /\ free_pages = total_pages - start_page
      /\ start_page = BASE + MapPages
      /\ memory_map = 0 .. start_page - 1 /\ kernel_bits = 0 .. MapPages - 1
    BY <1>1 DEF MemoryInv, Boots
<1>3. /\ memory_map' = memory_map \cup (1 .. KPAGES - 1)
      /\ page_tables' = KernelTables /\ phase' = "running"
      /\ UNCHANGED <<memory_size, total_pages, free_pages, start_page,
                     kernel_bits, kernel_refs, page_refs>>
    BY DEF MappingInit, MarkMapped
<1>4. MapPages \in 1 .. MapBytes * BYTE /\ MapPages' = MapPages
    <2>1. total_pages \in KPAGES .. PAGES32 + BASE - 1
        BY <1>2, MemoryConstants
    <2> QED
        BY <1>3, <2>1, MapPagesFit DEF MapPages
<1>5. start_page \in Nat /\ start_page <= KPAGES /\ start_page > BASE
    BY <1>2, <1>4, MemoryConstants DEF BYTE
<1>6. page_held' = {} /\ kernel_held' = {} /\ Cardinality(page_held') = 0 /\ OneCaller'
    BY <1>2, <1>3, BootStep, FS_EmptySet DEF NothingHeld
<1>7. memory_map' = (0 .. KPAGES - 1) \cup page_held'
    BY <1>2, <1>3, <1>5, <1>6, MemoryConstants
<1>8. kernel_bits' = {p - BASE : p \in kernel_held' \cup (BASE .. start_page' - 1)}
    <2>1. \A i \in 0 .. MapPages - 1 :
            i = (BASE + i) - BASE /\ BASE + i \in BASE .. start_page - 1
        BY <1>2, <1>4, MemoryConstants DEF BYTE
    <2>2. \A p \in BASE .. start_page - 1 : p - BASE \in 0 .. MapPages - 1
        BY <1>2, <1>4, MemoryConstants DEF BYTE
    <2>3. 0 .. MapPages - 1 = {p - BASE : p \in BASE .. start_page - 1}
        BY <2>1, <2>2
    <2> QED
        BY <1>2, <1>3, <1>6, <2>3
<1>9. free_pages' \in Nat /\ free_pages' = total_pages' - start_page' - Cardinality(page_held')
    BY <1>2, <1>3, <1>5, <1>6, MemoryConstants
<1>10. Books'
    BY <1>2, <1>3, <1>4, <1>6, <1>7, <1>8, <1>9 DEF Books
<1> QED
    BY <1>3, <1>6, <1>10 DEF MemoryInv, Boots

\* Another count and other pages that agree with it leave the rest of the books
\* as they are.
LEMMA PageBooks ==
    ASSUME Books, phase' \in {"running", "halted"}, OneCaller',
           UNCHANGED <<memory_size, total_pages, start_page, kernel_bits,
                       page_tables, kernel_held>>,
           memory_map' = (0 .. KPAGES - 1) \cup page_held',
           page_held' \subseteq KPAGES .. total_pages - 1,
           free_pages' \in Nat,
           free_pages' = total_pages - start_page - Cardinality(page_held')
    PROVE  MemoryInv'
<1>1. MapPages' = MapPages
    BY DEF MapPages
<1>2. Books'
    BY <1>1 DEF Books
<1> QED
    BY <1>2 DEF MemoryInv, Boots

\* The first page that is free in memory_map.
LEMMA FirstAvailable ==
    ASSUME Books, AvailablePages # {}
    PROVE  /\ Min(AvailablePages) \in KPAGES .. total_pages - 1
           /\ Min(AvailablePages) \notin page_held
<1>1. start_page \in Nat /\ total_pages \in Nat /\ KPAGES \in Nat
    BY BooksBounds, MemoryConstants
<1>2. AvailablePages \in SUBSET Nat
    BY <1>1 DEF AvailablePages
<1>3. Min(AvailablePages) \in AvailablePages
    BY <1>2, MinProperties
<1>4. \A i \in AvailablePages : i \in KPAGES .. total_pages - 1 /\ i \notin page_held
    BY <1>1 DEF AvailablePages, Books
<1> QED
    BY <1>3, <1>4

\* get_page takes a page nobody holds, or stops with the books as they are.
LEMMA MemoryInvGetPage ==
    ASSUME MemoryInv, GetPage
    PROVE  MemoryInv'
<1>1. phase = "running"
    BY DEF GetPage
<1>2. Books /\ OneCaller
    BY <1>1 DEF MemoryInv, Boots
<1>3. UNCHANGED <<memory_size, total_pages, start_page, kernel_bits, page_tables,
                  kernel_refs, kernel_held>>
    BY SameHands DEF GetPage
<1>4. /\ start_page \in Nat /\ total_pages \in Nat
      /\ IsFiniteSet(page_held) /\ Cardinality(page_held) \in Nat
    BY <1>2, BooksBounds
<1>5. /\ memory_map = (0 .. KPAGES - 1) \cup page_held
      /\ page_held \subseteq KPAGES .. total_pages - 1
      /\ free_pages \in Nat
      /\ free_pages = total_pages - start_page - Cardinality(page_held)
    BY <1>2 DEF Books
<1>6. CASE AvailablePages # {} /\ free_pages > 0
    <2> DEFINE page == Min(AvailablePages)
    <2>1. /\ memory_map' = memory_map \cup {page} /\ free_pages' = free_pages - 1
          /\ page_refs' = Given(page_refs, {page}) /\ phase' = phase
        BY <1>6 DEF GetPage, Take
    <2>2. page \in KPAGES .. total_pages - 1 /\ page \notin page_held
        BY <1>2, <1>6, FirstAvailable
    <2> HIDE DEF page
    <2>7. page \in Pages
        BY <1>2, <2>2, MemoryConstants DEF Pages, Books
    <2>8. OneCaller' /\ page_held' = page_held \cup {page}
        <3>1. page_refs \in [Pages -> 0 .. 1] /\ page \notin Held(page_refs)
            BY <1>2, <2>2 DEF OneCaller, page_held
        <3>2. /\ Given(page_refs, {page}) \in [Pages -> 0 .. 1]
              /\ Held(Given(page_refs, {page})) = Held(page_refs) \cup {page}
            BY <2>7, <3>1, GivenOnce
        <3>3. page_held' = Held(page_refs')
            BY DEF page_held, Held
        <3> QED
            BY <1>2, <1>3, <2>1, <3>2, <3>3 DEF OneCaller, page_held
    <2>3. Cardinality(page_held') = Cardinality(page_held) + 1
        BY <1>4, <2>2, <2>8, FS_AddElement
    <2>4. memory_map' = (0 .. KPAGES - 1) \cup page_held'
        BY <1>5, <2>1, <2>8
    <2>5. page_held' \subseteq KPAGES .. total_pages - 1
        BY <1>5, <2>2, <2>8
    <2>6. /\ free_pages' \in Nat
          /\ free_pages' = total_pages - start_page - Cardinality(page_held')
        BY <1>4, <1>5, <1>6, <2>1, <2>3
    <2> QED
        BY <1>1, <1>2, <1>3, <2>1, <2>4, <2>5, <2>6, <2>8, PageBooks
<1>7. CASE ~(AvailablePages # {} /\ free_pages > 0)
    <2>1. /\ phase' = "halted" /\ OneCaller'
          /\ UNCHANGED <<memory_map, free_pages, page_held>>
        BY <1>2, <1>3, <1>7, SameHands DEF GetPage, OneCaller
    <2> QED
        BY <1>2, <1>3, <1>5, <2>1, PageBooks
<1> QED
    BY <1>6, <1>7

\* put_page takes the page out of both the map and the hands of its holder.
LEMMA MemoryInvPutPage ==
    ASSUME MemoryInv, NEW idx \in page_held, PutPage(idx)
    PROVE  MemoryInv'
<1>1. /\ phase = "running" /\ phase' = "running"
      /\ memory_map' = memory_map \ {idx} /\ free_pages' = free_pages + 1
      /\ page_refs' = Returned(page_refs, {idx})
      /\ UNCHANGED <<memory_size, total_pages, start_page, kernel_bits, page_tables,
                     kernel_refs, kernel_held>>
    BY SameHands DEF PutPage
<1>2. Books /\ OneCaller
    BY <1>1 DEF MemoryInv, Boots
<1>9. OneCaller' /\ page_held' = page_held \ {idx}
    <2>1. page_refs \in [Pages -> 0 .. 1] /\ {idx} \in SUBSET Held(page_refs)
        BY <1>2 DEF OneCaller, page_held
    <2>2. /\ Returned(page_refs, {idx}) \in [Pages -> 0 .. 1]
          /\ Held(Returned(page_refs, {idx})) = Held(page_refs) \ {idx}
        BY <2>1, ReturnedOnce
    <2>3. page_held' = Held(page_refs')
        BY DEF page_held, Held
    <2> QED
        BY <1>1, <1>2, <2>2, <2>3 DEF OneCaller, page_held
<1>3. /\ start_page \in Nat /\ total_pages \in Nat
      /\ IsFiniteSet(page_held) /\ Cardinality(page_held) \in Nat
    BY <1>2, BooksBounds
<1>4. /\ memory_map = (0 .. KPAGES - 1) \cup page_held
      /\ page_held \subseteq KPAGES .. total_pages - 1
      /\ free_pages \in Nat
      /\ free_pages = total_pages - start_page - Cardinality(page_held)
    BY <1>2 DEF Books
<1>5. Cardinality(page_held') = Cardinality(page_held) - 1
    BY <1>3, <1>9, FS_RemoveElement
<1>6. memory_map' = (0 .. KPAGES - 1) \cup page_held'
    BY <1>1, <1>4, <1>9, MemoryConstants
<1>7. page_held' \subseteq KPAGES .. total_pages - 1
    BY <1>4, <1>9
<1>8. /\ free_pages' \in Nat
      /\ free_pages' = total_pages - start_page - Cardinality(page_held')
    BY <1>1, <1>3, <1>4, <1>5
<1> QED
    BY <1>1, <1>2, <1>6, <1>7, <1>8, <1>9, PageBooks

\* Other runs of kernel pages that agree with kernel_map, bit by bit, leave the
\* rest of the books as they are.
LEMMA KernelBooks ==
    ASSUME Books, phase' \in {"running", "halted"}, OneCaller',
           UNCHANGED <<memory_size, total_pages, free_pages, start_page, memory_map,
                       page_tables, page_held>>,
           kernel_held' \subseteq start_page .. BASE + MapBytes * BYTE - 1,
           kernel_bits' \subseteq Int,
           \A i \in Int : i \in kernel_bits' <=>
                BASE + i \in kernel_held' \/ i \in 0 .. MapPages - 1
    PROVE  MemoryInv'
<1>1. MapPages' = MapPages
    BY DEF MapPages
<1>2. MapPages \in Nat /\ start_page = BASE + MapPages /\ BASE \in Nat
      /\ MapBytes * BYTE \in Nat
    BY BooksBounds, MemoryConstants DEF BYTE
<1>3. kernel_bits' = {p - BASE : p \in kernel_held' \cup (BASE .. start_page - 1)}
    <2>1. ASSUME NEW i \in kernel_bits'
          PROVE  \E p \in kernel_held' \cup (BASE .. start_page - 1) : i = p - BASE
        <3>1. i \in Int /\ i = (BASE + i) - BASE
            BY <1>2
        <3>2. BASE + i \in kernel_held' \cup (BASE .. start_page - 1)
            BY <1>2, <3>1
        <3> QED
            BY <3>1, <3>2
    <2>2. ASSUME NEW p \in kernel_held' \cup (BASE .. start_page - 1)
          PROVE  p - BASE \in kernel_bits'
        <3>1. p \in Int /\ p - BASE \in Int /\ BASE + (p - BASE) = p
            BY <1>2
        <3>2. p \in kernel_held' \/ p - BASE \in 0 .. MapPages - 1
            BY <1>2
        <3> QED
            BY <3>1, <3>2
    <2> QED
        BY <2>1, <2>2
<1>4. Books'
    BY <1>1, <1>3 DEF Books
<1> QED
    BY <1>4 DEF MemoryInv, Boots

\* alloc_kpage takes a run of pages nobody holds, none of them reserved, or
\* stops with the books as they are.
LEMMA MemoryInvAllocKpage ==
    ASSUME MemoryInv, NEW count \in 1 .. MaxCount, AllocKpage(count)
    PROVE  MemoryInv'
<1> DEFINE start == BitmapFind(kernel_bits, MapBytes, count)
           size  == MapBytes * BYTE
<1>1. /\ phase = "running"
      /\ UNCHANGED <<memory_size, total_pages, free_pages, start_page, memory_map,
                     page_tables, page_refs, page_held>>
    BY SameHands DEF AllocKpage
<1>2. Books /\ OneCaller
    BY <1>1 DEF MemoryInv, Boots
<1>3. /\ kernel_held \subseteq start_page .. BASE + size - 1
      /\ kernel_bits \subseteq Int /\ start_page = BASE + MapPages
      /\ MapPages \in 1 .. size
      /\ \A i \in Int : i \in kernel_bits <=>
            BASE + i \in kernel_held \/ i \in 0 .. MapPages - 1
    BY <1>2, BooksBounds, MemoryConstants DEF Books, BYTE
<1>4. BASE \in Nat /\ size \in Nat /\ count \in Nat \ {0} /\ MapBytes \in Nat
    BY MemoryConstants, MemoryAssumption DEF BYTE
<1>5. CASE start # EOF
    <2> DEFINE fits == {s \in BitRange(MapBytes) :
                            /\ s + count <= size
                            /\ (s .. s + count - 1) \cap kernel_bits = {}}
    <2>1. start = IF fits = {} THEN EOF ELSE Min(fits)
        <3>1. start = FirstFit(kernel_bits, MapBytes, count)
            BY <1>4, FindIsFirstFit
        <3> QED
            BY <3>1 DEF FirstFit
    <2>2. fits \in SUBSET Nat
        BY <1>4 DEF BitRange
    <2>3. /\ kernel_bits' = kernel_bits \cup (start .. start + count - 1)
          /\ kernel_refs' = Given(kernel_refs, BASE + start .. BASE + start + count - 1)
          /\ phase' = phase
        BY <1>5 DEF AllocKpage, BitmapMark
    <2> HIDE DEF start
    <2>4. start \in fits
        <3> HIDE DEF fits
        <3> QED
            BY <1>5, <2>1, <2>2, MinProperties
    <2>5. /\ start \in Nat /\ start + count <= size
          /\ \A i \in start .. start + count - 1 : i \notin kernel_bits
        BY <2>2, <2>4
    <2> HIDE DEF fits, size
    <2>6. \A i \in start .. start + count - 1 : i \in Int /\ ~(i \in 0 .. MapPages - 1)
        BY <1>3, <2>5
    <2>7. MapPages <= start
        <3>1. start \in start .. start + count - 1
            BY <1>4, <2>5
        <3> QED
            BY <1>3, <1>4, <2>5, <2>6, <3>1
    <2> DEFINE pages == BASE + start .. BASE + start + count - 1
    <2>11. pages \in SUBSET Pages
        <3>1. BASE + size <= KPAGES /\ PAGES32 >= KPAGES /\ PAGES32 \in Nat /\ KPAGES \in Nat
            BY MemoryConstants DEF size
        <3> QED
            BY <1>4, <2>5, <3>1 DEF Pages
    <2>12. \A p \in pages : p \notin Held(kernel_refs)
        <3> SUFFICES ASSUME NEW p \in pages, p \in kernel_held
                     PROVE  FALSE
            BY DEF kernel_held
        <3>1. p - BASE \in start .. start + count - 1 /\ p - BASE \in Int /\ BASE + (p - BASE) = p
            BY <1>4, <2>5
        <3>2. p - BASE \in kernel_bits
            BY <1>3, <3>1
        <3> QED
            BY <2>5, <3>1, <3>2
    <2> HIDE DEF pages
    <2>13. OneCaller' /\ kernel_held' = kernel_held \cup pages
        <3>1. kernel_refs \in [Pages -> 0 .. 1]
            BY <1>2 DEF OneCaller
        <3>2. /\ Given(kernel_refs, pages) \in [Pages -> 0 .. 1]
              /\ Held(Given(kernel_refs, pages)) = Held(kernel_refs) \cup pages
            BY <2>11, <2>12, <3>1, GivenOnce
        <3>3. kernel_held' = Held(kernel_refs')
            BY DEF kernel_held, Held
        <3>4. kernel_refs' = Given(kernel_refs, pages)
            BY <2>3 DEF pages
        <3> QED
            BY <1>1, <1>2, <3>2, <3>3, <3>4 DEF OneCaller, kernel_held
    <2>8. kernel_held' \subseteq start_page .. BASE + size - 1
        BY <1>3, <1>4, <2>5, <2>7, <2>13 DEF pages
    <2>9. kernel_bits' \subseteq Int
        BY <1>3, <1>4, <2>3, <2>5
    <2>10. ASSUME NEW i \in Int
           PROVE  i \in kernel_bits' <=> BASE + i \in kernel_held' \/ i \in 0 .. MapPages - 1
        <3>1. i \in start .. start + count - 1
                <=> BASE + i \in BASE + start .. BASE + start + count - 1
            BY <1>4, <2>5
        <3> QED
            BY <1>3, <2>3, <2>13, <3>1 DEF pages
    <2> QED
        BY <1>1, <1>2, <2>3, <2>8, <2>9, <2>10, <2>13, KernelBooks DEF size
<1>6. CASE start = EOF
    <2>1. /\ phase' = "halted" /\ OneCaller'
          /\ UNCHANGED <<kernel_bits, kernel_held>>
        BY <1>1, <1>2, <1>6, SameHands DEF AllocKpage, OneCaller
    <2> QED
        BY <1>1, <1>2, <1>3, <2>1, KernelBooks
<1> QED
    BY <1>5, <1>6

\* free_kpage clears the bits of the pages it takes back, reserved ones never.
LEMMA MemoryInvFreeKpage ==
    ASSUME MemoryInv, NEW vaddr \in kernel_held, NEW count \in 1 .. MaxCount,
           FreeKpage(vaddr, count)
    PROVE  MemoryInv'
<1>1. /\ phase = "running" /\ phase' = "running"
      /\ UNCHANGED <<memory_size, total_pages, free_pages, start_page, memory_map,
                     page_tables, page_refs, page_held>>
      /\ (vaddr .. vaddr + count - 1) \subseteq kernel_held
      /\ kernel_bits' = kernel_bits \ (vaddr - BASE .. vaddr - BASE + count - 1)
      /\ kernel_refs' = Returned(kernel_refs, vaddr .. vaddr + count - 1)
    BY SameHands DEF FreeKpage, BitmapClear
<1>2. Books /\ OneCaller
    BY <1>1 DEF MemoryInv, Boots
<1> DEFINE pages == vaddr .. vaddr + count - 1
<1>9. OneCaller' /\ kernel_held' = kernel_held \ pages
    <2> HIDE DEF pages
    <2>1. kernel_refs \in [Pages -> 0 .. 1] /\ pages \in SUBSET Held(kernel_refs)
        BY <1>1, <1>2 DEF OneCaller, kernel_held, pages
    <2>2. /\ Returned(kernel_refs, pages) \in [Pages -> 0 .. 1]
          /\ Held(Returned(kernel_refs, pages)) = Held(kernel_refs) \ pages
        BY <2>1, ReturnedOnce
    <2>3. kernel_held' = Held(kernel_refs')
        BY DEF kernel_held, Held
    <2>4. kernel_refs' = Returned(kernel_refs, pages)
        BY <1>1 DEF pages
    <2> QED
        BY <1>1, <1>2, <2>2, <2>3, <2>4 DEF OneCaller, kernel_held
<1>3. /\ kernel_held \subseteq start_page .. BASE + MapBytes * BYTE - 1
      /\ kernel_bits \subseteq Int /\ start_page = BASE + MapPages
      /\ MapPages \in Nat /\ MapBytes * BYTE \in Nat
      /\ \A i \in Int : i \in kernel_bits <=>
            BASE + i \in kernel_held \/ i \in 0 .. MapPages - 1
    BY <1>2, BooksBounds, MemoryConstants DEF Books, BYTE
<1>4. BASE \in Nat /\ count \in Nat \ {0}
    BY MemoryConstants, MemoryAssumption
<1>5. vaddr \in Nat /\ vaddr >= start_page
    BY <1>3, <1>4
<1>6. ASSUME NEW i \in Int
      PROVE  i \in kernel_bits' <=> BASE + i \in kernel_held' \/ i \in 0 .. MapPages - 1
    <2>1. i \in vaddr - BASE .. vaddr - BASE + count - 1
            <=> BASE + i \in vaddr .. vaddr + count - 1
        BY <1>4, <1>5
    <2>2. ~(i \in 0 .. MapPages - 1 /\ i \in vaddr - BASE .. vaddr - BASE + count - 1)
        BY <1>3, <1>4, <1>5
    <2> QED
        BY <1>1, <1>3, <1>9, <2>1, <2>2
<1>7. kernel_held' \subseteq start_page .. BASE + MapBytes * BYTE - 1
    BY <1>3, <1>9
<1>8. kernel_bits' \subseteq Int
    BY <1>1, <1>3
<1> QED
    BY <1>1, <1>2, <1>6, <1>7, <1>8, <1>9, KernelBooks

LEMMA MemoryInvStep == MemoryInv /\ [Next]_vars => MemoryInv'
<1> SUFFICES ASSUME MemoryInv, [Next]_vars
             PROVE  MemoryInv'
    OBVIOUS
<1>1. CASE UNCHANGED vars
    <2>1. UNCHANGED <<kernel_held, page_held>>
        BY <1>1, SameHands DEF vars
    <2>2. OneCaller'
        BY <1>1 DEF vars, OneCaller, MemoryInv
    <2> QED
        BY <1>1, <2>1, <2>2 DEF vars, MemoryInv, Boots, Books, NothingHeld, MapPages
<1>2. CASE \E ards \in ArdsTables : MemoryInit(ards)
    BY <1>2, MemoryInvMemoryInit
<1>9. CASE MemoryInitUnknown
    BY <1>9, MemoryInvMemoryInitUnknown
<1>3. CASE MemoryMapInit
    BY <1>3, MemoryInvMemoryMapInit
<1>4. CASE MappingInit
    BY <1>4, MemoryInvMappingInit
<1>5. CASE GetPage
    BY <1>5, MemoryInvGetPage
<1>6. CASE \E idx \in page_held : PutPage(idx)
    BY <1>6, MemoryInvPutPage
<1>7. CASE \E count \in 1 .. MaxCount : AllocKpage(count)
    BY <1>7, MemoryInvAllocKpage
<1>8. CASE \E vaddr \in kernel_held, count \in 1 .. MaxCount : FreeKpage(vaddr, count)
    BY <1>8, MemoryInvFreeKpage
<1> QED
    BY <1>1, <1>2, <1>3, <1>4, <1>5, <1>6, <1>7, <1>8, <1>9 DEF Next

\* The books agree with the boot steps and with every call.
THEOREM MemoryInvariant == Spec => []MemoryInv
BY MemoryInvInit, MemoryInvStep, PTL DEF Spec

\* Every count of pages and every map keeps its range, whatever memory map the
\* BIOS hands over and whatever is allocated and freed.
THEOREM MemoryTypeCorrect == Spec => []TypeOK
<1>1. MemoryInv => TypeOK
    <2> SUFFICES ASSUME MemoryInv
                 PROVE  TypeOK
        OBVIOUS
    <2>0. kernel_refs \in [Pages -> Nat] /\ page_refs \in [Pages -> Nat]
        BY DEF MemoryInv, OneCaller
    <2>1. CASE Books /\ phase \in {"running", "halted"}
        <3>1. BitRange(MapBytes) = 0 .. MapBytes * BYTE - 1 /\ MapBytes * BYTE \in Nat
            BY MemoryConstants DEF BitRange, BYTE
        <3>2. kernel_held \subseteq BASE .. KPAGES - 1
            <4>1. kernel_held \subseteq start_page .. BASE + MapBytes * BYTE - 1
                BY <2>1 DEF Books
            <4>2. /\ start_page \in Nat /\ start_page >= BASE
                  /\ BASE \in Nat /\ KPAGES \in Nat
                  /\ BASE + MapBytes * BYTE <= KPAGES
                BY <2>1, <3>1, BooksBounds, MemoryConstants
            <4> QED
                BY <3>1, <4>1, <4>2
        <3>3. memory_map \subseteq 0 .. total_pages - 1
            BY <2>1, BooksBounds, MemoryConstants DEF Books
        <3>4. memory_size \in 0 .. PAGES32 - 1
            BY <2>1, MemoryConstants DEF Books
        <3> QED
            BY <2>0, <2>1, <3>1, <3>2, <3>3, <3>4, BooksBounds, MemoryConstants DEF TypeOK, Books
    <2>2. CASE phase = "mapping_init"
        <3>1. /\ NothingHeld /\ memory_size \in KPAGES .. PAGES32 - 1
              /\ total_pages = memory_size + BASE /\ free_pages = total_pages - start_page
              /\ start_page = BASE + MapPages
              /\ memory_map = 0 .. start_page - 1 /\ kernel_bits = 0 .. MapPages - 1
              /\ page_tables = <<>>
            BY <2>2 DEF MemoryInv, Boots
        <3>2. MapPages \in 1 .. MapBytes * BYTE
            <4>1. total_pages \in KPAGES .. PAGES32 + BASE - 1
                BY <3>1, MemoryConstants
            <4> QED
                BY <4>1, MapPagesFit DEF MapPages
        <3>3. BitRange(MapBytes) = 0 .. MapBytes * BYTE - 1 /\ MapBytes * BYTE \in Nat
            BY MemoryConstants DEF BitRange, BYTE
        <3> QED
            BY <2>0, <2>2, <3>1, <3>2, <3>3, MemoryConstants DEF TypeOK, NothingHeld
    <2>3. CASE phase = "memory_map_init"
        <3>1. /\ NothingHeld /\ memory_size \in KPAGES .. PAGES32 - 1
              /\ total_pages = memory_size + BASE /\ free_pages = memory_size /\ start_page = 0
              /\ memory_map = {} /\ kernel_bits = {} /\ page_tables = <<>>
            BY <2>3 DEF MemoryInv, Boots
        <3> QED
            BY <2>0, <2>3, <3>1, MemoryConstants DEF TypeOK, NothingHeld
    <2>4. CASE phase = "memory_init" \/ (phase = "halted" /\ ~Books)
        <3>1. /\ NothingHeld /\ memory_size \in 0 .. PAGES32 - 1
              /\ total_pages \in Nat /\ free_pages \in Nat /\ start_page = 0
              /\ memory_map = {} /\ kernel_bits = {} /\ page_tables = <<>>
            BY <2>4 DEF MemoryInv, Boots
        <3> QED
            BY <2>0, <2>4, <3>1 DEF TypeOK, NothingHeld
    <2> QED
        BY <2>1, <2>2, <2>3, <2>4 DEF MemoryInv, Boots
<1> QED
    BY <1>1, MemoryInvariant, PTL

\* No page is given to two callers, by one allocator or by both, nor one of
\* memory_map's own: each takes only what its own book has free, and the kernel's
\* pages end where those of get_page begin, because mapping_init marks what it maps.
THEOREM NoPageInTwoHands == Spec => []NoPageTwice
<1>1. MemoryInv => NoPageTwice
    <2> SUFFICES ASSUME MemoryInv, NEW page \in Pages
                 PROVE  /\ kernel_refs[page] + page_refs[page] <= 1
                        /\ page < start_page => kernel_refs[page] + page_refs[page] = 0
        BY DEF NoPageTwice
    <2>1. /\ kernel_refs[page] \in 0 .. 1 /\ page_refs[page] \in 0 .. 1
          /\ kernel_refs[page] = 1 <=> page \in kernel_held
          /\ page_refs[page] = 1 <=> page \in page_held
        BY DEF MemoryInv, OneCaller, kernel_held, page_held, Held
    <2>2. CASE Books
        <3>1. MapBytes * BYTE \in Nat /\ BASE \in Nat /\ PAGES32 \in Nat
            BY MemoryConstants DEF BYTE
        <3>2. page \in Int
            BY <3>1 DEF Pages
        <3>3. ~(page \in kernel_held /\ page \in page_held)
            BY <2>2, <3>1, <3>2, BooksBounds, MemoryConstants DEF Books
        <3>4. page < start_page => page \notin kernel_held /\ page \notin page_held
            BY <2>2, <3>1, <3>2, BooksBounds, MemoryConstants DEF Books
        <3> QED
            BY <2>1, <3>3, <3>4
    <2>3. CASE NothingHeld
        BY <2>1, <2>3 DEF NothingHeld
    <2> QED
        BY <2>2, <2>3 DEF MemoryInv, Boots
<1> QED
    BY <1>1, MemoryInvariant, PTL

\* The bitmap of the kernel's pages marks what is held and what is reserved,
\* nothing else, after any sequence of allocations and partial frees.
THEOREM BitmapIsExact == Spec => []BitmapMatchesHolders
<1>1. MemoryInv => BitmapMatchesHolders
    BY DEF MemoryInv, Boots, Books, BitmapMatchesHolders
<1> QED
    BY <1>1, MemoryInvariant, PTL

\* alloc_kpage finds the first run that fits in every bitmap that allocations and
\* frees can leave, and stops only if there is none.
THEOREM AllocationIsFirstFit == Spec => []ScanIsFirstFit
<1>1. ScanIsFirstFit
    <2> SUFFICES ASSUME NEW count \in 1 .. MapBytes * BYTE
                 PROVE  BitmapFind(kernel_bits, MapBytes, count) =
                            FirstFit(kernel_bits, MapBytes, count)
        BY DEF ScanIsFirstFit
    <2>1. MapBytes \in Nat /\ count \in Nat \ {0}
        BY MemoryConstants DEF BYTE
    <2> QED
        BY <2>1, FindIsFirstFit
<1> QED
    BY <1>1, PTL

\* get_page's assert on free_pages cannot fail while there is a page to give.
THEOREM CountOfFreePagesSuffices == Spec => []FreePagesSuffice
<1>1. MemoryInv => FreePagesSuffice
    <2> SUFFICES ASSUME Books
                 PROVE  free_pages >= Cardinality(AvailablePages)
        BY DEF MemoryInv, Boots, FreePagesSuffice
    <2> DEFINE zone == start_page .. total_pages - 1
    <2>1. /\ start_page \in Nat /\ total_pages \in Nat /\ total_pages > KPAGES
          /\ start_page <= KPAGES /\ KPAGES \in Nat
          /\ IsFiniteSet(page_held) /\ Cardinality(page_held) \in Nat
        BY BooksBounds, MemoryConstants
    <2>2. /\ page_held \subseteq KPAGES .. total_pages - 1
          /\ memory_map = (0 .. KPAGES - 1) \cup page_held
          /\ free_pages = total_pages - start_page - Cardinality(page_held)
        BY DEF Books
    <2>3. IsFiniteSet(zone) /\ Cardinality(zone) = total_pages - start_page
        BY <2>1, FS_Interval
    <2>4. zone \cap page_held = page_held
        <3>1. \A i \in page_held : i \in zone
            BY <2>1, <2>2
        <3> QED
            BY <3>1, Zenon
    <2>5. AvailablePages \subseteq zone \ page_held
        BY <2>2 DEF AvailablePages
    <2> HIDE DEF zone
    <2>6. /\ IsFiniteSet(zone \ page_held)
          /\ Cardinality(zone \ page_held) = Cardinality(zone) - Cardinality(zone \cap page_held)
        BY <2>3, FS_Difference
    <2>7. /\ Cardinality(AvailablePages) <= Cardinality(zone \ page_held)
          /\ Cardinality(AvailablePages) \in Nat
        BY <2>5, <2>6, FS_Subset, FS_CardinalityType
    <2> QED
        BY <2>1, <2>2, <2>3, <2>4, <2>6, <2>7
<1> QED
    BY <1>1, MemoryInvariant, PTL

\* What put_page and bitmap_set assert of a page that its caller holds, or of a
\* run of which it holds every page.
AssertsHold ==
    phase = "running" =>
        /\ \A idx \in page_held :
                /\ idx >= start_page /\ idx < total_pages /\ idx \in memory_map
                /\ free_pages + 1 > 0 /\ free_pages + 1 < total_pages
        /\ \A page \in kernel_held : page - BASE \in kernel_bits

\* A caller that gives back what it was given never runs into an assert of
\* put_page or free_kpage, although free_pages counts too many from mapping_init on.
THEOREM GivingBackIsSafe == Spec => []AssertsHold
<1>1. MemoryInv => AssertsHold
    <2> SUFFICES ASSUME MemoryInv, phase = "running"
                 PROVE  /\ \A idx \in page_held :
                                /\ idx >= start_page /\ idx < total_pages /\ idx \in memory_map
                                /\ free_pages + 1 > 0 /\ free_pages + 1 < total_pages
                        /\ \A page \in kernel_held : page - BASE \in kernel_bits
        BY DEF AssertsHold
    <2>1. Books
        BY DEF MemoryInv, Boots
    <2>2. /\ start_page \in Nat /\ start_page > 3 /\ total_pages \in Nat
          /\ start_page <= KPAGES /\ KPAGES \in Nat
          /\ IsFiniteSet(page_held) /\ Cardinality(page_held) \in Nat
        BY <2>1, BooksBounds, MemoryConstants
    <2>3. /\ page_held \subseteq KPAGES .. total_pages - 1
          /\ memory_map = (0 .. KPAGES - 1) \cup page_held
          /\ free_pages \in Nat
          /\ free_pages = total_pages - start_page - Cardinality(page_held)
        BY <2>1 DEF Books
    <2>4. \A idx \in page_held :
             idx >= start_page /\ idx < total_pages /\ idx \in memory_map
        BY <2>2, <2>3
    <2>5. \A idx \in page_held : free_pages + 1 > 0 /\ free_pages + 1 < total_pages
        <3> SUFFICES ASSUME page_held # {}
                     PROVE  free_pages + 1 > 0 /\ free_pages + 1 < total_pages
            OBVIOUS
        <3>1. Cardinality(page_held) # 0
            BY <2>2, FS_EmptySet
        <3> QED
            BY <2>2, <2>3, <3>1
    <2>6. \A page \in kernel_held : page - BASE \in kernel_bits
        BY <2>1 DEF Books
    <2> QED
        BY <2>4, <2>5, <2>6
<1> QED
    BY <1>1, MemoryInvariant, PTL

-----------------------------------------------------------------------------
(* The kernel's page tables *)

\* An entry of the directory or of a table.
Entry(page, i) ==
    IF page \in DOMAIN KernelTables /\ i \in DOMAIN KernelTables[page]
    THEN KernelTables[page][i] ELSE NoPage

LEMMA TranslateByEntry ==
    ASSUME page_tables = KernelTables, NEW vaddr
    PROVE  Translate(vaddr) = Entry(Entry(KERNEL_PAGE_DIR, Didx(vaddr)), Tidx(vaddr))
BY DEF Translate, Entry

\* What mapping_init writes: the directory names the two tables and itself, and
\* they map every page but 0 to itself.
LEMMA Entries ==
    /\ DOMAIN KernelTables = {1, 2, 3}
    /\ \A i : Entry(1, i) = IF i = ENTRIES - 1 THEN 1
                            ELSE IF i \in {0, 1} THEN i + 2 ELSE NoPage
    /\ \A i : Entry(2, i) = IF i \in 1 .. ENTRIES - 1 THEN i ELSE NoPage
    /\ \A i : Entry(3, i) = IF i \in 0 .. ENTRIES - 1 THEN ENTRIES + i ELSE NoPage
    /\ \A i : Entry(NoPage, i) = NoPage
<1>0. ENTRIES \in Nat /\ ENTRIES > 2
    BY MemoryConstants
<1>1. /\ KERNEL_PAGE_TABLE[1] = 2 /\ KERNEL_PAGE_TABLE[2] = 3
      /\ Range(KERNEL_PAGE_TABLE) = {2, 3} /\ KERNEL_PAGE_DIR = 1
    BY DEF KERNEL_PAGE_TABLE, KERNEL_PAGE_DIR, Range
<1>2. DOMAIN KernelTables = {1, 2, 3}
    BY <1>1 DEF KernelTables
<1>3. KernelTables[1] = [didx \in {0, 1, ENTRIES - 1} |->
                            IF didx = ENTRIES - 1 THEN 1 ELSE KERNEL_PAGE_TABLE[didx + 1]]
    BY <1>1 DEF KernelTables
<1>4. KernelTables[2] = MapTable(0)
    <2>1. (CHOOSE didx \in 0 .. 1 : KERNEL_PAGE_TABLE[didx + 1] = 2) = 0
        BY <1>1
    <2> QED
        BY <1>1, <2>1 DEF KernelTables
<1>5. KernelTables[3] = MapTable(1)
    <2>1. (CHOOSE didx \in 0 .. 1 : KERNEL_PAGE_TABLE[didx + 1] = 3) = 1
        BY <1>1
    <2> QED
        BY <1>1, <2>1 DEF KernelTables
<1>6. ASSUME NEW i
      PROVE  Entry(1, i) = IF i = ENTRIES - 1 THEN 1
                           ELSE IF i \in {0, 1} THEN i + 2 ELSE NoPage
    BY <1>0, <1>1, <1>2, <1>3 DEF Entry
<1>7. ASSUME NEW i
      PROVE  Entry(2, i) = IF i \in 1 .. ENTRIES - 1 THEN i ELSE NoPage
    BY <1>0, <1>2, <1>4 DEF Entry, MapTable
<1>8. ASSUME NEW i
      PROVE  Entry(3, i) = IF i \in 0 .. ENTRIES - 1 THEN ENTRIES + i ELSE NoPage
    BY <1>0, <1>2, <1>5 DEF Entry, MapTable
<1>9. ASSUME NEW i
      PROVE  Entry(NoPage, i) = NoPage
    BY <1>2 DEF Entry, NoPage
<1> QED
    BY <1>2, <1>6, <1>7, <1>8, <1>9

\* Where the first two tables hold the entry of a page of the kernel.
LEMMA KernelIndices ==
    ASSUME NEW page \in 0 .. KPAGES - 1
    PROVE  \/ page < ENTRIES /\ Didx(page) = 0 /\ Tidx(page) = page
           \/ page >= ENTRIES /\ Didx(page) = 1 /\ Tidx(page) = page - ENTRIES
<1>0. ENTRIES \in Nat \ {0} /\ KPAGES = 2 * ENTRIES
    BY MemoryConstants
<1>1. CASE page < ENTRIES
    <2>1. page \in 0 .. ENTRIES - 1 /\ 0 * ENTRIES + page = page
        BY <1>0, <1>1
    <2>2. (0 * ENTRIES + page) \div ENTRIES = 0 /\ (0 * ENTRIES + page) % ENTRIES = page
        BY <1>0, <2>1, DivMod
    <2> QED
        BY <1>1, <2>1, <2>2 DEF Didx, Tidx
<1>2. CASE page >= ENTRIES
    <2> DEFINE rest == page - ENTRIES
    <2>1. rest \in 0 .. ENTRIES - 1 /\ 1 * ENTRIES + rest = page
        BY <1>0, <1>2
    <2> HIDE DEF rest
    <2>2. (1 * ENTRIES + rest) \div ENTRIES = 1 /\ (1 * ENTRIES + rest) % ENTRIES = rest
        BY <1>0, <2>1, DivMod
    <2> QED
        BY <1>2, <2>1, <2>2 DEF Didx, Tidx, rest
<1> QED
    BY <1>0, <1>1, <1>2

\* The last table of the address space is the directory itself.
LEMMA LastTable ==
    ASSUME page_tables = KernelTables, NEW d \in 0 .. ENTRIES - 1
    PROVE  Translate((PAGES32 - ENTRIES) + d) = Entry(KERNEL_PAGE_DIR, d)
<1> DEFINE v == (PAGES32 - ENTRIES) + d
           q == ENTRIES - 1
<1>1. ENTRIES \in Nat \ {0} /\ q \in Nat
    BY MemoryConstants
<1>2. v = q * ENTRIES + d
    BY <1>1 DEF PAGES32
<1> HIDE DEF v, q
<1>3. v \div ENTRIES = q /\ v % ENTRIES = d
    BY <1>1, <1>2, DivMod
<1>4. Entry(KERNEL_PAGE_DIR, q) = KERNEL_PAGE_DIR
    BY Entries DEF q, KERNEL_PAGE_DIR
<1>5. Translate(v) = Entry(KERNEL_PAGE_DIR, d)
    BY <1>3, <1>4, TranslateByEntry DEF Didx, Tidx
<1> QED
    BY <1>5 DEF v

\* Once paging is on, the kernel reaches memory_map and the pages of alloc_kpage
\* at their own address, no page of get_page and not page 0, and get_pde and
\* get_pte find the directory and its tables, which neither allocator hands out.
THEOREM KernelReachesItsPages == Spec => []KernelPagesMapped
<1>1. MemoryInv => KernelPagesMapped
    <2> SUFFICES ASSUME Books
                 PROVE  KernelPagesMapped
        BY DEF MemoryInv, Boots, KernelPagesMapped
    <2>1. page_tables = KernelTables
        BY DEF Books
    <2>2. /\ ENTRIES \in Nat /\ ENTRIES > 2 /\ KPAGES = 2 * ENTRIES
          /\ BASE \in Nat /\ BASE > 3 /\ MapBytes * BYTE \in Nat
          /\ BASE + MapBytes * BYTE <= KPAGES
          /\ start_page \in Nat /\ start_page <= KPAGES /\ start_page > BASE
          /\ kernel_held \subseteq start_page .. BASE + MapBytes * BYTE - 1
          /\ page_held \subseteq KPAGES .. total_pages - 1
          /\ total_pages \in Nat
        BY BooksBounds, MemoryConstants DEF Books, BYTE
    <2>3. KERNEL_PAGE_DIR = 1 /\ NoPage = -1
        BY DEF KERNEL_PAGE_DIR, NoPage
    <2>4. ASSUME NEW page \in 0 .. KPAGES - 1
          PROVE  Translate(page) = IF page = 0 THEN NoPage ELSE page
        <3>1. Translate(page) = Entry(Entry(1, Didx(page)), Tidx(page))
            BY <2>1, <2>3, TranslateByEntry
        <3>2. CASE page < ENTRIES /\ Didx(page) = 0 /\ Tidx(page) = page
            <4>1. Entry(1, 0) = 2
                BY <2>2, Entries
            <4>2. Entry(2, page) = IF page = 0 THEN NoPage ELSE page
                BY <2>2, <3>2, Entries
            <4> QED
                BY <3>1, <3>2, <4>1, <4>2
        <3>3. CASE page >= ENTRIES /\ Didx(page) = 1 /\ Tidx(page) = page - ENTRIES
            <4>1. Entry(1, 1) = 3
                BY <2>2, Entries
            <4>2. Entry(3, page - ENTRIES) = page
                BY <2>2, <3>3, Entries
            <4> QED
                BY <2>2, <3>1, <3>3, <4>1, <4>2
        <3> QED
            BY <3>2, <3>3, KernelIndices
    <2>5. \A page \in kernel_held \cup (BASE .. start_page - 1) : Translate(page) = page
        <3>1. \A page \in kernel_held \cup (BASE .. start_page - 1) :
                page \in 0 .. KPAGES - 1 /\ page # 0
            BY <2>2
        <3> QED
            BY <2>4, <3>1
    <2>6. ASSUME NEW vaddr
          PROVE  Translate(vaddr) \in {NoPage} \cup 0 .. KPAGES - 1
        <3>1. Translate(vaddr) = Entry(Entry(1, Didx(vaddr)), Tidx(vaddr))
            BY <2>1, <2>3, TranslateByEntry
        <3>2. Entry(1, Didx(vaddr)) \in {NoPage, 1, 2, 3}
            BY Entries
        <3>3. \A i : /\ Entry(1, i) \in {NoPage} \cup 0 .. KPAGES - 1
                     /\ Entry(2, i) \in {NoPage} \cup 0 .. KPAGES - 1
                     /\ Entry(3, i) \in {NoPage} \cup 0 .. KPAGES - 1
                     /\ Entry(NoPage, i) \in {NoPage} \cup 0 .. KPAGES - 1
            BY <2>2, Entries
        <3> QED
            BY <3>1, <3>2, <3>3
    <2>7. \A page \in page_held, vaddr \in 0 .. PAGES32 - 1 : Translate(vaddr) # page
        <3>1. \A page \in page_held : page \notin {NoPage} \cup 0 .. KPAGES - 1
            BY <2>2, <2>3
        <3> QED
            BY <2>6, <3>1
    <2>8. Translate(0) = NoPage
        BY <2>2, <2>4
    <2>9. (kernel_held \cup page_held) \cap DOMAIN page_tables = {}
        <3>1. \A page \in kernel_held \cup page_held : page > 3
            BY <2>2
        <3>2. DOMAIN page_tables = {1, 2, 3}
            BY <2>1, Entries
        <3> QED
            BY <3>1, <3>2
    <2>10. Translate(GetPde) = KERNEL_PAGE_DIR
        <3>1. ENTRIES - 1 \in 0 .. ENTRIES - 1
            BY <2>2
        <3>2. GetPde = (PAGES32 - ENTRIES) + (ENTRIES - 1)
            BY <2>2, MemoryConstants DEF GetPde
        <3>3. Translate(GetPde) = Entry(KERNEL_PAGE_DIR, ENTRIES - 1)
            BY <2>1, <3>1, <3>2, LastTable
        <3> QED
            BY <2>3, <3>3, Entries
    <2>11. ASSUME NEW vaddr \in 0 .. KPAGES - 1
           PROVE  Translate(GetPte(vaddr)) = page_tables[KERNEL_PAGE_DIR][Didx(vaddr)]
        <3>1. Didx(vaddr) \in {0, 1} /\ Didx(vaddr) \in 0 .. ENTRIES - 1
            BY <2>2, KernelIndices
        <3>2. Translate(GetPte(vaddr)) = Entry(KERNEL_PAGE_DIR, Didx(vaddr))
            BY <2>1, <3>1, LastTable DEF GetPte
        <3>3. Entry(1, Didx(vaddr)) = Didx(vaddr) + 2
            BY <2>2, <3>1, Entries
        <3>4. Entry(1, Didx(vaddr)) # NoPage
            BY <2>3, <3>1, <3>3
        <3> QED
            BY <2>1, <2>3, <3>2, <3>4 DEF Entry
    <2> QED
        BY <2>5, <2>7, <2>8, <2>9, <2>10, <2>11 DEF KernelPagesMapped
<1> QED
    BY <1>1, MemoryInvariant, PTL

=============================================================================
