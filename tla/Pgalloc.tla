------------------------------ MODULE Pgalloc ------------------------------
(***************************************************************************)
(* The page allocator of libbmk_core/pgalloc.c.  Its static variables are  *)
(* one record pg; an operation takes the record and returns the new one.   *)
(* Addresses are byte numbers, 0 is NULL.  A free chunk's header, which    *)
(* the code writes into the chunk's first page, is pg.chunk[address], the  *)
(* level; an address outside DOMAIN pg.chunk does not hold CHUNKMAGIC.     *)
(***************************************************************************)
EXTENDS Integers, Sequences, FiniteSetsExt, Functions, TLC

CONSTANTS
  PAGE_SHIFT,         \* BMK_PCPU_PAGE_SHIFT
  PAGES_PER_MAPWORD,  \* the bits of an unsigned long
  FREELIST_LEVELS     \* the number of free lists

ASSUME PgallocAssumption ==
  /\ PAGE_SHIFT \in Nat /\ FREELIST_LEVELS \in Nat \ {0}
  /\ PAGES_PER_MAPWORD \in Nat \ {0}

NullAddr == 0
PAGE_SIZE == 2^PAGE_SHIFT
Levels == 0 .. FREELIST_LEVELS - 1

bmk_round_page(p) == ((p + PAGE_SIZE - 1) \div PAGE_SIZE) * PAGE_SIZE
bmk_trunc_page(p) == (p \div PAGE_SIZE) * PAGE_SIZE
order2size(order) == 2^(order + PAGE_SHIFT)

\* bmk_assert: a failure halts the program.
bmk_assert(pg, ok) == [pg EXCEPT !.fault = @ \/ ~ok]

-----------------------------------------------------------------------------
(* The allocation bitmap: alloc_bitmap[i] is the set of bits of word i     *)
(* that are set, one for each allocated page.                              *)

va_to_pg(pg, addr) == (addr - pg.minpage_addr) \div PAGE_SIZE

addr_is_managed(pg, addr) == addr >= pg.minpage_addr /\ addr < pg.maxpage_addr

allocated_in_map(pg, addr) ==
  LET pagenum == va_to_pg(pg, addr)
  IN  pagenum % PAGES_PER_MAPWORD \in pg.alloc_bitmap[pagenum \div PAGES_PER_MAPWORD]

\* The words that map_alloc() and map_free() write, and the bits they set or
\* clear in each: PAGES_TO_MAPOPVARS and the two masks.
MapBits(pg, virt, nr_pages) ==
  LET first_page == va_to_pg(pg, virt)
      curr_idx == first_page \div PAGES_PER_MAPWORD
      start == first_page % PAGES_PER_MAPWORD
      end_idx == (first_page + nr_pages) \div PAGES_PER_MAPWORD
      end == (first_page + nr_pages) % PAGES_PER_MAPWORD
  IN  [i \in curr_idx .. end_idx |->
         (IF i = curr_idx THEN start ELSE 0) ..
         (IF i = end_idx THEN end ELSE PAGES_PER_MAPWORD) - 1]

\* map_alloc() sets the bits, map_free() clears them.
MapSet(pg, bits) ==
  [bmk_assert(pg, DOMAIN bits \subseteq DOMAIN pg.alloc_bitmap) EXCEPT
     !.alloc_bitmap = [i \in DOMAIN @ |-> IF i \in DOMAIN bits THEN @[i] \cup bits[i] ELSE @[i]]]

MapClear(pg, bits) ==
  [bmk_assert(pg, DOMAIN bits \subseteq DOMAIN pg.alloc_bitmap) EXCEPT
     !.alloc_bitmap = [i \in DOMAIN @ |-> IF i \in DOMAIN bits THEN @[i] \ bits[i] ELSE @[i]]]

map_alloc(pg, virt, nr_pages) == MapSet(pg, MapBits(pg, virt, nr_pages))
map_free(pg, virt, nr_pages) == MapClear(pg, MapBits(pg, virt, nr_pages))

-----------------------------------------------------------------------------
(* Chunks and free lists                                                   *)

freechunk_link(pg, addr, order) ==
  [pg EXCEPT !.chunk = (addr :> order) @@ @,
             !.freelist[order] = <<addr>> \o @]

\* LIST_REMOVE of a chunk, and magic = 0.
UnlinkChunk(pg, addr, order) ==
  [bmk_assert(pg, addr \in DOMAIN pg.chunk) EXCEPT
     !.chunk = Restrict(@, DOMAIN @ \ {addr}),
     !.freelist[order] = SelectSeq(@, LAMBDA ch : ch # addr)]

\* The next chunk of a range is limited by the alignment of its address, and
\* must not be bigger than the range.
ChunkOrder(addr, range) ==
  Max({o \in Levels : addr % order2size(o) = 0 /\ order2size(o) <= range})

RECURSIVE carverange(_, _, _)
carverange(pg, addr, range) ==
  IF range = 0 THEN pg
  ELSE LET i == ChunkOrder(addr, range)
       IN  carverange(freechunk_link(pg, addr, i),
                      addr + order2size(i), range - order2size(i))

\* The bitmap takes the start of the range; all is allocated at first.
AllAllocated(lo, hi, bitmap_size) ==
  [minpage_addr |-> lo + bitmap_size,
   maxpage_addr |-> hi,
   alloc_bitmap |-> [i \in 0 .. (8 * bitmap_size) \div PAGES_PER_MAPWORD - 1 |->
                       0 .. PAGES_PER_MAPWORD - 1],
   freelist |-> [o \in Levels |-> <<>>],
   chunk |-> <<>>,
   usedpages |-> 0,
   fault |-> hi < lo]

\* Before any memory has been loaded.
NoMemory == AllAllocated(0, 0, 0)

FreeRange(pg, range) ==
  carverange(map_free(pg, pg.minpage_addr, range \div PAGE_SIZE), pg.minpage_addr, range)

bmk_pgalloc_loadmem(min, max) ==
  LET lo == bmk_round_page(min)
      hi == bmk_trunc_page(max)
      bitmap_size == bmk_round_page((hi - lo) \div (8 * PAGE_SIZE) + 1)
  IN  FreeRange(AllAllocated(lo, hi, bitmap_size), hi - lo - bitmap_size)

\* The first chunk on list i with the alignment.
satisfies_p(pg, i, align) ==
  LET fits == SelectSeq(pg.freelist[i], LAMBDA ch : ch % align = 0)
  IN  IF fits = <<>> THEN NullAddr ELSE Head(fits)

\* The chunk comes off its list, what is left of it is carved up.
TakeChunk(pg, alloc_ch, bucket, order) ==
  [map_alloc(carverange(UnlinkChunk(pg, alloc_ch, bucket),
                        alloc_ch + order2size(order),
                        order2size(bucket) - order2size(order)),
             alloc_ch, 2^order)
     EXCEPT !.usedpages = @ + 2^order]

FromBucket(pg, bucket, order, align) ==
  [pg |-> TakeChunk(pg, satisfies_p(pg, bucket, align), bucket, order),
   addr |-> satisfies_p(pg, bucket, align)]

\* The new record and the address, NullAddr if no chunk will do.
bmk_pgalloc_align(pg, order, align) ==
  LET buckets == {b \in Levels : b >= order /\ satisfies_p(pg, b, align) # NullAddr}
  IN  IF buckets = {} THEN [pg |-> pg, addr |-> NullAddr]
                      ELSE FromBucket(pg, Min(buckets), order, align)

bmk_pgalloc(pg, order) == bmk_pgalloc_align(pg, order, PAGE_SIZE)

\* Variant: only single pages are merged.
Merges_OrderZero(pg, ch, order) ==
  /\ order = 0
  /\ addr_is_managed(pg, ch)
  /\ ~allocated_in_map(pg, ch)
  /\ ch \in DOMAIN pg.chunk => pg.chunk[ch] = order

\* May a free chunk of this order be merged with its buddy ch?
Merges(pg, ch, order) ==
  /\ addr_is_managed(pg, ch)
  /\ ~allocated_in_map(pg, ch)
  /\ ch \in DOMAIN pg.chunk => pg.chunk[ch] = order

\* The buddy: the predecessor or the successor of the chunk.
Buddy(ch, order) ==
  IF (ch \div order2size(order)) % 2 = 1 THEN ch - order2size(order)
                                         ELSE ch + order2size(order)

\* create as large a free chunk as we can
RECURSIVE Coalesce(_, _, _)
Coalesce(pg, freed_ch, order) ==
  LET to_merge_ch == Buddy(freed_ch, order)
  IN  IF order \in Levels /\ Merges(pg, to_merge_ch, order)
      THEN Coalesce(UnlinkChunk(pg, to_merge_ch, order),
                    Min({freed_ch, to_merge_ch}), order + 1)
      ELSE freechunk_link(pg, freed_ch, order)

bmk_pgfree(pg, pointer, order) ==
  Coalesce([map_free(pg, pointer, 2^order) EXCEPT !.usedpages = @ - 2^order],
           pointer, order)

=============================================================================
