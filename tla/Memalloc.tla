------------------------------ MODULE Memalloc ------------------------------
(***************************************************************************)
(* The memory of a guest and everyone who takes it: the buckets of         *)
(* libbmk_core/memalloc.c above the page allocator, the rump kernel's      *)
(* rumpuser_malloc() and the application's malloc() family and mmap().     *)
(* There is one CPU and no preemption inside an allocator, so a call is    *)
(* one step.  Callers are legal: they free what they hold, once, with the  *)
(* length they asked for.                                                  *)
(***************************************************************************)
EXTENDS Pgalloc

CONSTANTS
  MemMin, MemMax,  \* the range given to bmk_pgalloc_loadmem()
  Sizes, Aligns,   \* the requests: lengths in bytes, alignments
  WrapSizes,       \* lengths that wrap with the header added
  Whos,            \* whose small requests are told apart
  WiredSizes,      \* the lengths that bmk itself asks for
  Counts,          \* the counts given to calloc()
  MapPages,        \* the lengths of mappings in pages
  WordBits,        \* the width of an unsigned long
  MaxLive          \* bound: how many allocations are held at a time

VARIABLES
  pg,           \* the page allocator
  freebuckets,  \* the free blocks of each size
  nmalloc,      \* mallocs minus frees for each size
  mh,           \* the memalloc_hdr in front of a pointer, while it is there
  mmc_list,     \* the mmapchunks, newest first
  live,         \* what callers hold: [p, n, align, who]
  halted        \* bmk_platform_halt() was called

mvars == <<pg, freebuckets, nmalloc, mh, mmc_list, live, halted>>

MINSHIFT == 5
MINALIGN == 16
HdrSize == 8
LOCALBUCKETS == PAGE_SHIFT - MINSHIFT
Buckets == 0 .. LOCALBUCKETS - 1
USER == "user"
RUMPKERN == "rumpkern"
WIREDBMK == "wiredbmk"
PAGES == "pages"   \* straight from the page allocator
MMAP == "mmap"

RoundUp(x, align) == ((x + align - 1) \div align) * align
PowerOf2(x) == \E k \in 0 .. FREELIST_LEVELS + PAGE_SHIFT : 2^k = x

\* The heap as the operations pass it on.
Heap == [pg |-> pg, freebuckets |-> freebuckets, nmalloc |-> nmalloc, mh |-> mh]

MemInit ==
  /\ pg = NoMemory
  /\ freebuckets = [b \in Buckets |-> <<>>]
  /\ nmalloc = [b \in Buckets |-> 0]
  /\ mh = <<>>
  /\ mmc_list = <<>>
  /\ live = {}
  /\ halted = FALSE

-----------------------------------------------------------------------------
(* memalloc.c                                                              *)

\* The closest block size that satisfies the request.
BucketOf(allocbytes) ==
  IF allocbytes < 2^MINSHIFT THEN 0
  ELSE LET v == Min({b \in 0 .. FREELIST_LEVELS + PAGE_SHIFT : 2^(b + MINSHIFT) > allocbytes})
       IN  IF PowerOf2(allocbytes) THEN v - 1 ELSE v

\* A page becomes blocks: one is returned, the others go on the list.
Split(h, bucket, sz, got) ==
  [h |-> [h EXCEPT !.pg = got.pg,
                   !.freebuckets[bucket] =
                      [i \in 1 .. PAGE_SIZE \div sz - 1 |-> got.addr + PAGE_SIZE - i * sz] \o @],
   addr |-> got.addr]

OrNull(h, got, done) == IF got.addr = NullAddr THEN [h |-> h, addr |-> NullAddr] ELSE done

morecore(h, bucket, got) == OrNull(h, got, Split(h, bucket, 2^(bucket + MINSHIFT), got))

Malloced(got, bucket) ==
  IF got.addr = NullAddr THEN got ELSE [got EXCEPT !.h.nmalloc[bucket] = @ + 1]

bucketalloc(h, bucket) ==
  Malloced(IF h.freebuckets[bucket] = <<>>
          THEN morecore(h, bucket, bmk_pgalloc(h.pg, 0))
          ELSE [h |-> [h EXCEPT !.freebuckets[bucket] = Tail(@)],
                addr |-> Head(h.freebuckets[bucket])],
          bucket)

\* need at least this many bytes plus header to satisfy alignment
AllocBytes(nbytes, align) == (nbytes + RoundUp(HdrSize, align)) % 2^WordBits

\* handle with page allocator?
PageBlock(h, got) == [h |-> [h EXCEPT !.pg = got.pg], addr |-> got.addr]

Block(h, bucket) ==
  IF bucket >= LOCALBUCKETS THEN PageBlock(h, bmk_pgalloc(h.pg, bucket + MINSHIFT - PAGE_SHIFT))
                            ELSE bucketalloc(h, bucket)

\* align op before returned memory
PutHdr(got, rv, bucket, who) ==
  [h |-> [got.h EXCEPT !.mh =
            (rv :> [mh_index |-> bucket, mh_alignpad |-> rv - got.addr, mh_who |-> who]) @@ @],
   addr |-> rv]

Allocated(h, got, align, bucket, who) ==
  OrNull(h, got, PutHdr(got, RoundUp(got.addr + HdrSize, align), bucket, who))

MemallocAligned(h, bucket, align, who) == Allocated(h, Block(h, bucket), align, bucket, who)

bmk_memalloc(h, nbytes, align, who) ==
  IF align # 0 /\ ~PowerOf2(align) THEN [h |-> h, addr |-> NullAddr]
  ELSE MemallocAligned(h, BucketOf(AllocBytes(nbytes, Max({align, MINALIGN}))),
                       Max({align, MINALIGN}), who)

\* The caller is a legal one: the magic and who are right.
GiveBack(h, hdr, origp) ==
  IF hdr.mh_index >= LOCALBUCKETS
  THEN [h EXCEPT !.pg = bmk_pgfree(@, origp, hdr.mh_index + MINSHIFT - PAGE_SHIFT)]
  ELSE [h EXCEPT !.freebuckets[hdr.mh_index] = <<origp>> \o @,
                 !.nmalloc[hdr.mh_index] = @ - 1]

bmk_memfree(h, cp) ==
  GiveBack([h EXCEPT !.mh = Restrict(@, DOMAIN @ \ {cp})], h.mh[cp], cp - h.mh[cp].mh_alignpad)

\* The bytes from cp to the end of its block.
Capacity(h, cp) == 2^(h.mh[cp].mh_index + MINSHIFT) - h.mh[cp].mh_alignpad

-----------------------------------------------------------------------------
(* The callers                                                             *)

SetHeap(h) ==
  /\ pg' = h.pg /\ freebuckets' = h.freebuckets
  /\ nmalloc' = h.nmalloc /\ mh' = h.mh

\* The caller holds p from now on, if it got it.
Hold(p, n, align, who) ==
  live' = IF p = NullAddr THEN live
          ELSE live \cup {[p |-> p, n |-> n, align |-> align, who |-> who]}

\* malloc(), posix_memalign(), and rumpuser_malloc() below a page.
memalloc(n, align, who) ==
  /\ ~halted
  /\ Cardinality(live) < MaxLive
  /\ \E got \in {bmk_memalloc(Heap, n, align, who)} :
       SetHeap(got.h) /\ Hold(got.addr, n, Max({align, MINALIGN}), who)
  /\ UNCHANGED <<mmc_list, halted>>

bmk_xmalloc_bmk(n) ==
  /\ ~halted
  /\ Cardinality(live) < MaxLive
  /\ \E got \in {bmk_memalloc(Heap, n, 0, WIREDBMK)} :
       /\ SetHeap(got.h) /\ Hold(got.addr, n, MINALIGN, WIREDBMK)
       /\ halted' = (got.addr = NullAddr)
  /\ UNCHANGED mmc_list

\* n * size is computed in WordBits bits.
bmk_memcalloc(n, size) ==
  LET tot == (n * size) % 2^WordBits
  IN  /\ ~halted
      /\ Cardinality(live) < MaxLive
      /\ size = 0 \/ tot \div size = n
      /\ \E got \in {bmk_memalloc(Heap, tot, MINALIGN, USER)} :
           SetHeap(got.h) /\ Hold(got.addr, n * size, MINALIGN, USER)
      /\ UNCHANGED <<mmc_list, halted>>

\* free(), and rumpuser_free() below a page.
memfree(a) ==
  /\ ~halted
  /\ a.who \in {USER, RUMPKERN, WIREDBMK}
  /\ SetHeap(bmk_memfree(Heap, a.p))
  /\ live' = live \ {a}
  /\ UNCHANGED <<mmc_list, halted>>

\* The block is big enough, or a bigger one takes the contents.
bmk_memrealloc_user(a, n) ==
  /\ ~halted
  /\ a.who = USER /\ n # 0
  /\ \/ /\ Capacity(Heap, a.p) >= n
        /\ live' = (live \ {a}) \cup {[a EXCEPT !.n = n]}
        /\ UNCHANGED <<pg, freebuckets, nmalloc, mh>>
     \/ /\ Capacity(Heap, a.p) < n
        /\ \E np \in {bmk_memalloc(Heap, n, 8, USER)} :
             /\ np.addr # NullAddr
             /\ SetHeap(bmk_memfree(np.h, a.p))
             /\ live' = (live \ {a}) \cup {[a EXCEPT !.n = n, !.p = np.addr, !.align = MINALIGN]}
  /\ UNCHANGED <<mmc_list, halted>>

len2order(len) ==
  LET v == Min({k \in 0 .. FREELIST_LEVELS + PAGE_SHIFT : 2^k > len})
  IN  (IF PowerOf2(len) THEN v - 1 ELSE v) - PAGE_SHIFT

\* rumpuser_malloc() of a page or more.
rumpuser_malloc(len, alignment) ==
  /\ ~halted
  /\ Cardinality(live) < MaxLive
  /\ len >= PAGE_SIZE
  /\ \E align \in {Max({alignment, PAGE_SIZE})} :
       \E got \in {bmk_pgalloc_align(pg, len2order(len), align)} :
         pg' = got.pg /\ Hold(got.addr, len, align, PAGES)
  /\ UNCHANGED <<freebuckets, nmalloc, mh, mmc_list, halted>>

rumpuser_free(a) ==
  /\ ~halted
  /\ a.who = PAGES
  /\ pg' = bmk_pgfree(pg, a.p, len2order(a.n))
  /\ live' = live \ {a}
  /\ UNCHANGED <<freebuckets, nmalloc, mh, mmc_list, halted>>

-----------------------------------------------------------------------------
(* mmap() and munmap(): librumpkern_mman.  A mapping is held page by page. *)

PagesFrom(p, n) == {p + i * PAGE_SIZE : i \in 0 .. n - 1}

\* rump_hypermalloc() waits until there is memory.  A mapping of a file may
\* then find a bad descriptor, and returns, or fail to read it, and gives the
\* memory back.
Mapped(p, npgs) ==
  {[p |-> q, n |-> PAGE_SIZE, align |-> PAGE_SIZE, who |-> MMAP] : q \in PagesFrom(p, npgs)}

sys_mmap(npgs, outcome) ==
  /\ ~halted
  /\ Cardinality(live) + npgs <= MaxLive
  /\ \E got \in {bmk_pgalloc_align(pg, len2order(npgs * PAGE_SIZE), PAGE_SIZE)} :
       /\ got.addr # NullAddr
       /\ \/ /\ outcome = "readerror"
             /\ pg' = bmk_pgfree(got.pg, got.addr, len2order(npgs * PAGE_SIZE))
             /\ UNCHANGED <<mmc_list, live>>
          \/ /\ outcome \in {"mapped", "badfile"}
             /\ pg' = got.pg
             /\ mmc_list' = <<[mm_start |-> got.addr, mm_size |-> npgs * PAGE_SIZE,
                              mm_pgsleft |-> npgs]>> \o mmc_list
             /\ live' = live \cup (IF outcome = "mapped" THEN Mapped(got.addr, npgs) ELSE {})
  /\ UNCHANGED <<freebuckets, nmalloc, mh, halted>>

\* The chunk gives up npgs pages, and its memory with the last of them.
mmapmem_free(i, npgs) ==
  LET mc == mmc_list[i]
  IN  IF mc.mm_pgsleft > npgs
      THEN /\ mmc_list' = [mmc_list EXCEPT ![i].mm_pgsleft = @ - npgs]
           /\ UNCHANGED pg
      ELSE /\ mmc_list' = SelectSeq(mmc_list, LAMBDA c : c # mc)
           /\ pg' = bmk_assert(bmk_pgfree(pg, mc.mm_start, len2order(mc.mm_size)),
                               npgs <= mc.mm_pgsleft)

\* The first chunk that covers the range.
Covering(p, npgs) ==
  {i \in DOMAIN mmc_list : /\ mmc_list[i].mm_start <= p
                           /\ mmc_list[i].mm_start + mmc_list[i].mm_size >= p + npgs * PAGE_SIZE}

sys_munmap(p, npgs) ==
  /\ ~halted
  /\ Mapped(p, npgs) \subseteq live
  /\ Covering(p, npgs) # {}
  /\ mmapmem_free(Min(Covering(p, npgs)), npgs)
  /\ live' = live \ Mapped(p, npgs)
  /\ UNCHANGED <<freebuckets, nmalloc, mh, halted>>

\* The platform's memory is loaded once, before anything is allocated.
loadmem ==
  /\ pg = NoMemory
  /\ pg' = bmk_pgalloc_loadmem(MemMin, MemMax)
  /\ UNCHANGED <<freebuckets, nmalloc, mh, mmc_list, live, halted>>

MemUse ==
  \/ \E n \in Sizes \cup WrapSizes, align \in Aligns, who \in Whos : memalloc(n, align, who)
  \/ \E n \in WiredSizes : bmk_xmalloc_bmk(n)
  \/ \E n \in Counts, size \in Sizes : bmk_memcalloc(n, size)
  \/ \E a \in live : memfree(a)
  \/ \E a \in live, n \in Sizes : bmk_memrealloc_user(a, n)
  \/ \E n \in Sizes, align \in Aligns : rumpuser_malloc(n, align)
  \/ \E a \in live : rumpuser_free(a)
  \/ \E n \in MapPages, outcome \in {"mapped", "badfile", "readerror"} : sys_mmap(n, outcome)
  \/ \E a \in live, n \in 1 .. Max(MapPages) : sys_munmap(a.p, n)

MemNext == loadmem \/ (pg # NoMemory /\ MemUse)

MemSpec == MemInit /\ [][MemNext]_mvars

-----------------------------------------------------------------------------
(* Properties                                                              *)

ManagedPages == {pg.minpage_addr + i * PAGE_SIZE :
                   i \in 0 .. (pg.maxpage_addr - pg.minpage_addr) \div PAGE_SIZE - 1}
PagesIn(p, order) == PagesFrom(p, 2^order)
FreePages == UNION {PagesIn(ch, pg.chunk[ch]) : ch \in DOMAIN pg.chunk}

\* Every managed page is in one free chunk or is marked allocated, never both;
\* the headers of free chunks agree with the lists they are on; pgalloc_usedkb
\* is what is marked; and neither an assertion of the allocator nor the bounds
\* of its bitmap have been broken.
PagesPartitioned ==
  /\ ~pg.fault
  /\ \A o \in Levels :
       /\ IsInjective(pg.freelist[o])
       /\ Range(pg.freelist[o]) = {ch \in DOMAIN pg.chunk : pg.chunk[ch] = o}
  /\ \A c, d \in DOMAIN pg.chunk :
       c # d => PagesIn(c, pg.chunk[c]) \cap PagesIn(d, pg.chunk[d]) = {}
  /\ FreePages \subseteq ManagedPages
  /\ \A p \in ManagedPages : allocated_in_map(pg, p) <=> p \notin FreePages
  /\ pg.usedpages = Cardinality(ManagedPages \ FreePages)

\* What the memory is used for: regions from p, n bytes long.
FreeBlocks ==
  UNION {{<<"block", p, 2^(b + MINSHIFT)>> : p \in Range(freebuckets[b])} : b \in Buckets}
FreeChunks == {<<"chunk", ch, order2size(pg.chunk[ch])>> : ch \in DOMAIN pg.chunk}
\* It has a header in front of it.
Headed(a) == a.who \in {USER, RUMPKERN, WIREDBMK}
\* The length and the header are more than an unsigned long holds.
Wraps(a) == a.n + RoundUp(HdrSize, a.align) >= 2^WordBits
Length(a) == IF Wraps(a) THEN Capacity(Heap, a.p) ELSE a.n
Held == {IF Headed(a) THEN <<"held", a.p - HdrSize, Length(a) + HdrSize>>
                           ELSE <<"held", a.p, a.n>> : a \in live}
Regions == FreeBlocks \cup FreeChunks \cup Held

\* What callers hold, with the headers in front of it, overlaps nothing else
\* that is held and nothing that may be handed out; it has the alignment they
\* asked for; and every small block is counted in nmalloc.  A request whose
\* length wraps is out of it: its caller has the block it was given and no
\* more, see RequestsCovered.
NoOverlap ==
  /\ \A r, s \in Regions : r # s => r[2] + r[3] <= s[2] \/ s[2] + s[3] <= r[2]
  /\ \A r \in Regions : pg.minpage_addr <= r[2] /\ r[2] + r[3] <= pg.maxpage_addr
  /\ \A b \in Buckets :
       /\ IsInjective(freebuckets[b])
       /\ nmalloc[b] = Cardinality({p \in DOMAIN mh : mh[p].mh_index = b})
  /\ \A a \in live :
       /\ a.p % a.align = 0
       /\ Headed(a) => a.p \in DOMAIN mh /\ (Wraps(a) \/ a.n <= Capacity(Heap, a.p))

\* An allocation of pages fails only if no free run of pages has the size and
\* the alignment: free neighbours have always been merged.
AllocComplete ==
  \A order \in 0 .. 2, align \in {PAGE_SIZE, 2 * PAGE_SIZE, 4 * PAGE_SIZE} :
    (\E p \in ManagedPages : /\ p % Max({order2size(order), align}) = 0
                             /\ PagesIn(p, order) \subseteq FreePages)
    => bmk_pgalloc_align(pg, order, align).addr # NullAddr

\* A block has the length that was asked for, whatever that is: the comment on
\* allocbytes in bmk_memalloc().
RequestsCovered == \A a \in live : Headed(a) => a.n <= Capacity(Heap, a.p)

\* Together: pages and blocks are used once, and free pages can be had.
AllocatorsSound == PagesPartitioned /\ NoOverlap /\ AllocComplete
=============================================================================
