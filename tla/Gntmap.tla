------------------------------- MODULE Gntmap -------------------------------
(***************************************************************************)
(* Mapping other domains' pages: gntmap.c, and allocate_ondemand of        *)
(* arch/x86/mm.c, which finds room in the demand map area.  An address is  *)
(* a page number of that area, counted from 1; 0 is "unused".  Hypercalls  *)
(* may fail.                                                               *)
(***************************************************************************)
EXTENDS Integers, FiniteSets

CONSTANTS DEMAND_MAP_PAGES, DEFAULT_MAX_GRANTS, MapCounts, MapAligns

VARIABLES host_addr,     \* map->entries[i].host_addr; empty before gntmap_set_max_grants
          present,       \* pages of the area that the hypervisor maps
          gm_held,       \* pages that callers have been given and not unmapped
          unmap_failed   \* some unmapping has failed

gmpvars == <<host_addr, present, gm_held, unmap_failed>>

GMInit == host_addr = <<>> /\ present = {} /\ gm_held = {} /\ unmap_failed = FALSE

-----------------------------------------------------------------------------
\* The pages of a run that can be used from x on, up to the first taken one.
FreeRun(x, n) == {y \in 0 .. n : \A z \in 0 .. y - 1 : x + z + 1 \notin present}
RunLength(x, n) == CHOOSE y \in FreeRun(x, n) : \A z \in FreeRun(x, n) : z <= y

\* allocate_ondemand's loop, for n <= DEMAND_MAP_PAGES; past a taken page, on
\* to the next aligned one.
NextStart(x, n, align) == (((x + RunLength(x, n) + align) \div align) * align)

allocate_ondemand(n, align) ==
  LET limit == DEMAND_MAP_PAGES - n
      scan[x \in 0 .. DEMAND_MAP_PAGES + align] ==
        IF x > limit THEN 0 ELSE IF RunLength(x, n) = n THEN x + 1 ELSE scan[NextStart(x, n, align)]
  IN  scan[0]

-----------------------------------------------------------------------------
\* gntmap_set_max_grants does nothing once there are entries.
gntmap_set_max_grants(entries, count) ==
  IF entries # <<>> THEN entries ELSE [i \in 1 .. count |-> 0]

gntmap_find_entry(entries, addr) ==
  {i \in DOMAIN entries : entries[i] = addr /\ \A j \in 1 .. i - 1 : entries[j] # addr}

\* The first k pages from addr enter the first k free entries.
Filled(entries, addr, k) ==
  LET fill[n \in 0 .. k] ==
        IF n = 0 THEN entries
        ELSE [i \in DOMAIN entries |-> IF i \in gntmap_find_entry(fill[n - 1], 0) THEN addr + n - 1 ELSE fill[n - 1][i]]
  IN  fill[k]

Unused(entries) == Cardinality({i \in DOMAIN entries : entries[i] = 0})
Cleared(entries, pages) == [i \in DOMAIN entries |-> IF entries[i] \in pages THEN 0 ELSE entries[i]]
Pages(addr, n) == addr .. addr + n - 1

\* gntmap_map_grant_refs: k pages are mapped, and if that is not all, the
\* k are unmapped again, u of them before a hypercall fails.
Unwound_Short(addr, k, u) == Pages(addr, IF u = k /\ k > 0 THEN k - 1 ELSE u)
Unwound(addr, k, u) == Pages(addr, u)

gntmap_map_grant_refs(count, k, u) ==
  LET entries == gntmap_set_max_grants(host_addr, DEFAULT_MAX_GRANTS)
      addr == allocate_ondemand(count, 1)
  IN  /\ k <= Unused(entries) /\ u <= k
      /\ IF addr = 0
         THEN host_addr' = entries /\ UNCHANGED <<present, gm_held, unmap_failed>>
         ELSE IF k = count
         THEN /\ host_addr' = Filled(entries, addr, count)
              /\ present' = present \cup Pages(addr, count) /\ gm_held' = gm_held \cup Pages(addr, count)
              /\ UNCHANGED unmap_failed
         ELSE /\ host_addr' = Cleared(Filled(entries, addr, k), Unwound(addr, k, u))
              /\ present' = (present \cup Pages(addr, k)) \ Unwound(addr, k, u)
              /\ unmap_failed' = (unmap_failed \/ u < k) /\ UNCHANGED gm_held

\* gntmap_munmap: pages one by one, up to an unknown one or a failure.
gntmap_munmap(addr, count, u) ==
  /\ u <= count /\ \A p \in Pages(addr, u) : gntmap_find_entry(host_addr, p) # {}
  /\ host_addr' = Cleared(host_addr, Pages(addr, u))
  /\ present' = present \ Pages(addr, u) /\ gm_held' = gm_held \ Pages(addr, u)
  /\ unmap_failed' = (unmap_failed \/ (u < count /\ gntmap_find_entry(host_addr, addr + u) # {}))

\* gntmap_fini unmaps what it can and forgets the entries.
gntmap_fini(failing) ==
  /\ failing \subseteq present
  /\ present' = {p \in present : p \in failing \/ gntmap_find_entry(host_addr, p) = {}}
  /\ host_addr' = <<>> /\ gm_held' = {} /\ unmap_failed' = (unmap_failed \/ failing # {})

GMNext ==
  \/ \E count \in MapCounts : \E k \in 0 .. count, u \in 0 .. count : gntmap_map_grant_refs(count, k, u)
  \/ \E addr \in gm_held : \E count \in MapCounts : \E u \in 0 .. count : gntmap_munmap(addr, count, u)
  \/ \E failing \in SUBSET present : gntmap_fini(failing)

-----------------------------------------------------------------------------
(* No mapping is leaked or double: while no unmapping has failed, the      *)
(* entries, the hypervisor's mappings and the pages that callers hold are  *)
(* the same, one entry a page; a half-done gntmap_map_grant_refs leaves    *)
(* nothing behind.  And once pages are taken allocate_ondemand finds room  *)
(* whenever there is an aligned run of free ones: the lowest.              *)
MappingsAccounted ==
  /\ ~unmap_failed =>
       /\ present = gm_held
       /\ \A p \in present : Cardinality({i \in DOMAIN host_addr : host_addr[i] = p}) = 1
       /\ \A i \in DOMAIN host_addr : host_addr[i] # 0 => host_addr[i] \in present
  /\ present # {} => \A n \in MapCounts, align \in MapAligns :
       LET runs == {x \in 0 .. DEMAND_MAP_PAGES - n : x % align = 0 /\ RunLength(x, n) = n}
           got == allocate_ondemand(n, align)
       IN  IF runs = {} THEN got = 0 ELSE got - 1 \in runs /\ \A x \in runs : got - 1 <= x
=============================================================================
