-------------------------------- MODULE Memmap --------------------------------
(***************************************************************************)
(* kernel_code/mm_init.c: memmap_init gives every page of the memory map   *)
(* its zone and node, range by range and zone by zone, and marks the pages *)
(* in the holes between the ranges reserved.  Of the callers only this one *)
(* is in the repository, so the context is MEMINIT_EARLY throughout.       *)
(* The names Map... and Part... keep clear of RmQueue's: KernelProofs      *)
(* extends both modules.                                                   *)
(***************************************************************************)
EXTENDS Integers, FiniteSets, FiniteSetsExt

CONSTANTS
  Pfns,               \* the page frames that may be memory
  NodeStarts,         \* where node 1 may start
  MovableStarts,      \* where ZONE_MOVABLE may start, but for mirrored memory
  PAGES_PER_SECTION,
  pageblock_nr_pages

ASSUME PagesAssumption ==
  /\ pageblock_nr_pages \in Nat \ {0} /\ PAGES_PER_SECTION \in Nat \ {0}
  /\ PAGES_PER_SECTION % pageblock_nr_pages = 0
  /\ Pfns \subseteq Nat /\ IsFiniteSet(Pfns)
  /\ NodeStarts \subseteq Nat /\ MovableStarts \subseteq Nat

VARIABLES
  machine,                \* the memory found at boot, which nobody changes
  pc,                     \* the loop that is running
  start_pfn,              \* the range
  zone_id,                \* the zone, or MAX_NR_ZONES after the last one
  pfn,                    \* the page frame of the inner loop
  hole_pfn,               \* where the hole starts that is not yet initialised
  r,                      \* the static region of overlap_memmap_init
  page,                   \* the memory map
  movable_blocks,         \* pageblocks set to MIGRATE_MOVABLE
  highest_memmap_pfn,
  deferred_struct_pages

loops == <<pc, start_pfn, zone_id, pfn, hole_pfn>>
map_vars == <<machine, loops, r, page, movable_blocks, highest_memmap_pfn,
              deferred_struct_pages>>

NULL == -1
ZONE_NORMAL == 0
ZONE_MOVABLE == 1
MAX_NR_ZONES == 2

round_down(p, n) == p - (p % n)
round_up(p, n) == round_down(p + n - 1, n)
clamp(p, low, high) == IF p < low THEN low ELSE IF p > high THEN high ELSE p
pageblock_start_pfn(p) == round_down(p, pageblock_nr_pages)
pageblock_end_pfn(p) == pageblock_start_pfn(p) + pageblock_nr_pages

EndPfn == round_up(Max(Pfns) + 1, PAGES_PER_SECTION)
PFN == 0 .. EndPfn - 1

-----------------------------------------------------------------------------
(* The machine: memblock, the spans of the zones and defer_init are not in *)
(* the repository.                                                         *)

Machine ==
  { m \in [memory : (SUBSET Pfns) \ {{}}, mirror : SUBSET Pfns,
           mirrored_kernelcore : BOOLEAN, movable_pfn : MovableStarts,
           node_pfn : NodeStarts, deferred_pfn : PFN \cup {EndPfn}] :
      /\ m.mirror \subseteq m.memory
      /\ IF m.mirrored_kernelcore THEN m.movable_pfn = Min(MovableStarts)
                                  ELSE m.mirror = {}
      /\ \/ m.deferred_pfn = EndPfn
         \/ m.deferred_pfn \in m.memory /\ m.deferred_pfn % PAGES_PER_SECTION = 0 }

zone_to_nid(p) == IF p < machine.node_pfn THEN 0 ELSE 1
NodeMemory(nid) == {p \in machine.memory : zone_to_nid(p) = nid}
memblock_is_mirror(p) == p \in machine.mirror

\* A region ends with the memory, with the node, or where mirroring changes.
Continues(p) == /\ p - 1 \in machine.memory
                /\ zone_to_nid(p - 1) = zone_to_nid(p)
                /\ memblock_is_mirror(p - 1) <=> memblock_is_mirror(p)
Regions == {p \in machine.memory : ~ Continues(p)}
RegionEnd(s) == Min({p \in s + 1 .. EndPfn : p \notin machine.memory \/ p \in Regions})

\* ZONE_MOVABLE starts at the node's first page that is not mirrored, and
\* ZONE_NORMAL then spans it too; or there is a border between the two.
Movable(p) == IF machine.mirrored_kernelcore THEN ~ memblock_is_mirror(p)
                                             ELSE p >= machine.movable_pfn
ZoneMemory(nid, z) == {p \in NodeMemory(nid) : Movable(p) <=> z = ZONE_MOVABLE}
populated_zone(nid, z) == ZoneMemory(nid, z) # {}
zone_start_pfn(nid, z) ==
  IF z = ZONE_NORMAL THEN Min(NodeMemory(nid)) ELSE Min(ZoneMemory(nid, z))
zone_end_pfn(nid, z) ==
  IF z = ZONE_NORMAL /\ ~ machine.mirrored_kernelcore
  THEN Min({machine.movable_pfn, Max(NodeMemory(nid)) + 1})
  ELSE Max(NodeMemory(nid)) + 1

\* Late memory of the node's last zone is left to be initialised later.
defer_init(nid, p, zone_end) ==
  p >= machine.deferred_pfn /\ zone_end = Max(NodeMemory(nid)) + 1

-----------------------------------------------------------------------------

UNTOUCHED == [nid |-> NULL, zone |-> NULL, reserved |-> FALSE]

MapInit ==
  /\ machine \in Machine
  /\ pc = "zones"
  /\ start_pfn = Min(Regions)
  /\ zone_id = 0
  /\ pfn = 0
  /\ hole_pfn = 0
  /\ r = NULL
  /\ page = [p \in PFN |-> UNTOUCHED]
  /\ movable_blocks = {}
  /\ highest_memmap_pfn = 0
  /\ deferred_struct_pages = FALSE

Nid == zone_to_nid(start_pfn)

\* The part of the range that is in the zone, [PartStart, PartEnd).
InZone(p) == clamp(p, zone_start_pfn(Nid, zone_id), zone_end_pfn(Nid, zone_id))
PartStart == InZone(start_pfn)
PartEnd == InZone(RegionEnd(start_pfn))
ZoneHasRange == populated_zone(Nid, zone_id) /\ PartStart < PartEnd

SkipZone ==
  /\ pc = "zones" /\ zone_id < MAX_NR_ZONES
  /\ ~ ZoneHasRange
  /\ zone_id' = zone_id + 1
  /\ UNCHANGED <<machine, pc, start_pfn, pfn, hole_pfn, r, page, movable_blocks,
                 highest_memmap_pfn, deferred_struct_pages>>

EnterZone ==
  /\ pc = "zones" /\ zone_id < MAX_NR_ZONES
  /\ ZoneHasRange
  /\ pc' = "pages"
  /\ pfn' = PartStart
  /\ highest_memmap_pfn' = Max({highest_memmap_pfn, PartEnd - 1})
  /\ UNCHANGED <<machine, start_pfn, zone_id, hole_pfn, r, page, movable_blocks,
                 deferred_struct_pages>>

\* The region that overlap_memmap_init looks at.  A mutant keeps the first
\* one.
MutRegionOf(p) == IF r = NULL THEN Min({s \in Regions : p < RegionEnd(s)}) ELSE r
RegionOf(p) == IF r = NULL \/ p >= RegionEnd(r)
               THEN Min({s \in Regions : p < RegionEnd(s)}) ELSE r

InPages ==
  /\ pc = "pages" /\ pfn < PartEnd
  /\ r' = IF machine.mirrored_kernelcore /\ zone_id = ZONE_MOVABLE
          THEN RegionOf(pfn) ELSE r
  /\ UNCHANGED <<machine, start_pfn, zone_id, hole_pfn, highest_memmap_pfn>>

Overlapped == /\ machine.mirrored_kernelcore /\ zone_id = ZONE_MOVABLE
              /\ pfn >= RegionOf(pfn) /\ memblock_is_mirror(RegionOf(pfn))

\* Where the loop goes on after a mirrored page; a mutant jumps to the
\* beginning of the region.
MutPastRegion == RegionOf(pfn)
PastRegion == RegionEnd(RegionOf(pfn))

SkipMirrored ==
  /\ InPages
  /\ Overlapped
  /\ pfn' = PastRegion
  /\ UNCHANGED <<pc, page, movable_blocks, deferred_struct_pages>>

Deferred == defer_init(Nid, pfn, zone_end_pfn(Nid, zone_id))

Defer ==
  /\ InPages
  /\ ~ Overlapped /\ Deferred
  /\ deferred_struct_pages' = TRUE
  /\ pc' = "hole"
  /\ pfn' = hole_pfn
  /\ UNCHANGED <<page, movable_blocks>>

Links(nid, z, reserved) == [nid |-> nid, zone |-> z, reserved |-> reserved]

InitPage ==
  /\ InPages
  /\ ~ Overlapped /\ ~ Deferred
  /\ page' = [page EXCEPT ![pfn] = Links(Nid, zone_id, FALSE)]
  /\ movable_blocks' = movable_blocks \cup
                         ({pfn} \cap {pageblock_start_pfn(pfn)})
  /\ pfn' = pfn + 1
  /\ UNCHANGED <<pc, deferred_struct_pages>>

PagesDone ==
  /\ pc = "pages" /\ ~ pfn < PartEnd
  /\ pc' = "hole"
  /\ pfn' = hole_pfn
  /\ UNCHANGED <<machine, start_pfn, zone_id, hole_pfn, r, page, movable_blocks,
                 highest_memmap_pfn, deferred_struct_pages>>

\* init_unavailable_range, for the hole below the range and for the one above
\* the last range.
LastZone == Max({z \in 0 .. MAX_NR_ZONES - 1 : populated_zone(Nid, z)})
HoleZone == IF pc = "hole" THEN zone_id ELSE LastZone
HoleEnd == IF pc = "hole" THEN PartStart
           ELSE round_up(RegionEnd(start_pfn), PAGES_PER_SECTION)

InHole ==
  /\ pc \in {"hole", "trailing"} /\ pfn < HoleEnd
  /\ UNCHANGED <<machine, pc, start_pfn, zone_id, hole_pfn, r, movable_blocks,
                 highest_memmap_pfn, deferred_struct_pages>>

\* A section without memory has no memory map (external).
pfn_valid(p) == \E q \in machine.memory :
                  q \div PAGES_PER_SECTION = p \div PAGES_PER_SECTION
BlockValid(p) == pfn_valid(pageblock_start_pfn(p))

\* The page after an invalid pageblock; a mutant skips one more.
MutPastBlock == pageblock_end_pfn(pfn) + 1
PastBlock == pageblock_end_pfn(pfn)

SkipBlock ==
  /\ InHole
  /\ ~ BlockValid(pfn)
  /\ pfn' = PastBlock
  /\ UNCHANGED page

ReservePage ==
  /\ InHole
  /\ BlockValid(pfn)
  /\ page' = [page EXCEPT ![pfn] = Links(Nid, HoleZone, TRUE)]
  /\ pfn' = pfn + 1

HoleDone ==
  /\ pc = "hole" /\ ~ pfn < HoleEnd
  /\ pc' = "zones"
  /\ hole_pfn' = PartEnd
  /\ zone_id' = zone_id + 1
  /\ UNCHANGED <<machine, start_pfn, pfn, r, page, movable_blocks,
                 highest_memmap_pfn, deferred_struct_pages>>

Later == {s \in Regions : s > start_pfn}

NextRange ==
  /\ pc = "zones" /\ zone_id = MAX_NR_ZONES
  /\ IF Later # {}
     THEN /\ start_pfn' = Min(Later)
          /\ zone_id' = 0
          /\ UNCHANGED <<pc, pfn>>
     ELSE /\ pc' = "trailing"
          /\ pfn' = hole_pfn
          /\ UNCHANGED <<start_pfn, zone_id>>
  /\ UNCHANGED <<machine, hole_pfn, r, page, movable_blocks, highest_memmap_pfn,
                 deferred_struct_pages>>

Done ==
  /\ pc = "trailing" /\ ~ pfn < HoleEnd
  /\ pc' = "done"
  /\ UNCHANGED <<machine, start_pfn, zone_id, pfn, hole_pfn, r, page,
                 movable_blocks, highest_memmap_pfn, deferred_struct_pages>>

MapNext ==
  \/ SkipZone \/ EnterZone \/ SkipMirrored \/ Defer \/ InitPage \/ PagesDone
  \/ SkipBlock \/ ReservePage \/ HoleDone \/ NextRange \/ Done

\* One thread, which never waits for anything.
MapSpec == MapInit /\ [][MapNext]_map_vars /\ WF_map_vars(MapNext)

-----------------------------------------------------------------------------
(* Properties.                                                             *)

\* The zone that the pages of a hole below page p are given.
HoleOwner(p) ==
  IF machine.mirrored_kernelcore /\ populated_zone(zone_to_nid(p), ZONE_NORMAL)
  THEN ZONE_NORMAL
  ELSE IF Movable(p) THEN ZONE_MOVABLE ELSE ZONE_NORMAL

\* The links a page is to have: memory is linked to the zone it is counted in
\* (kernel_code/mm_init.c:1, 27-30); a page in a hole is reserved and goes to the
\* zone and node above it, or below it at the end (:41-48).  Memory itself is
\* marked reserved for hotplug only (:131), whatever the comment before
\* memmap_init_range says: see AllReserved.
MemoryLinks(p) ==
  LET nid == zone_to_nid(p)
      zone == IF Movable(p) THEN ZONE_MOVABLE ELSE ZONE_NORMAL
  IN  IF defer_init(nid, p, zone_end_pfn(nid, zone)) THEN UNTOUCHED
      ELSE Links(nid, zone, FALSE)
HoleLinks(p) ==
  LET above == {q \in machine.memory : q > p}
      last == zone_to_nid(Max(machine.memory))
  IN  IF ~ BlockValid(p) THEN UNTOUCHED
      ELSE IF above # {}
           THEN Links(zone_to_nid(Min(above)), HoleOwner(Min(above)), TRUE)
           ELSE Links(last, IF populated_zone(last, ZONE_MOVABLE)
                            THEN ZONE_MOVABLE ELSE ZONE_NORMAL, TRUE)

\* At the end every page of the map, however ranges, zones, nodes, mirrored
\* memory and deferral cut it up, has the links that are meant for it; the
\* blocks that start with such a page are movable; and deferral is on record
\* exactly if a page was left out.
MapInitialised ==
  pc = "done" =>
    /\ \A p \in PFN : page[p] = IF p \in machine.memory THEN MemoryLinks(p)
                                                        ELSE HoleLinks(p)
    /\ movable_blocks = {p \in machine.memory :
                           pageblock_start_pfn(p) = p /\ page[p] # UNTOUCHED}
    /\ highest_memmap_pfn = Max(machine.memory)
    /\ deferred_struct_pages <=> \E p \in machine.memory : page[p] = UNTOUCHED

\* A step that initialises page p, with new links or with the old ones again.
Written(p) == p = pfn /\ (InitPage \/ ReservePage)

\* A page is initialised once, "single-pass" (kernel_code/mm_init.c:77), though
\* zones overlap, the hole is carried from call to call in hole_pfn and the
\* region in a static variable: only a page that is not mirrored is done a
\* second time, and moves from ZONE_NORMAL to ZONE_MOVABLE of its node.
GivenOnce ==
  [][ \A p \in PFN :
        page[p] # UNTOUCHED /\ Written(p) =>
          /\ machine.mirrored_kernelcore /\ p \in machine.memory \ machine.mirror
          /\ page[p] = Links(zone_to_nid(p), ZONE_NORMAL, FALSE)
          /\ page'[p] = Links(zone_to_nid(p), ZONE_MOVABLE, FALSE) ]_map_vars

\* "Initially all pages are reserved - free ones are freed up by
\* memblock_free_all() once the early boot process is done"
\* (kernel_code/mm_init.c:75-77): when memmap_init is done every page that was
\* initialised is reserved.  It is not: the context is MEMINIT_EARLY, and
\* PG_reserved is set for MEMINIT_HOTPLUG only (:131).
AllReserved ==
  pc = "done" => \A p \in PFN : page[p] # UNTOUCHED => page[p].reserved

\* The initialisation ends, though two of its loops set their own counters.
Ends == <>(pc = "done")
=============================================================================
