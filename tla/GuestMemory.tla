----------------------------- MODULE GuestMemory -----------------------------
(***************************************************************************)
(* The guest's address space: MemoryManager (pe-runner/src/memory.mjs) and *)
(* the VirtualAlloc family on top of it (pe-runner/src/memory-api.mjs).    *)
(*                                                                         *)
(* Addresses count in units smaller than a page, PageSize of them a page,  *)
(* so that a range may start and end inside one.  A protection is the set  *)
(* of accesses it grants, with "G" for PAGE_GUARD.  Page contents are left *)
(* out.                                                                    *)
(***************************************************************************)
EXTENDS Integers, SequencesExt

CONSTANTS PageSize,     \* units in a page
          Granularity,  \* units between two allocations without a hint
          Top,          \* end of the modelled address space
          VaBase,       \* where allocations without a hint start
          Mapped,       \* the regions the harness maps before the guest runs
          Bases,        \* the addresses the guest passes to the VirtualAlloc family
          Prots,        \* the protections it passes
          Sizes,        \* the sizes it passes
          Pointers,     \* where it wants VirtualProtect's old protection, 0 for nowhere
          Strict,       \* opts.strictMemory
          MaxRegions    \* bound on the region table

Address == 0..(Top - 1)

RegionType == [base : 0..Top, size : 0..Top, protect : SUBSET {"R", "W", "X", "G"},
               state : {"commit", "reserve"}]
Region(b, s, p, st) == [base |-> b, size |-> s, protect |-> p, state |-> st]
End(r) == r.base + r.size

ASSUME MemoryAssumption ==
    /\ PageSize \in Nat \ {0}
    /\ Granularity \in Nat \ {0} /\ Granularity % PageSize = 0
    /\ Top \in Nat /\ VaBase \in Address
    /\ Mapped \in Seq(RegionType) /\ \A k \in DOMAIN Mapped : End(Mapped[k]) <= Top
    /\ Bases \subseteq Address /\ Sizes \subseteq Nat /\ Pointers \subseteq Address
    /\ Prots \subseteq SUBSET {"R", "W", "X", "G"}
    /\ Strict \in BOOLEAN
    /\ MaxRegions \in Nat

VARIABLES regions,  \* MemoryManager.regions
          nextVa,   \* memory-api.mjs: the next address without a hint
          last      \* the last call with its arguments and its result

memoryVars == <<regions, nextVa, last>>

PageDown(a) == (a \div PageSize) * PageSize
RoundUp(a, n) == ((a + n - 1) \div n) * n
MinOf(a, b) == IF a < b THEN a ELSE b
MaxOf(a, b) == IF a > b THEN a ELSE b

In(a, r) == r.base <= a /\ a < End(r)

\* regions.sort, by base and stable: the k-th region is the one with k before it, itself
\* included.
Before(rs, i, j) == rs[i].base < rs[j].base \/ (rs[i].base = rs[j].base /\ i <= j)

SortRegions(rs) ==
    [k \in DOMAIN rs |->
        rs[CHOOSE i \in DOMAIN rs : Cardinality({j \in DOMAIN rs : Before(rs, j, i)}) = k]]

\* MemoryManager.find: the first region that holds the address, 0 for none.
Find(rs, a) == SelectInSeq(rs, LAMBDA r : In(a, r))

\* Mutant of MapRegion: the table is not sorted again.
MapRegionUnsorted(rs, r) == Append(rs, r)

\* MemoryManager.map of a region that is not empty.
MapRegion(rs, r) == SortRegions(Append(rs, r))

\* The parts of r outside and inside b..e-1, as protect and free cut it.
Head_(r, b) == IF r.base < b THEN <<[r EXCEPT !.size = b - r.base]>> ELSE <<>>
Tail_(r, e) == IF End(r) > e THEN <<[r EXCEPT !.base = e, !.size = End(r) - e]>> ELSE <<>>

Apart(r, b, e) == End(r) <= b \/ r.base >= e

\* Mutant of ProtectPieces: the part behind the range is dropped.
ProtectPiecesNoTail(r, b, e, prot) ==
    Head_(r, b) \o <<Region(MaxOf(r.base, b), MinOf(End(r), e) - MaxOf(r.base, b),
                            prot, r.state)>>

ProtectPieces(r, b, e, prot) ==
    Head_(r, b) \o <<Region(MaxOf(r.base, b), MinOf(End(r), e) - MaxOf(r.base, b),
                            prot, r.state)>> \o Tail_(r, e)

ReleasePieces(r, b, e) == Head_(r, b) \o Tail_(r, e)

\* The middle starts at b, wherever r starts.
DecommitPieces(r, b, e) ==
    Head_(r, b) \o <<Region(b, MinOf(End(r), e) - b, r.protect, "reserve")>> \o Tail_(r, e)

Cut(rs, b, e, Pieces(_)) ==
    SortRegions(FlattenSeq([k \in DOMAIN rs |->
        IF Apart(rs[k], b, e) THEN <<rs[k]>> ELSE Pieces(rs[k])]))

\* The first region the range meets, 0 for none.
FirstMet(rs, b, e) == SelectInSeq(rs, LAMBDA r : ~Apart(r, b, e))

\* What the properties need to know of a call: the address it was given, the
\* range it acts on, the protection, and whether it succeeded.
Call(op, a, b, e, prot, ok) ==
    [op |-> op, addr |-> a, from |-> b, to |-> e, prot |-> prot, ok |-> ok]

MemoryInit ==
    /\ regions = SortRegions(Mapped)
    /\ nextVa = VaBase
    /\ last = Call("none", 0, 0, 0, {}, TRUE)

-----------------------------------------------------------------------------
(* memory-api.mjs                                                          *)

\* MemoryManager.#check at a: "none", or why the access faults.
Fault(rs, a, kind) ==
    LET k == Find(rs, a)
        r == rs[k] IN
    IF k = 0
    THEN IF Strict /\ kind \in {"W", "X"} THEN "unmapped" ELSE "none"
    ELSE IF r.state # "commit" THEN "state"
    ELSE IF "G" \in r.protect THEN "guard"
    ELSE IF kind = "X" /\ ~Strict
         THEN IF "R" \in r.protect THEN "none" ELSE "protect"
    ELSE IF kind \in r.protect THEN "none" ELSE "protect"

\* Mutant of AfterFault: the guard stays.
AfterFaultKeepsGuard(rs, a, kind) == rs

\* The guard goes with the fault it raises.
AfterFault(rs, a, kind) ==
    LET k == Find(rs, a) IN
    IF Fault(rs, a, kind) = "guard"
    THEN [rs EXCEPT ![k] = [rs[k] EXCEPT !.protect = rs[k].protect \ {"G"}]]
    ELSE rs

\* doAlloc: sizes round down to pages, 0 stands for one page.  MEM_COMMIT alone
\* on a mapped address commits the region found there and clears the pages,
\* which may fault; anything else maps a region.
VirtualAlloc(hint, size, type, prot) ==
    LET sz == PageDown(IF size = 0 THEN PageSize ELSE size)
        base == IF hint = 0 THEN nextVa ELSE PageDown(hint)
        k == Find(regions, base)
        commit == [regions EXCEPT ![k] = [regions[k] EXCEPT !.state = "commit", !.protect = prot]] IN
    \/ /\ sz = 0
       /\ last' = Call("alloc", hint, 0, 0, prot, FALSE)
       /\ UNCHANGED <<regions, nextVa>>
    \/ /\ sz > 0 /\ base + sz <= Top
       /\ nextVa' = IF hint = 0 THEN RoundUp(nextVa + sz, Granularity) ELSE nextVa
       /\ IF type = "commit" /\ k # 0
          THEN /\ regions' = AfterFault(commit, base, "W")
               /\ last' = Call("alloc", hint, base, base + sz, prot,
                               Fault(commit, base, "W") = "none")
          ELSE /\ Len(regions) < MaxRegions
               /\ regions' = MapRegion(regions,
                    Region(base, sz, prot, IF type = "reserve" THEN "reserve" ELSE "commit"))
               /\ last' = Call("alloc", hint, base, base + sz, prot, TRUE)

\* MemoryManager.protect: the range is size units from the page of addr.  The
\* handler then writes the old protection where oldPtr says; it answers 1 even
\* if that faults.
VirtualProtect(addr, size, prot, oldPtr) ==
    LET b == PageDown(addr)
        e == b + size
        cut == Cut(regions, b, e, LAMBDA r : ProtectPieces(r, b, e, prot)) IN
    /\ Len(cut) <= MaxRegions
    /\ regions' = IF oldPtr = 0 THEN cut ELSE AfterFault(cut, oldPtr, "W")
    /\ last' = Call("protect", addr, b, e, prot, TRUE)
    /\ UNCHANGED nextVa

\* VirtualFree: a size of 0 stands for everything above.  (With neither flag it
\* does nothing and answers 1.)
VirtualFree(addr, size, type) ==
    LET b == PageDown(addr)
        e == IF size = 0 THEN Top ELSE b + size IN
    /\ regions' = IF type = "decommit"
                  THEN Cut(regions, b, e, LAMBDA r : DecommitPieces(r, b, e))
                  ELSE Cut(regions, b, e, LAMBDA r : ReleasePieces(r, b, e))
    /\ Len(regions') <= MaxRegions
    /\ last' = Call(type, addr, b, e, {}, FirstMet(regions, b, e) # 0)
    /\ UNCHANGED nextVa

\* read, write or fetchBytes by the guest, or by a handler for it (VirtualQuery
\* writes its answer through write).
Access(a, kind) ==
    /\ regions' = AfterFault(regions, a, kind)
    /\ last' = Call(kind, a, a, a + 1, {}, Fault(regions, a, kind) = "none")
    /\ UNCHANGED nextVa

MemoryNext ==
    \/ \E hint \in Bases \cup {0}, size \in Sizes, prot \in Prots,
          type \in {"reserve", "commit", "both"} : VirtualAlloc(hint, size, type, prot)
    \/ \E addr \in Bases, size \in Sizes, prot \in Prots,
          oldPtr \in Pointers : VirtualProtect(addr, size, prot, oldPtr)
    \/ \E addr \in Bases, size \in Sizes, type \in {"release", "decommit"} :
          VirtualFree(addr, size, type)
    \/ \E a \in Address, kind \in {"R", "W", "X"} : Access(a, kind)

MemorySpec == MemoryInit /\ [][MemoryNext]_memoryVars

-----------------------------------------------------------------------------
(* Properties.                                                             *)

\* What the guest sees at a: the region VirtualQuery and the access check use.
View(rs, a) == LET k == Find(rs, a) IN
    IF k = 0 THEN [state |-> "free", protect |-> {}]
    ELSE [state |-> rs[k].state, protect |-> rs[k].protect]

Committed(rs) == {a \in Address : View(rs, a).state = "commit"}

\* The shape of the state; the table is sorted by base (memory.mjs: "sorted by
\* base"), which find and the sort in every caller rely on.
MemoryTypeOK ==
    /\ regions \in Seq(RegionType)
    /\ nextVa \in Nat
    /\ \A j, k \in DOMAIN regions : j < k => regions[j].base <= regions[k].base

\* The view a guard fault leaves: the write of the old protection may cost the
\* region it goes to its guard, and nothing else.
Unguarded(v) == [v EXCEPT !.protect = v.protect \ {"G"}]
SameView(new, old) ==
    \/ new = old
    \/ last'.op = "protect" /\ new = Unguarded(old)

\* VirtualProtect and VirtualFree change nothing outside the range they are
\* given, however the regions in the table overlap.
RangeCallsAreLocal ==
    last'.op \in {"protect", "release", "decommit"} =>
      \A a \in Address \ (last'.from..(last'.to - 1)) :
          SameView(View(regions', a), View(regions, a))

\* Inside its range VirtualProtect gives every mapped address the new protection
\* and leaves mapping and commitment alone, also where regions overlap.
ProtectOnlyProtects ==
    last'.op = "protect" =>
      \A a \in Address \cap (last'.from..(last'.to - 1)) :
          LET old == View(regions, a) IN
          SameView(View(regions', a),
                   IF old.state = "free" THEN old ELSE [old EXCEPT !.protect = last'.prot])

\* After MEM_RELEASE nothing in the range is mapped, after MEM_DECOMMIT nothing
\* in it is committed, also where several regions cover an address.
FreedIsGone ==
    last'.op \in {"release", "decommit"} =>
      \A a \in Address \cap (last'.from..(last'.to - 1)) :
          View(regions', a).state \in
              (IF last'.op = "release" THEN {"free"} ELSE {"free", "reserve"})

\* Only VirtualAlloc commits memory.
OnlyAllocCommits ==
    last'.op # "alloc" => Committed(regions') \subseteq Committed(regions)

\* memory.mjs, "VirtualAlloc states (reserve / commit / decommit / release)": a call on a
\* range changes that range as it says and no other, however the regions overlap.
RangeCallsHold ==
    [][RangeCallsAreLocal /\ ProtectOnlyProtects /\ FreedIsGone /\ OnlyAllocCommits]_memoryVars

\* PAGE_GUARD is one-shot: an access that faulted on the guard does not fault on
\* it again.
GuardFaultsOnce ==
    [][last'.op \in {"R", "W", "X"} /\ ~last'.ok =>
         Fault(regions', last'.addr, last'.op) # "guard"]_memoryVars

InHarness(a) == \E k \in DOMAIN Mapped : In(a, Mapped[k])

\* memory.mjs, "honest Windows semantics: VirtualAlloc states (reserve / commit /
\* decommit / release)": MEM_RELEASE with size 0, the form Windows asks for,
\* of an allocation of the guest leaves the harness's regions mapped.
ReleaseIsLocal ==
    [][/\ last'.op = "release" /\ last'.to = Top
       /\ Find(regions, last'.from) # 0 /\ ~InHarness(last'.from) =>
         \A a \in Address : InHarness(a) /\ Find(regions, a) # 0 => Find(regions', a) # 0]_memoryVars
=============================================================================
