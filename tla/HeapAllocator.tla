---------------------------- MODULE HeapAllocator ----------------------------
(***************************************************************************)
(* The guest heap: class HeapAllocator of pe-runner/src/memory.mjs behind  *)
(* the Heap*, Local* and Global* handlers of memory-api.mjs.  Addresses    *)
(* are bytes from the heap's base.  Each owner is a piece of guest code    *)
(* that holds at most one heap pointer and uses it as the API allows: it   *)
(* frees or reallocates only what it holds.  A handler that throws answers *)
(* 0 (win32.mjs dispatch), so an owner whose request fails goes on.        *)
(***************************************************************************)
EXTENDS Integers, Sequences

CONSTANTS Owners,     \* holders of heap pointers
          Requests,   \* the sizes they ask for
          HeapSize,   \* bytes of the heap region
          CursorMax   \* bound on the cursor, which the code lets grow for ever

ASSUME HeapAssumption ==
    /\ Requests \subseteq Nat \ {0}
    /\ HeapSize \in Nat
    /\ CursorMax \in Nat

VARIABLES cursor,  \* where the next fresh block goes
          blocks,  \* the block list, in order of creation
          ptr,     \* the pointer each owner holds, 0 for none
          asked,   \* the size it asked for
          failed   \* the size the last call was refused, 0 if it was not

vars == <<cursor, blocks, ptr, asked, failed>>

Page == 4096
Align(n) == ((n + 15) \div 16) * 16
Block == [addr : Nat, size : Nat, free : BOOLEAN]

Init ==
    /\ cursor = Page
    /\ blocks = <<>>
    /\ ptr = [o \in Owners |-> 0]
    /\ asked = [o \in Owners |-> 0]
    /\ failed = 0

\* The free blocks that can hold size; alloc takes the first of them.
Fits(size) == {k \in DOMAIN blocks : blocks[k].free /\ blocks[k].size >= size}
FirstFit(k, size) == k \in Fits(size) /\ \A j \in Fits(size) : k <= j

\* The block of the list at address a.
At(a) == CHOOSE k \in DOMAIN blocks : blocks[k].addr = a

\* Mutant of NextCursor: the header is not counted.
NextCursorNoHeader(size) == ((cursor + size) \div Page) * Page

\* Mutant of NextCursor: not rounded up to a page.
NextCursorUnaligned(size) == cursor + 16 + size

\* A fresh block ends on a page boundary, its header counted.
NextCursor(size) == ((cursor + 16 + size + (Page - 1)) \div Page) * Page

Marked(bs, k, free) == [bs EXCEPT ![k].free = free]

Hold(o, a, n) ==
    /\ ptr' = [ptr EXCEPT ![o] = a]
    /\ asked' = [asked EXCEPT ![o] = n]
    /\ failed' = 0

\* alloc, the first-fit branch: the block is used whole.
Reuse(o, n, bs) ==
    \E k \in DOMAIN blocks :
        /\ FirstFit(k, Align(n))
        /\ blocks' = Marked(bs, k, FALSE)
        /\ Hold(o, blocks[k].addr, n)
        /\ UNCHANGED cursor

\* alloc, a fresh block at the cursor.
Fresh(o, n, bs) ==
    /\ Fits(Align(n)) = {}
    /\ NextCursor(Align(n)) <= HeapSize
    /\ cursor' = NextCursor(Align(n))
    /\ blocks' = Append(bs, [addr |-> cursor, size |-> Align(n), free |-> FALSE])
    /\ Hold(o, cursor, n)

\* "emulated heap exhausted": the cursor has moved before the check.
Exhausted(n) ==
    /\ Fits(Align(n)) = {}
    /\ NextCursor(Align(n)) > HeapSize
    /\ NextCursor(Align(n)) <= CursorMax
    /\ cursor' = NextCursor(Align(n))
    /\ failed' = n
    /\ UNCHANGED <<blocks, ptr, asked>>

-----------------------------------------------------------------------------

\* HeapAlloc, RtlAllocateHeap, LocalAlloc, GlobalAlloc.
HeapAlloc(o, n) ==
    /\ ptr[o] = 0
    /\ Reuse(o, n, blocks) \/ Fresh(o, n, blocks) \/ Exhausted(n)

\* Mutant of Freed: the neighbour behind the block is freed with it.
FreedWithNext(k) == [j \in DOMAIN blocks |->
    IF j \in {k, k + 1} THEN [blocks[j] EXCEPT !.free = TRUE] ELSE blocks[j]]

Freed(k) == Marked(blocks, k, TRUE)

\* HeapFree, RtlFreeHeap.
HeapFree(o) ==
    /\ ptr[o] # 0
    /\ blocks' = Freed(At(ptr[o]))
    /\ Hold(o, 0, 0)
    /\ UNCHANGED cursor

\* LocalFree, GlobalFree: answered, and the block stays taken.
LocalFree(o) ==
    /\ ptr[o] # 0
    /\ Hold(o, 0, 0)
    /\ UNCHANGED <<cursor, blocks>>

\* Mutant of Moved: the old block is never given back.
MovedLeaks(o) == blocks

\* The list a growing realloc leaves for the new block: the old one is free,
\* but was not when the new block was chosen.
Moved(o) == Freed(At(ptr[o]))

\* HeapReAlloc, RtlReAllocateHeap: a block that is large enough stays.
HeapReAlloc(o, n) ==
    /\ ptr[o] # 0
    /\ \/ /\ blocks[At(ptr[o])].size >= Align(n)
          /\ Hold(o, ptr[o], n)
          /\ UNCHANGED <<cursor, blocks>>
       \/ /\ blocks[At(ptr[o])].size < Align(n)
          /\ Reuse(o, n, Moved(o)) \/ Fresh(o, n, Moved(o)) \/ Exhausted(n)

Next ==
    \E o \in Owners :
        \/ \E n \in Requests : HeapAlloc(o, n) \/ HeapReAlloc(o, n)
        \/ HeapFree(o) \/ LocalFree(o)

Spec == Init /\ [][Next]_vars

-----------------------------------------------------------------------------
(* Properties.                                                             *)

\* The shape of the state; the cursor stays on a page boundary.
TypeOK ==
    /\ cursor \in Nat /\ cursor % Page = 0
    /\ blocks \in Seq(Block)
    /\ ptr \in [Owners -> Nat]
    /\ asked \in [Owners -> Nat]
    /\ failed \in Nat

\* What two owners hold never overlaps, whatever was freed, moved and reused in
\* between (the block list against the pointers it handed out).
NoAliasing ==
    \A o, p \in Owners :
        o # p /\ ptr[o] # 0 /\ ptr[p] # 0 =>
            \/ ptr[o] + asked[o] <= ptr[p]
            \/ ptr[p] + asked[p] <= ptr[o]

\* HeapValidate never finds the heap incoherent: blocks are inside the region and
\* in address order, with room for the header before the next one, also after a
\* request that failed and moved the cursor.
BlocksCoherent ==
    /\ \A k \in DOMAIN blocks : Page <= blocks[k].addr
                                /\ blocks[k].addr + blocks[k].size <= HeapSize
    /\ \A j, k \in DOMAIN blocks :
         j < k => blocks[j].addr + blocks[j].size + 16 <= blocks[k].addr

\* A block returns to the free list only when its owner gave it back: what an
\* owner holds is a taken block that is as large as it asked for.
HeldIsTaken ==
    \A o \in Owners : ptr[o] # 0 =>
        \E k \in DOMAIN blocks :
            blocks[k].addr = ptr[o] /\ ~blocks[k].free /\ blocks[k].size >= asked[o]

\* No call but LocalFree and GlobalFree loses a block: every other step keeps the
\* number of taken blocks nobody holds.
Lost(bs, held) == {k \in DOMAIN bs : ~bs[k].free /\ \A o \in Owners : held[o] # bs[k].addr}

OnlyLocalFreeLeaks ==
    [][(\A o \in Owners : ~LocalFree(o)) => Lost(blocks', ptr') \subseteq Lost(blocks, ptr)]_vars

\* "a real first-fit allocator with coalescing" (memory.mjs): a request is refused
\* only if no stretch of the heap outside the taken blocks can hold it.
Taken(bs) == {k \in DOMAIN bs : ~bs[k].free}
RoomAt(a, n) ==
    /\ a + 16 + Align(n) <= HeapSize
    /\ \A k \in Taken(blocks) :
         \/ a + Align(n) + 16 <= blocks[k].addr
         \/ blocks[k].addr + blocks[k].size + 16 <= a
RefusedOnlyWhenFull ==
    failed # 0 => \A p \in 1..(HeapSize \div Page) : ~RoomAt(p * Page, failed)
=============================================================================
