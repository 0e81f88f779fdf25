----------------------------- MODULE MemoryProofs -----------------------------
(***************************************************************************)
(* The guest's memory (memory.mjs, memory-api.mjs), for every value of the *)
(* constants.                                                              *)
(*                                                                         *)
(* The heap: the block list stays coherent, two owners never hold          *)
(* overlapping memory, and nothing but a pointer lost by LocalFree leaks.  *)
(* The invariant ties each pointer to a taken block large enough for it,   *)
(* and orders the blocks below the cursor.                                 *)
(*                                                                         *)
(* The address space: the region table stays sorted, and a range call      *)
(* changes its range as it says and nothing else, however the regions      *)
(* overlap.  The argument follows what shows at one address through the    *)
(* cut: the pieces of a region that hold the address begin at a place that *)
(* rises with the region's, so after the sort the same region shows.       *)
(***************************************************************************)
EXTENDS HeapAllocator, GuestMemory, SequenceTheorems, FiniteSetTheorems, WellFoundedInduction, TLAPS

-----------------------------------------------------------------------------
(* The heap.                                                               *)

\* Every block lies below the cursor, room for its header included.
BelowCursor ==
    /\ cursor >= Page
    /\ \A k \in DOMAIN blocks : blocks[k].addr + blocks[k].size + 16 <= cursor

\* No two owners hold one block.
OneHolder == \A o, p \in Owners : o # p /\ ptr[o] # 0 => ptr[o] # ptr[p]

IInv == TypeOK /\ BlocksCoherent /\ BelowCursor /\ HeldIsTaken /\ OneHolder

-----------------------------------------------------------------------------
(* The arithmetic of the allocator.                                        *)

\* A size is rounded up.
LEMMA AlignBound ==
    ASSUME NEW n \in Nat
    PROVE  Align(n) \in Nat /\ n <= Align(n)
BY SMT DEF Align

\* A fresh block of n bytes and a header end at or below the next cursor, which
\* is on a page boundary.
LEMMA CursorBound ==
    ASSUME NEW n \in Nat, cursor \in Nat
    PROVE  /\ NextCursor(n) \in Nat
           /\ NextCursor(n) % Page = 0
           /\ cursor + 16 + n <= NextCursor(n)
BY SMT DEF NextCursor, Page

-----------------------------------------------------------------------------
(* The block list.                                                         *)

\* What the list holds are blocks.
LEMMA BlockType ==
    ASSUME TypeOK, NEW k \in DOMAIN blocks
    PROVE  /\ blocks[k] \in Block /\ k \in 1..Len(blocks)
           /\ blocks[k].addr \in Nat /\ blocks[k].size \in Nat
<1>1. blocks[k] \in Block /\ k \in 1..Len(blocks)
  BY DEF TypeOK
<1> QED
  BY <1>1 DEF Block

\* Changing a block's free flag leaves a list of blocks with the same layout.
LEMMA MarkedType ==
    ASSUME NEW bs \in Seq(Block), NEW k \in DOMAIN bs, NEW b \in BOOLEAN
    PROVE  /\ Marked(bs, k, b) \in Seq(Block) /\ DOMAIN Marked(bs, k, b) = DOMAIN bs
           /\ \A j \in DOMAIN bs : /\ Marked(bs, k, b)[j].addr = bs[j].addr
                                   /\ Marked(bs, k, b)[j].size = bs[j].size
                                   /\ j # k => Marked(bs, k, b)[j] = bs[j]
<1> DEFINE e == [bs[k] EXCEPT !.free = b]
<1>1. k \in 1..Len(bs) /\ bs[k] \in Block
  OBVIOUS
<1>2. e \in Block /\ e.free = b /\ e.addr = bs[k].addr /\ e.size = bs[k].size
  BY <1>1 DEF Block
<1>3. Marked(bs, k, b) = [bs EXCEPT ![k] = e]
  BY DEF Marked
<1> HIDE DEF e
<1>4. /\ Marked(bs, k, b) \in Seq(Block)
      /\ DOMAIN Marked(bs, k, b) = DOMAIN bs
      /\ Marked(bs, k, b)[k] = e
      /\ \A j \in DOMAIN bs : j # k => Marked(bs, k, b)[j] = bs[j]
  BY <1>1, <1>2, <1>3, ExceptSeq
<1> QED
  BY <1>2, <1>4

\* A block marked taken is not free.
LEMMA MarkedTaken ==
    ASSUME NEW bs \in Seq(Block), NEW k \in DOMAIN bs
    PROVE  ~Marked(bs, k, FALSE)[k].free
<1>1. Marked(bs, k, FALSE)[k] = [bs[k] EXCEPT !.free = FALSE]
  BY DEF Marked
<1>2. bs[k] \in Block
  OBVIOUS
<1> QED
  BY <1>1, <1>2 DEF Block

\* Two places of the list never have one address.
LEMMA Distinct ==
    ASSUME IInv, NEW j \in DOMAIN blocks, NEW k \in DOMAIN blocks,
           blocks[j].addr = blocks[k].addr
    PROVE  j = k
<1>1. blocks[j] \in Block /\ blocks[k] \in Block /\ j \in Nat /\ k \in Nat
  BY DEF IInv, TypeOK
<1>2. /\ j < k => blocks[j].addr + blocks[j].size + 16 <= blocks[k].addr
      /\ k < j => blocks[k].addr + blocks[k].size + 16 <= blocks[j].addr
  BY DEF IInv, BlocksCoherent
<1> QED
  BY <1>1, <1>2 DEF Block

\* find, asked for a held pointer, finds the taken block it points to.
LEMMA AtHeld ==
    ASSUME IInv, NEW o \in Owners, ptr[o] # 0
    PROVE  /\ At(ptr[o]) \in DOMAIN blocks
           /\ blocks[At(ptr[o])].addr = ptr[o]
           /\ ~blocks[At(ptr[o])].free
           /\ blocks[At(ptr[o])].size >= asked[o]
<1>1. PICK k \in DOMAIN blocks :
        blocks[k].addr = ptr[o] /\ ~blocks[k].free /\ blocks[k].size >= asked[o]
  BY DEF IInv, HeldIsTaken
<1>2. At(ptr[o]) \in DOMAIN blocks /\ blocks[At(ptr[o])].addr = ptr[o]
  BY <1>1 DEF At
<1>3. At(ptr[o]) = k
  BY <1>1, <1>2, Distinct
<1> QED
  BY <1>1, <1>3

\* Marking blocks free or taken moves no block.
LEMMA SameLayout ==
    ASSUME IInv, blocks' \in Seq(Block), cursor' = cursor,
           DOMAIN blocks' = DOMAIN blocks,
           \A k \in DOMAIN blocks : /\ blocks'[k].addr = blocks[k].addr
                                    /\ blocks'[k].size = blocks[k].size
    PROVE  BlocksCoherent' /\ BelowCursor'
BY DEF IInv, BlocksCoherent, BelowCursor

\* alloc's first-fit branch takes a block that was free.
LEMMA ReuseFits ==
    ASSUME NEW n \in Nat, NEW k \in DOMAIN blocks, FirstFit(k, Align(n))
    PROVE  blocks[k].free /\ blocks[k].size >= Align(n)
BY DEF FirstFit, Fits

-----------------------------------------------------------------------------
(* Each operation preserves the invariant.                                 *)

\* A freed block is nobody's: its holder gave it up and no one else held it.
LEMMA InvFree ==
    ASSUME IInv, NEW o \in Owners, HeapFree(o)
    PROVE  IInv'
<1> DEFINE f == At(ptr[o])
<1>1. f \in DOMAIN blocks /\ blocks[f].addr = ptr[o]
  BY AtHeld DEF HeapFree
<1>2. /\ blocks' = Marked(blocks, f, TRUE)
      /\ cursor' = cursor /\ ptr' = [ptr EXCEPT ![o] = 0]
      /\ asked' = [asked EXCEPT ![o] = 0] /\ failed' = 0
  BY DEF HeapFree, Freed, Hold
<1> HIDE DEF f
<1>3. /\ blocks' \in Seq(Block) /\ DOMAIN blocks' = DOMAIN blocks
      /\ \A k \in DOMAIN blocks : /\ blocks'[k].addr = blocks[k].addr
                                  /\ blocks'[k].size = blocks[k].size
                                  /\ k # f => blocks'[k] = blocks[k]
  <2>1. blocks \in Seq(Block)
    BY DEF IInv, TypeOK
  <2> QED
    BY <1>1, <1>2, <2>1, MarkedType, Zenon
<1>4. TypeOK' /\ BlocksCoherent' /\ BelowCursor'
  <2>1. TypeOK'
    BY <1>2, <1>3 DEF IInv, TypeOK
  <2>2. BlocksCoherent' /\ BelowCursor'
    BY <1>2, <1>3, SameLayout
  <2> QED
    BY <2>1, <2>2
<1>5. HeldIsTaken'
  <2> SUFFICES ASSUME NEW p \in Owners, ptr'[p] # 0
               PROVE  \E k \in DOMAIN blocks' : /\ blocks'[k].addr = ptr'[p]
                                                /\ ~blocks'[k].free
                                                /\ blocks'[k].size >= asked'[p]
    BY DEF HeldIsTaken
  <2>1. p # o /\ ptr'[p] = ptr[p] /\ asked'[p] = asked[p]
    BY <1>2 DEF IInv, TypeOK
  <2>2. PICK k \in DOMAIN blocks :
          blocks[k].addr = ptr[p] /\ ~blocks[k].free /\ blocks[k].size >= asked[p]
    BY <2>1 DEF IInv, HeldIsTaken
  <2>3. k # f
    BY <1>1, <2>1, <2>2 DEF IInv, OneHolder
  <2> QED
    BY <1>3, <2>1, <2>2, <2>3
<1>6. OneHolder'
  BY <1>2 DEF IInv, TypeOK, OneHolder
<1> QED
  BY <1>4, <1>5, <1>6 DEF IInv

\* LocalFree forgets a pointer and leaves the list alone.
LEMMA InvLocalFree ==
    ASSUME IInv, NEW o \in Owners, LocalFree(o)
    PROVE  IInv'
<1>1. /\ blocks' = blocks /\ cursor' = cursor /\ ptr' = [ptr EXCEPT ![o] = 0]
      /\ asked' = [asked EXCEPT ![o] = 0] /\ failed' = 0
  BY DEF LocalFree, Hold
<1>2. \A p \in Owners : ptr'[p] # 0 => p # o /\ ptr'[p] = ptr[p] /\ asked'[p] = asked[p]
  BY <1>1 DEF IInv, TypeOK
<1>3. TypeOK' /\ BlocksCoherent' /\ BelowCursor'
  BY <1>1 DEF IInv, TypeOK, BlocksCoherent, BelowCursor
<1>4. HeldIsTaken'
  BY <1>1, <1>2 DEF IInv, HeldIsTaken
<1>5. OneHolder'
  BY <1>1, <1>2 DEF IInv, TypeOK, OneHolder
<1> QED
  BY <1>3, <1>4, <1>5 DEF IInv

\* A refused request moves the cursor and nothing else.
LEMMA InvExhausted ==
    ASSUME IInv, NEW n \in Requests, Exhausted(n)
    PROVE  IInv'
<1>1. n \in Nat /\ Align(n) \in Nat
  BY HeapAssumption, AlignBound
<1>2. /\ cursor' = NextCursor(Align(n)) /\ failed' = n
      /\ blocks' = blocks /\ ptr' = ptr /\ asked' = asked
  BY DEF Exhausted
<1>3. cursor' \in Nat /\ cursor' % Page = 0 /\ cursor <= cursor'
  <2>1. /\ cursor' \in Nat /\ cursor' % Page = 0 /\ cursor \in Nat
        /\ cursor + 16 + Align(n) <= cursor'
    BY <1>1, <1>2, CursorBound DEF IInv, TypeOK
  <2> QED
    BY <1>1, <2>1
<1>4. TypeOK' /\ BlocksCoherent' /\ HeldIsTaken' /\ OneHolder'
  BY <1>1, <1>2, <1>3 DEF IInv, TypeOK, BlocksCoherent, HeldIsTaken, OneHolder
<1>5. BelowCursor'
  <2>1. \A k \in DOMAIN blocks : blocks[k].addr \in Nat /\ blocks[k].size \in Nat
    BY BlockType DEF IInv
  <2> QED
    BY <1>2, <1>3, <2>1 DEF IInv, TypeOK, BelowCursor, Page
<1> QED
  BY <1>4, <1>5 DEF IInv

\* The block an owner is given was free, so nobody held it.  The old block of a
\* realloc was taken, so it is another one.
LEMMA InvReuse ==
    ASSUME IInv, NEW o \in Owners, NEW n \in Requests, NEW bs \in Seq(Block),
           DOMAIN bs = DOMAIN blocks,
           \A k \in DOMAIN blocks : /\ bs[k].addr = blocks[k].addr
                                    /\ bs[k].size = blocks[k].size
                                    /\ blocks[k].addr # ptr[o] => bs[k] = blocks[k],
           Reuse(o, n, bs)
    PROVE  IInv'
<1>1. n \in Nat /\ Align(n) \in Nat /\ n <= Align(n)
  BY HeapAssumption, AlignBound
<1>2. PICK k \in DOMAIN blocks :
        /\ FirstFit(k, Align(n))
        /\ blocks' = Marked(bs, k, FALSE)
        /\ Hold(o, blocks[k].addr, n)
        /\ cursor' = cursor
  BY DEF Reuse
<1>3. blocks[k].free /\ blocks[k].size >= Align(n)
  BY <1>1, <1>2, ReuseFits
<1>4. /\ ptr' = [ptr EXCEPT ![o] = blocks[k].addr]
      /\ asked' = [asked EXCEPT ![o] = n] /\ failed' = 0
  BY <1>2 DEF Hold
<1>5. /\ blocks' \in Seq(Block) /\ DOMAIN blocks' = DOMAIN blocks
      /\ ~blocks'[k].free
      /\ \A j \in DOMAIN blocks :
           /\ blocks'[j].addr = blocks[j].addr /\ blocks'[j].size = blocks[j].size
           /\ j # k /\ blocks[j].addr # ptr[o] => blocks'[j] = blocks[j]
  <2>1. k \in DOMAIN bs /\ FALSE \in BOOLEAN
    OBVIOUS
  <2>2. /\ blocks' \in Seq(Block) /\ DOMAIN blocks' = DOMAIN bs
        /\ \A j \in DOMAIN bs : /\ blocks'[j].addr = bs[j].addr
                                /\ blocks'[j].size = bs[j].size
                                /\ j # k => blocks'[j] = bs[j]
    BY <1>2, <2>1, MarkedType, Zenon
  <2>3. ~blocks'[k].free
    BY <1>2, <2>1, MarkedTaken
  <2> QED
    BY <2>2, <2>3
<1>6. blocks[k].addr \in Nat /\ blocks[k].size \in Nat /\ blocks[k].addr # 0
  BY BlockType DEF IInv, BlocksCoherent, Page
<1>7. TypeOK'
  BY <1>1, <1>2, <1>4, <1>5, <1>6 DEF IInv, TypeOK
<1>8. BlocksCoherent' /\ BelowCursor'
  BY <1>2, <1>5, SameLayout
<1>9. \A p \in Owners : p # o /\ ptr[p] # 0 =>
        \E j \in DOMAIN blocks : /\ j # k /\ blocks[j].addr = ptr[p] /\ ~blocks[j].free
                                 /\ blocks[j].size >= asked[p]
                                 /\ blocks[j].addr # ptr[o]
                                 /\ blocks[j].addr # blocks[k].addr
  <2> SUFFICES ASSUME NEW p \in Owners, p # o, ptr[p] # 0
               PROVE  \E j \in DOMAIN blocks :
                        /\ j # k /\ blocks[j].addr = ptr[p] /\ ~blocks[j].free
                        /\ blocks[j].size >= asked[p]
                        /\ blocks[j].addr # ptr[o]
                        /\ blocks[j].addr # blocks[k].addr
    OBVIOUS
  <2>1. PICK j \in DOMAIN blocks :
          blocks[j].addr = ptr[p] /\ ~blocks[j].free /\ blocks[j].size >= asked[p]
    BY DEF IInv, HeldIsTaken
  <2>2. j # k
    BY <1>3, <2>1
  <2>3. blocks[j].addr # blocks[k].addr
    BY <2>2, Distinct
  <2>4. blocks[j].addr # ptr[o]
    BY <2>1 DEF IInv, OneHolder
  <2> QED
    BY <2>1, <2>2, <2>3, <2>4
<1>10. \A p \in Owners : p # o => ptr'[p] = ptr[p] /\ asked'[p] = asked[p]
  BY <1>4 DEF IInv, TypeOK
<1>11. ptr'[o] = blocks[k].addr /\ asked'[o] = n
  BY <1>4 DEF IInv, TypeOK
<1>12. HeldIsTaken'
  <2> SUFFICES ASSUME NEW p \in Owners, ptr'[p] # 0
               PROVE  \E j \in DOMAIN blocks' : /\ blocks'[j].addr = ptr'[p]
                                                /\ ~blocks'[j].free
                                                /\ blocks'[j].size >= asked'[p]
    BY DEF HeldIsTaken
  <2>1. CASE p = o
    BY <1>1, <1>3, <1>5, <1>6, <1>11, <2>1
  <2>2. CASE p # o
    BY <1>5, <1>9, <1>10, <2>2
  <2> QED
    BY <2>1, <2>2
<1>13. OneHolder'
  <2> SUFFICES ASSUME NEW p \in Owners, NEW q \in Owners, p # q, ptr'[p] # 0
               PROVE  ptr'[p] # ptr'[q]
    BY DEF OneHolder
  <2>1. CASE p = o
    BY <1>6, <1>9, <1>10, <1>11, <2>1
  <2>2. CASE q = o
    BY <1>9, <1>10, <1>11, <2>2
  <2>3. CASE p # o /\ q # o
    BY <1>10, <2>3 DEF IInv, OneHolder
  <2> QED
    BY <2>1, <2>2, <2>3
<1> QED
  BY <1>7, <1>8, <1>12, <1>13 DEF IInv

\* A fresh block starts at the cursor, behind every block there is.
LEMMA InvFresh ==
    ASSUME IInv, NEW o \in Owners, NEW n \in Requests, NEW bs \in Seq(Block),
           Len(bs) = Len(blocks),
           \A k \in DOMAIN blocks : /\ bs[k].addr = blocks[k].addr
                                    /\ bs[k].size = blocks[k].size
                                    /\ blocks[k].addr # ptr[o] => bs[k] = blocks[k],
           Fresh(o, n, bs)
    PROVE  IInv'
<1> DEFINE new == [addr |-> cursor, size |-> Align(n), free |-> FALSE]
           top == Len(blocks) + 1
<1>1. n \in Nat /\ Align(n) \in Nat /\ n <= Align(n)
  BY HeapAssumption, AlignBound
<1>2. /\ blocks' = Append(bs, new) /\ cursor' = NextCursor(Align(n))
      /\ cursor' <= HeapSize
      /\ ptr' = [ptr EXCEPT ![o] = cursor]
      /\ asked' = [asked EXCEPT ![o] = n] /\ failed' = 0
  BY DEF Fresh, Hold
<1>3. /\ cursor \in Nat /\ cursor' \in Nat /\ cursor' % Page = 0
      /\ cursor + 16 + Align(n) <= cursor' /\ cursor <= cursor' /\ Page <= cursor
  <2>1. /\ cursor \in Nat /\ cursor' \in Nat /\ cursor' % Page = 0
        /\ cursor + 16 + Align(n) <= cursor'
    BY <1>1, <1>2, CursorBound DEF IInv, TypeOK
  <2>2. cursor <= cursor'
    BY <1>1, <2>1
  <2>3. Page <= cursor
    BY <2>1 DEF IInv, BelowCursor, Page
  <2> QED
    BY <2>1, <2>2, <2>3
<1>4. new \in Block /\ new.addr = cursor /\ new.size = Align(n) /\ ~new.free
  BY <1>1, <1>3 DEF Block
<1> HIDE DEF new
<1>5. /\ blocks' \in Seq(Block) /\ Len(blocks') = top /\ blocks'[top] = new
      /\ \A k \in DOMAIN blocks : blocks'[k] = bs[k]
      /\ DOMAIN blocks = 1..Len(blocks) /\ DOMAIN blocks' = 1..top /\ Len(blocks) \in Nat
  BY <1>2, <1>4, AppendProperties DEF IInv, TypeOK
<1>6. \A k \in DOMAIN blocks : /\ k \in DOMAIN blocks' /\ k # top /\ k < top
                               /\ blocks'[k].addr = blocks[k].addr
                               /\ blocks'[k].size = blocks[k].size
                               /\ blocks[k].addr # ptr[o] => blocks'[k] = blocks[k]
  BY <1>5
<1>7. \A k \in DOMAIN blocks' : k # top => k \in DOMAIN blocks
  BY <1>5
<1>8. TypeOK'
  BY <1>1, <1>2, <1>3, <1>5 DEF IInv, TypeOK
<1>9. \A k \in DOMAIN blocks :
        /\ blocks[k].addr \in Nat /\ blocks[k].size \in Nat
        /\ blocks[k].addr + blocks[k].size + 16 <= cursor
        /\ Page <= blocks[k].addr /\ blocks[k].addr + blocks[k].size <= HeapSize
  BY BlockType DEF IInv, BelowCursor, BlocksCoherent
<1>10. BlocksCoherent'
  <2>1. \A k \in DOMAIN blocks' : /\ Page <= blocks'[k].addr
                                  /\ blocks'[k].addr + blocks'[k].size <= HeapSize
    <3> SUFFICES ASSUME NEW k \in DOMAIN blocks'
                 PROVE  /\ Page <= blocks'[k].addr
                        /\ blocks'[k].addr + blocks'[k].size <= HeapSize
      OBVIOUS
    <3>1. CASE k = top
      BY <1>1, <1>2, <1>3, <1>4, <1>5, <3>1, HeapAssumption
    <3>2. CASE k # top
      BY <1>6, <1>7, <1>9, <3>2
    <3> QED
      BY <3>1, <3>2
  <2>2. ASSUME NEW j \in DOMAIN blocks', NEW k \in DOMAIN blocks', j < k
        PROVE  blocks'[j].addr + blocks'[j].size + 16 <= blocks'[k].addr
    <3>1. j # top /\ j \in DOMAIN blocks
      BY <1>5, <1>7, <2>2
    <3>2. CASE k = top
      BY <1>4, <1>5, <1>6, <1>9, <3>1, <3>2
    <3>3. CASE k # top
      BY <1>6, <1>7, <2>2, <3>1, <3>3 DEF IInv, BlocksCoherent
    <3> QED
      BY <3>2, <3>3
  <2> QED
    BY <2>1, <2>2 DEF BlocksCoherent
<1>11. BelowCursor'
  <2>1. \A k \in DOMAIN blocks' : blocks'[k].addr + blocks'[k].size + 16 <= cursor'
    <3> SUFFICES ASSUME NEW k \in DOMAIN blocks'
                 PROVE  blocks'[k].addr + blocks'[k].size + 16 <= cursor'
      OBVIOUS
    <3>1. CASE k = top
      BY <1>1, <1>3, <1>4, <1>5, <3>1
    <3>2. CASE k # top
      <4>1. /\ k \in DOMAIN blocks
            /\ blocks'[k].addr = blocks[k].addr /\ blocks'[k].size = blocks[k].size
        BY <1>6, <1>7, <3>2
      <4> QED
        BY <1>3, <1>9, <4>1
    <3> QED
      BY <3>1, <3>2
  <2> QED
    BY <1>1, <1>3, <2>1 DEF BelowCursor, Page
<1>12. /\ ptr'[o] = cursor /\ asked'[o] = n
       /\ \A p \in Owners : p # o => ptr'[p] = ptr[p] /\ asked'[p] = asked[p]
  BY <1>2 DEF IInv, TypeOK
<1>13. \A p \in Owners : p # o /\ ptr[p] # 0 =>
         /\ ptr[p] # cursor
         /\ \E j \in DOMAIN blocks' : /\ blocks'[j].addr = ptr[p] /\ ~blocks'[j].free
                                      /\ blocks'[j].size >= asked[p]
  <2> SUFFICES ASSUME NEW p \in Owners, p # o, ptr[p] # 0
               PROVE  /\ ptr[p] # cursor
                      /\ \E j \in DOMAIN blocks' :
                            /\ blocks'[j].addr = ptr[p] /\ ~blocks'[j].free
                            /\ blocks'[j].size >= asked[p]
    OBVIOUS
  <2>1. PICK j \in DOMAIN blocks :
          blocks[j].addr = ptr[p] /\ ~blocks[j].free /\ blocks[j].size >= asked[p]
    BY DEF IInv, HeldIsTaken
  <2>2. ptr[p] # ptr[o]
    BY DEF IInv, OneHolder
  <2>3. ptr[p] # cursor
    BY <1>3, <1>9, <2>1
  <2> QED
    BY <1>6, <2>1, <2>2, <2>3
<1>14. HeldIsTaken'
  <2> SUFFICES ASSUME NEW p \in Owners, ptr'[p] # 0
               PROVE  \E j \in DOMAIN blocks' : /\ blocks'[j].addr = ptr'[p]
                                                /\ ~blocks'[j].free
                                                /\ blocks'[j].size >= asked'[p]
    BY DEF HeldIsTaken
  <2>1. CASE p = o
    BY <1>1, <1>4, <1>5, <1>12, <2>1
  <2>2. CASE p # o
    BY <1>12, <1>13, <2>2
  <2> QED
    BY <2>1, <2>2
<1>15. OneHolder'
  <2> SUFFICES ASSUME NEW p \in Owners, NEW q \in Owners, p # q, ptr'[p] # 0
               PROVE  ptr'[p] # ptr'[q]
    BY DEF OneHolder
  <2>1. CASE p = o
    BY <1>3, <1>12, <1>13, <2>1 DEF Page
  <2>2. CASE q = o
    BY <1>12, <1>13, <2>2
  <2>3. CASE p # o /\ q # o
    BY <1>12, <2>3 DEF IInv, OneHolder
  <2> QED
    BY <2>1, <2>2, <2>3
<1> QED
  BY <1>8, <1>10, <1>11, <1>14, <1>15 DEF IInv

\* A realloc that stays in place only changes what its owner asked for.
LEMMA InvInPlace ==
    ASSUME IInv, NEW o \in Owners, NEW n \in Requests, ptr[o] # 0,
           blocks[At(ptr[o])].size >= Align(n),
           Hold(o, ptr[o], n), UNCHANGED <<cursor, blocks>>
    PROVE  IInv'
<1>1. n \in Nat /\ Align(n) \in Nat /\ n <= Align(n)
  BY HeapAssumption, AlignBound
<1>2. ptr' = ptr /\ asked' = [asked EXCEPT ![o] = n] /\ failed' = 0
  BY DEF Hold, IInv, TypeOK
<1>3. TypeOK' /\ BlocksCoherent' /\ BelowCursor' /\ OneHolder'
  BY <1>1, <1>2 DEF IInv, TypeOK, BlocksCoherent, BelowCursor, OneHolder
<1>4. HeldIsTaken'
  <2> SUFFICES ASSUME NEW p \in Owners, ptr[p] # 0
               PROVE  \E k \in DOMAIN blocks : /\ blocks[k].addr = ptr[p]
                                               /\ ~blocks[k].free
                                               /\ blocks[k].size >= asked'[p]
    BY <1>2 DEF HeldIsTaken
  <2>1. CASE p = o
    <3>1. /\ At(ptr[o]) \in DOMAIN blocks /\ blocks[At(ptr[o])].addr = ptr[o]
          /\ ~blocks[At(ptr[o])].free
      BY AtHeld
    <3>2. asked'[o] = n
      BY <1>2 DEF IInv, TypeOK
    <3>3. blocks[At(ptr[o])].size >= n
      BY <1>1, <3>1, BlockType DEF IInv
    <3> QED
      BY <2>1, <3>1, <3>2, <3>3
  <2>2. CASE p # o
    BY <1>2, <2>2 DEF IInv, TypeOK, HeldIsTaken
  <2> QED
    BY <2>1, <2>2
<1> QED
  BY <1>3, <1>4 DEF IInv

\* The list a growing realloc works on: the layout stands and only the old block
\* changes.
LEMMA MovedLayout ==
    ASSUME IInv, NEW o \in Owners, ptr[o] # 0
    PROVE  /\ Moved(o) \in Seq(Block)
           /\ Len(Moved(o)) = Len(blocks) /\ DOMAIN Moved(o) = DOMAIN blocks
           /\ \A k \in DOMAIN blocks : /\ Moved(o)[k].addr = blocks[k].addr
                                       /\ Moved(o)[k].size = blocks[k].size
                                       /\ blocks[k].addr # ptr[o] => Moved(o)[k] = blocks[k]
<1> DEFINE f == At(ptr[o])
<1>1. f \in DOMAIN blocks /\ blocks[f].addr = ptr[o]
  BY AtHeld
<1>2. Moved(o) = Marked(blocks, f, TRUE)
  BY DEF Moved, Freed
<1>3. blocks \in Seq(Block)
  BY DEF IInv, TypeOK
<1> HIDE DEF f
<1>4. /\ Moved(o) \in Seq(Block) /\ DOMAIN Moved(o) = DOMAIN blocks
      /\ \A k \in DOMAIN blocks : /\ Moved(o)[k].addr = blocks[k].addr
                                  /\ Moved(o)[k].size = blocks[k].size
                                  /\ k # f => Moved(o)[k] = blocks[k]
  <2> DEFINE m == Marked(blocks, f, TRUE)
  <2>1. /\ m \in Seq(Block) /\ DOMAIN m = DOMAIN blocks
        /\ \A k \in DOMAIN blocks : /\ m[k].addr = blocks[k].addr
                                    /\ m[k].size = blocks[k].size
                                    /\ k # f => m[k] = blocks[k]
    BY <1>1, <1>3, MarkedType, Zenon
  <2>2. Moved(o) = m
    BY <1>2
  <2> HIDE DEF m
  <2> QED
    BY <2>1, <2>2
<1>5. Len(Moved(o)) = Len(blocks)
  BY <1>3, <1>4
<1> QED
  BY <1>1, <1>4, <1>5

LEMMA InvHeapAlloc ==
    ASSUME IInv, NEW o \in Owners, NEW n \in Requests, HeapAlloc(o, n)
    PROVE  IInv'
<1>1. CASE Reuse(o, n, blocks)
  BY <1>1, InvReuse DEF IInv, TypeOK
<1>2. CASE Fresh(o, n, blocks)
  BY <1>2, InvFresh DEF IInv, TypeOK
<1>3. CASE Exhausted(n)
  BY <1>3, InvExhausted
<1> QED
  BY <1>1, <1>2, <1>3 DEF HeapAlloc

LEMMA InvHeapReAlloc ==
    ASSUME IInv, NEW o \in Owners, NEW n \in Requests, HeapReAlloc(o, n)
    PROVE  IInv'
<1>1. ptr[o] # 0
  BY DEF HeapReAlloc
<1>2. CASE /\ blocks[At(ptr[o])].size >= Align(n)
           /\ Hold(o, ptr[o], n)
           /\ UNCHANGED <<cursor, blocks>>
  BY <1>1, <1>2, InvInPlace
<1>3. CASE Reuse(o, n, Moved(o))
  BY <1>1, <1>3, MovedLayout, InvReuse
<1>4. CASE Fresh(o, n, Moved(o))
  BY <1>1, <1>4, MovedLayout, InvFresh
<1>5. CASE Exhausted(n)
  BY <1>5, InvExhausted
<1> QED
  BY <1>2, <1>3, <1>4, <1>5 DEF HeapReAlloc

-----------------------------------------------------------------------------
(* The theorems.                                                           *)

LEMMA InitIInv == Init => IInv
<1> SUFFICES ASSUME Init PROVE IInv
  OBVIOUS
<1>1. TypeOK
  BY DEF Init, TypeOK, Page
<1>2. BlocksCoherent /\ BelowCursor /\ HeldIsTaken /\ OneHolder
  BY DEF Init, BlocksCoherent, BelowCursor, HeldIsTaken, OneHolder, Page
<1> QED
  BY <1>1, <1>2 DEF IInv

LEMMA NextIInv == IInv /\ [Next]_vars => IInv'
<1> SUFFICES ASSUME IInv, [Next]_vars PROVE IInv'
  OBVIOUS
<1>1. CASE UNCHANGED vars
  BY <1>1 DEF vars, IInv, TypeOK, BlocksCoherent, BelowCursor, HeldIsTaken, OneHolder
<1>2. ASSUME NEW o \in Owners, NEW n \in Requests, HeapAlloc(o, n) PROVE IInv'
  BY <1>2, InvHeapAlloc
<1>3. ASSUME NEW o \in Owners, NEW n \in Requests, HeapReAlloc(o, n) PROVE IInv'
  BY <1>3, InvHeapReAlloc
<1>4. ASSUME NEW o \in Owners, HeapFree(o) PROVE IInv'
  BY <1>4, InvFree
<1>5. ASSUME NEW o \in Owners, LocalFree(o) PROVE IInv'
  BY <1>5, InvLocalFree
<1> QED
  BY <1>1, <1>2, <1>3, <1>4, <1>5 DEF Next

\* The inductive invariant holds: pointers, taken blocks and the cursor agree.
THEOREM Invariance == Spec => []IInv
<1>1. Init => IInv
  BY InitIInv
<1>2. IInv /\ [Next]_vars => IInv'
  BY NextIInv
<1> QED
  BY <1>1, <1>2, PTL DEF Spec

\* The state keeps its shape and the cursor its page boundary.
THEOREM TypeCorrect == Spec => []TypeOK
<1>1. IInv => TypeOK
  BY DEF IInv
<1> QED
  BY <1>1, Invariance, PTL

\* HeapValidate never finds the block list incoherent.
THEOREM Coherent == Spec => []BlocksCoherent
<1>1. IInv => BlocksCoherent
  BY DEF IInv
<1> QED
  BY <1>1, Invariance, PTL

\* Every pointer in use is a taken block, large enough for what was asked.
THEOREM HeldStaysTaken == Spec => []HeldIsTaken
<1>1. IInv => HeldIsTaken
  BY DEF IInv
<1> QED
  BY <1>1, Invariance, PTL

\* Memory two owners hold never overlaps.
THEOREM NoOverlap == Spec => []NoAliasing
<1>1. IInv => NoAliasing
  <2> SUFFICES ASSUME IInv, NEW o \in Owners, NEW p \in Owners,
                      o # p, ptr[o] # 0, ptr[p] # 0
               PROVE  \/ ptr[o] + asked[o] <= ptr[p]
                      \/ ptr[p] + asked[p] <= ptr[o]
    BY DEF NoAliasing
  <2>1. PICK j \in DOMAIN blocks : blocks[j].addr = ptr[o] /\ blocks[j].size >= asked[o]
    BY DEF IInv, HeldIsTaken
  <2>2. PICK k \in DOMAIN blocks : blocks[k].addr = ptr[p] /\ blocks[k].size >= asked[p]
    BY DEF IInv, HeldIsTaken
  <2>3. j # k
    BY <2>1, <2>2 DEF IInv, OneHolder
  <2>4. /\ j \in Nat /\ k \in Nat
        /\ blocks[j].addr \in Nat /\ blocks[j].size \in Nat
        /\ blocks[k].addr \in Nat /\ blocks[k].size \in Nat
        /\ asked[o] \in Nat /\ asked[p] \in Nat
    BY BlockType DEF IInv, TypeOK
  <2>5. CASE j < k
    <3>1. blocks[j].addr + blocks[j].size + 16 <= blocks[k].addr
      BY <2>5 DEF IInv, BlocksCoherent
    <3> QED
      BY <2>1, <2>2, <2>4, <3>1
  <2>6. CASE k < j
    <3>1. blocks[k].addr + blocks[k].size + 16 <= blocks[j].addr
      BY <2>6 DEF IInv, BlocksCoherent
    <3> QED
      BY <2>1, <2>2, <2>4, <3>1
  <2> QED
    BY <2>3, <2>4, <2>5, <2>6
<1> QED
  BY <1>1, Invariance, PTL

-----------------------------------------------------------------------------
(* What is lost.                                                           *)

\* Nothing is lost by a step of o's that leaves the other pointers alone, if what it leaves
\* taken and unheld was a taken block before, and not o's.
LEMMA NotLost ==
    ASSUME NEW o \in Owners, \A p \in Owners \ {o} : ptr'[p] = ptr[p],
           \A k \in Lost(blocks', ptr') : /\ k \in DOMAIN blocks /\ ~blocks[k].free
                                          /\ blocks'[k].addr = blocks[k].addr
                                          /\ ptr[o] # blocks[k].addr
    PROVE  Lost(blocks', ptr') \subseteq Lost(blocks, ptr)
BY DEF Lost

\* The list the new block of a request is chosen from has all blocks, and o's is free in it.
Given(o, bs) ==
    /\ bs \in Seq(Block) /\ DOMAIN bs = DOMAIN blocks
    /\ \A k \in DOMAIN blocks :
         /\ bs[k].addr = blocks[k].addr
         /\ ~bs[k].free => bs[k] = blocks[k] /\ ptr[o] # blocks[k].addr

LEMMA ReuseLosesNothing ==
    ASSUME IInv, NEW o \in Owners, NEW n \in Requests, NEW bs, Given(o, bs), Reuse(o, n, bs)
    PROVE  Lost(blocks', ptr') \subseteq Lost(blocks, ptr)
<1>1. PICK j \in DOMAIN blocks :
        blocks' = Marked(bs, j, FALSE) /\ ptr' = [ptr EXCEPT ![o] = blocks[j].addr]
  BY DEF Reuse, Hold
<1>2. ptr \in [Owners -> Nat]
  BY DEF IInv, TypeOK
<1>3. /\ DOMAIN blocks' = DOMAIN bs
      /\ \A i \in DOMAIN bs : blocks'[i].addr = bs[i].addr /\ (i # j => blocks'[i] = bs[i])
  <2> DEFINE m == Marked(bs, j, FALSE)
  <2>1. bs \in Seq(Block) /\ j \in DOMAIN bs
    BY DEF Given
  <2>2. /\ DOMAIN m = DOMAIN bs
        /\ \A i \in DOMAIN bs : m[i].addr = bs[i].addr /\ (i # j => m[i] = bs[i])
    BY <2>1, MarkedType, Zenon
  <2> HIDE DEF m
  <2>3. blocks' = m
    BY <1>1 DEF m
  <2> QED
    BY <2>2, <2>3
<1>0. /\ DOMAIN bs = DOMAIN blocks
      /\ \A i \in DOMAIN blocks :
           /\ bs[i].addr = blocks[i].addr
           /\ ~bs[i].free => bs[i] = blocks[i] /\ ptr[o] # blocks[i].addr
  BY Zenon DEF Given
<1>4. blocks'[j].addr = bs[j].addr /\ bs[j].addr = blocks[j].addr
  BY <1>0, <1>3
<1>5. ptr'[o] = blocks[j].addr /\ \A p \in Owners \ {o} : ptr'[p] = ptr[p]
  BY <1>1, <1>2
<1>6. ASSUME NEW i \in Lost(blocks', ptr')
      PROVE  /\ i \in DOMAIN blocks /\ ~blocks[i].free /\ blocks'[i].addr = blocks[i].addr
             /\ ptr[o] # blocks[i].addr
  <2>1. i \in DOMAIN blocks' /\ ~blocks'[i].free /\ ptr'[o] # blocks'[i].addr
    BY DEF Lost
  <2>2. i # j
    BY <2>1, <1>4, <1>5
  <2> QED
    BY <2>1, <2>2, <1>0, <1>3, Zenon
<1> QED
  BY <1>5, <1>6, NotLost

LEMMA FreshLosesNothing ==
    ASSUME IInv, NEW o \in Owners, NEW n \in Requests, NEW bs, Given(o, bs), Fresh(o, n, bs)
    PROVE  Lost(blocks', ptr') \subseteq Lost(blocks, ptr)
<1> DEFINE b == [addr |-> cursor, size |-> Align(n), free |-> FALSE]
<1>1. blocks' = Append(bs, b) /\ ptr' = [ptr EXCEPT ![o] = cursor]
  BY DEF Fresh, Hold
<1>2. ptr \in [Owners -> Nat] /\ b.addr = cursor
  BY DEF IInv, TypeOK
<1> HIDE DEF b
<1>3. /\ Len(blocks') = Len(bs) + 1 /\ blocks'[Len(bs) + 1] = b
      /\ \A i \in DOMAIN bs : blocks'[i] = bs[i]
      /\ DOMAIN blocks' = DOMAIN bs \cup {Len(bs) + 1}
  BY <1>1 DEF Given
<1>4. ptr'[o] = cursor /\ \A p \in Owners \ {o} : ptr'[p] = ptr[p]
  BY <1>1, <1>2
<1>5. ASSUME NEW i \in Lost(blocks', ptr')
      PROVE  /\ i \in DOMAIN blocks /\ ~blocks[i].free /\ blocks'[i].addr = blocks[i].addr
             /\ ptr[o] # blocks[i].addr
  <2>1. i \in DOMAIN blocks' /\ ~blocks'[i].free /\ ptr'[o] # blocks'[i].addr
    BY DEF Lost
  <2>2. i # Len(bs) + 1
    BY <2>1, <1>2, <1>3, <1>4
  <2>3. i \in DOMAIN bs /\ blocks'[i] = bs[i]
    BY <2>1, <2>2, <1>3
  <2> QED
    BY <2>1, <2>3 DEF Given
<1> QED
  BY <1>4, <1>5, NotLost

LEMMA FreedGiven ==
    ASSUME IInv, NEW o \in Owners, ptr[o] # 0
    PROVE  Given(o, Freed(At(ptr[o])))
<1> DEFINE f == At(ptr[o])
           m == Marked(blocks, f, TRUE)
<1>1. f \in DOMAIN blocks /\ blocks[f].addr = ptr[o] /\ blocks \in Seq(Block)
  BY AtHeld DEF IInv, TypeOK
<1>0. Freed(At(ptr[o])) = m
  BY DEF Freed
<1> HIDE DEF f
<1>2. /\ m \in Seq(Block) /\ DOMAIN m = DOMAIN blocks
      /\ \A k \in DOMAIN blocks : m[k].addr = blocks[k].addr /\ (k # f => m[k] = blocks[k])
  BY <1>1, MarkedType, Zenon
<1>3. m[f].free
  <2>1. m[f] = [blocks[f] EXCEPT !.free = TRUE]
    BY <1>1 DEF Marked
  <2>2. blocks[f] \in Block
    BY <1>1
  <2> QED
    BY <2>1, <2>2 DEF Block
<1> HIDE DEF m
<1>4. \A k \in DOMAIN blocks : k # f => ptr[o] # blocks[k].addr
  BY <1>1, Distinct
<1>5. \A k \in DOMAIN blocks : /\ m[k].addr = blocks[k].addr
                               /\ ~m[k].free => m[k] = blocks[k] /\ ptr[o] # blocks[k].addr
  BY <1>2, <1>3, <1>4, Zenon
<1> QED
  BY <1>0, <1>2, <1>5 DEF Given

\* HeapAlloc: whoever holds nothing has no block to be given back.
LEMMA NoneGiven ==
    ASSUME IInv, NEW o \in Owners, ptr[o] = 0
    PROVE  Given(o, blocks)
<1>1. \A k \in DOMAIN blocks : blocks[k].addr \in Nat /\ Page <= blocks[k].addr
  BY BlockType DEF IInv, BlocksCoherent
<1> QED
  BY <1>1 DEF Given, IInv, TypeOK, Page

\* No call but LocalFree and GlobalFree loses a block.
THEOREM NothingElseLeaks == Spec => OnlyLocalFreeLeaks
<1>1. IInv /\ [Next]_vars =>
        [(\A o \in Owners : ~LocalFree(o)) => Lost(blocks', ptr') \subseteq Lost(blocks, ptr)]_vars
  <2> SUFFICES ASSUME IInv, Next, \A o \in Owners : ~LocalFree(o)
               PROVE  Lost(blocks', ptr') \subseteq Lost(blocks, ptr)
    BY DEF vars
  <2>1. ASSUME NEW o \in Owners, NEW n \in Requests, HeapAlloc(o, n)
        PROVE  Lost(blocks', ptr') \subseteq Lost(blocks, ptr)
    <3>1. Given(o, blocks)
      BY <2>1, NoneGiven DEF HeapAlloc
    <3>2. CASE Exhausted(n)
      BY <3>2 DEF Exhausted
    <3> QED
      BY <2>1, <3>1, <3>2, ReuseLosesNothing, FreshLosesNothing DEF HeapAlloc
  <2>2. ASSUME NEW o \in Owners, NEW n \in Requests, HeapReAlloc(o, n)
        PROVE  Lost(blocks', ptr') \subseteq Lost(blocks, ptr)
    <3>1. Given(o, Moved(o))
      BY <2>2, FreedGiven DEF HeapReAlloc, Moved
    <3>2. CASE Exhausted(n)
      BY <3>2 DEF Exhausted
    <3>3. CASE Hold(o, ptr[o], n) /\ blocks' = blocks
      <4>1. ptr' = ptr
        BY <3>3 DEF Hold, IInv, TypeOK
      <4> QED
        BY <3>3, <4>1
    <3> QED
      BY <2>2, <3>1, <3>2, <3>3, ReuseLosesNothing, FreshLosesNothing DEF HeapReAlloc
  <2>3. ASSUME NEW o \in Owners, HeapFree(o)
        PROVE  Lost(blocks', ptr') \subseteq Lost(blocks, ptr)
    <3>1. Given(o, blocks') /\ ptr' = [ptr EXCEPT ![o] = 0]
      BY <2>3, FreedGiven DEF HeapFree, Hold
    <3>2. \A p \in Owners \ {o} : ptr'[p] = ptr[p]
      BY <3>1 DEF IInv, TypeOK
    <3>3. \A i \in Lost(blocks', ptr') : /\ i \in DOMAIN blocks /\ ~blocks[i].free
                                         /\ blocks'[i].addr = blocks[i].addr
                                         /\ ptr[o] # blocks[i].addr
      BY <3>1 DEF Given, Lost
    <3> QED
      BY <3>2, <3>3, NotLost
  <2> QED
    BY <2>1, <2>2, <2>3 DEF Next
<1> QED
  BY <1>1, Invariance, PTL DEF Spec, OnlyLocalFreeLeaks

-----------------------------------------------------------------------------
(* Numbers and recursion.                                                  *)

\* A set of numbers has a least one.
LEMMA LeastNumber ==
    ASSUME NEW T \in SUBSET Nat, T # {}
    PROVE  \E x \in T : \A y \in T : x <= y
<1>1. \E x \in T : \A y \in T : ~(<<y, x>> \in OpToRel(<, Nat))
  <2> HIDE DEF OpToRel
  <2> QED
    BY NatLessThanWellFounded, WFMin
<1>2. ASSUME NEW x \in Nat, NEW y \in Nat, ~(<<y, x>> \in OpToRel(<, Nat)) PROVE x <= y
  BY <1>2 DEF OpToRel
<1> QED
  BY <1>1, <1>2

\* Induction on a set of numbers.
LEMMA SetInduction ==
    ASSUME NEW S, 0 \in S, \A n \in Nat : n \in S => n + 1 \in S
    PROVE  Nat \subseteq S
<1> DEFINE T == Nat \ S
<1> SUFFICES ASSUME T # {} PROVE FALSE
  OBVIOUS
<1>1. T \in SUBSET Nat
  OBVIOUS
<1> HIDE DEF T
<1>2. PICK x \in T : \A y \in T : x <= y
  BY <1>1, LeastNumber
<1>3. x # 0 /\ x - 1 \in Nat
  BY <1>2 DEF T
<1>4. x - 1 \in S
  BY <1>2, <1>3 DEF T
<1> QED
  BY <1>2, <1>3, <1>4 DEF T

Recursive(g, s0, N, F) == g = [n \in 0..N |-> IF n = 0 THEN s0 ELSE F[<<g[n - 1], n>>]]

\* A function defined by recursion from 0 to N exists.
LEMMA RecursionExists ==
    ASSUME NEW S, NEW s0 \in S, NEW N \in Nat, NEW F,
           \A n \in 1..N : \A s \in S : F[<<s, n>>] \in S
    PROVE  \E g \in [0..N -> S] : Recursive(g, s0, N, F)
<1> DEFINE Upto(g, m) == /\ g \in [0..m -> S]
                         /\ \A n \in 0..m : g[n] = IF n = 0 THEN s0 ELSE F[<<g[n - 1], n>>]
           T == {m \in Nat : m <= N => \E g : Upto(g, m)}
<1>1. 0 \in T
  <2> DEFINE g == [n \in 0..0 |-> s0]
  <2>1. Upto(g, 0)
    OBVIOUS
  <2> QED
    BY <2>1
<1>2. ASSUME NEW m \in Nat, m \in T PROVE m + 1 \in T
  <2> SUFFICES ASSUME m + 1 <= N PROVE \E g : Upto(g, m + 1)
    OBVIOUS
  <2>1. PICK g : Upto(g, m)
    BY <1>2
  <2> DEFINE h == [n \in 0..(m + 1) |-> IF n = m + 1 THEN F[<<g[m], m + 1>>] ELSE g[n]]
  <2>2. F[<<g[m], m + 1>>] \in S
    BY <2>1
  <2>3. h \in [0..(m + 1) -> S]
    BY <2>1, <2>2
  <2>4. ASSUME NEW n \in 0..(m + 1) PROVE h[n] = IF n = 0 THEN s0 ELSE F[<<h[n - 1], n>>]
    <3>1. CASE n = m + 1
      BY <3>1, <2>1
    <3>2. CASE n # m + 1 /\ n # 0
      <4>1. n \in 0..m /\ n - 1 \in 0..(m + 1) /\ n - 1 # m + 1
        BY <3>2
      <4>2. h[n] = g[n] /\ h[n - 1] = g[n - 1]
        BY <3>2, <4>1
      <4> HIDE DEF h
      <4> QED
        BY <3>2, <4>1, <4>2, <2>1
    <3>3. CASE n = 0
      <4>1. 0 \in 0..m /\ 0 \in 0..(m + 1) /\ 0 # m + 1
        OBVIOUS
      <4>2. g[0] = s0
        BY <2>1, <4>1
      <4>3. h[0] = g[0]
        BY <4>1
      <4> HIDE DEF h
      <4> QED
        BY <3>3, <4>2, <4>3
    <3> QED
      BY <3>1, <3>2, <3>3
  <2> QED
    BY <2>3, <2>4
<1>3. N \in T
  <2> HIDE DEF T
  <2> QED
    BY <1>1, <1>2, SetInduction
<1>4. PICK g : Upto(g, N)
  BY <1>3
<1>5. Recursive(g, s0, N, F)
  BY <1>4 DEF Recursive
<1> QED
  BY <1>4, <1>5

\* FlattenSeq joins the chunks one after the other.
LEMMA FlattenJoins ==
    ASSUME NEW D, NEW s \in Seq(Seq(D)), s # <<>>
    PROVE  \E f \in [1..Len(s) -> Seq(D)] :
              /\ f[1] = s[1]
              /\ \A i \in 2..Len(s) : f[i] = f[i - 1] \o s[i]
              /\ FlattenSeq(s) = f[Len(s)]
<1>1. PICK N \in Nat \ {0} : N = Len(s) /\ \A i \in 1..N : s[i] \in Seq(D)
  OBVIOUS
<1> DEFINE F == [q \in Seq(D) \X (1..N) |-> IF q[2] = 1 THEN s[q[2]] ELSE q[1] \o s[q[2]]]
           body(g) == [i \in 1..N |-> IF i = 1 THEN s[i] ELSE g[i - 1] \o s[i]]
           ch == CHOOSE g : g = body(g)
<1>2. <<>> \in Seq(D) /\ N \in Nat /\ \A n \in 1..N : \A q \in Seq(D) : F[<<q, n>>] \in Seq(D)
  <2>1. ASSUME NEW n \in 1..N, NEW q \in Seq(D) PROVE F[<<q, n>>] \in Seq(D)
    <3>1. F[<<q, n>>] = IF n = 1 THEN s[n] ELSE q \o s[n]
      OBVIOUS
    <3>2. s[n] \in Seq(D) /\ q \o s[n] \in Seq(D)
      BY <1>1, ConcatProperties
    <3> HIDE DEF F
    <3> QED
      BY <3>1, <3>2
  <2> HIDE DEF F
  <2> QED
    BY <2>1
<1>3. PICK g \in [0..N -> Seq(D)] : Recursive(g, <<>>, N, F)
  <2> HIDE DEF F
  <2> QED
    BY <1>2, RecursionExists
<1> DEFINE h == [i \in 1..N |-> g[i]]
<1>4. \A n \in 1..N : g[n] = IF n = 1 THEN s[n] ELSE g[n - 1] \o s[n]
  <2> TAKE n \in 1..N
  <2>1. g[n] = F[<<g[n - 1], n>>] /\ g[n - 1] \in Seq(D)
    <3>1. g = [m \in 0..N |-> IF m = 0 THEN <<>> ELSE F[<<g[m - 1], m>>]]
      BY <1>3 DEF Recursive
    <3> HIDE DEF F
    <3>2. n \in 0..N /\ n # 0 /\ n - 1 \in 0..N
      OBVIOUS
    <3> QED
      BY <1>3, <3>1, <3>2
  <2> QED
    BY <2>1
<1>5. h = body(h)
  <2>1. \A n \in 1..N : n # 1 => n - 1 \in 1..N
    OBVIOUS
  <2> QED
    BY <1>4, <2>1
<1>6. ch = body(ch)
  <2> HIDE DEF body, h
  <2> QED
    BY <1>5
<1>7. FlattenSeq(s) = ch[N]
  BY <1>1 DEF FlattenSeq
<1> HIDE DEF ch
<1>8. \A n \in 1..N : ch[n] = IF n = 1 THEN s[n] ELSE ch[n - 1] \o s[n]
  BY <1>6
<1>9. \A n \in Nat : n \in 1..N => ch[n] \in Seq(D)
  <2> DEFINE T == {n \in Nat : n \in 1..N => ch[n] \in Seq(D)}
  <2>1. 0 \in T
    OBVIOUS
  <2>2. ASSUME NEW n \in Nat, n \in T PROVE n + 1 \in T
    <3> SUFFICES ASSUME n + 1 \in 1..N PROVE ch[n + 1] \in Seq(D)
      OBVIOUS
    <3>1. CASE n = 0
      BY <1>1, <1>8, <3>1
    <3>2. CASE n # 0
      <4>1. n \in 1..N /\ ch[n] \in Seq(D) /\ s[n + 1] \in Seq(D) /\ (n + 1) - 1 = n
        BY <1>1, <2>2, <3>2
      <4>2. ch[n + 1] = ch[n] \o s[n + 1]
        <5>1. n + 1 \in 1..N /\ n + 1 # 1
          BY <3>2
        <5> QED
          BY <1>8, <4>1, <5>1
      <4> QED
        BY <4>1, <4>2, ConcatProperties
    <3> QED
      BY <3>1, <3>2
  <2> HIDE DEF T
  <2>3. Nat \subseteq T
    BY <2>1, <2>2, SetInduction
  <2> QED
    BY <2>3 DEF T
<1>10. ch \in [1..N -> Seq(D)]
  <2>1. ch = [n \in 1..N |-> ch[n]]
    <3> HIDE DEF body
    <3>1. DOMAIN body(ch) = 1..N /\ body(ch) = [n \in 1..N |-> body(ch)[n]]
      BY DEF body
    <3> QED
      BY <1>6, <3>1
  <2> QED
    BY <1>9, <2>1
<1>11. ch[1] = s[1] /\ \A i \in 2..N : ch[i] = ch[i - 1] \o s[i]
  <2>1. 1 \in 1..N /\ \A i \in 2..N : i \in 1..N /\ i # 1
    OBVIOUS
  <2> QED
    BY <1>8, <2>1
<1> QED
  BY <1>1, <1>7, <1>10, <1>11

-----------------------------------------------------------------------------
(* The table is sorted.                                                    *)

\* A table of regions, and one in the order of their bases.
Table == {r \in RegionType : End(r) <= Top}
InOrder(rs) == \A j, k \in DOMAIN rs : j < k => rs[j].base <= rs[k].base

UpTo(rs, i) == {j \in DOMAIN rs : Before(rs, j, i)}
Rank(rs, i) == Cardinality(UpTo(rs, i))

LEMMA Regions ==
    ASSUME NEW rs \in Seq(RegionType), NEW i \in DOMAIN rs, MemoryAssumption
    PROVE  /\ i \in 1..Len(rs) /\ rs[i] \in RegionType
           /\ rs[i].base \in Nat /\ rs[i].size \in Nat /\ End(rs[i]) \in Nat
           /\ rs[i].protect \subseteq {"R", "W", "X", "G"}
<1>1. i \in 1..Len(rs) /\ rs[i] \in RegionType /\ Top \in Nat
  BY DEF MemoryAssumption
<1> QED
  BY <1>1 DEF RegionType, End

\* Before is a total order on the places of a table.
LEMMA BeforeOrders ==
    ASSUME NEW rs \in Seq(RegionType), MemoryAssumption,
           NEW i \in DOMAIN rs, NEW j \in DOMAIN rs, NEW k \in DOMAIN rs
    PROVE  /\ Before(rs, i, i)
           /\ Before(rs, i, j) \/ Before(rs, j, i)
           /\ Before(rs, i, j) /\ Before(rs, j, i) => i = j
           /\ Before(rs, i, j) /\ Before(rs, j, k) => Before(rs, i, k)
<1>1. /\ rs[i].base \in Nat /\ rs[j].base \in Nat /\ rs[k].base \in Nat
      /\ i \in Nat /\ j \in Nat /\ k \in Nat
  BY Regions
<1> QED
  BY <1>1 DEF Before

LEMMA RankBounds ==
    ASSUME NEW rs \in Seq(RegionType), MemoryAssumption, NEW i \in DOMAIN rs
    PROVE  IsFiniteSet(UpTo(rs, i)) /\ Rank(rs, i) \in 1..Len(rs)
<1>1. DOMAIN rs = 1..Len(rs) /\ Len(rs) \in Nat
  OBVIOUS
<1>2. IsFiniteSet(1..Len(rs)) /\ Cardinality(1..Len(rs)) = Len(rs)
  <2> DEFINE N == Len(rs)
  <2>1. N \in Int /\ 1 \in Int /\ (IF 1 > N THEN 0 ELSE N - 1 + 1) = N
    BY <1>1
  <2> HIDE DEF N
  <2>2. IsFiniteSet(1..N) /\ Cardinality(1..N) = N
    BY <2>1, FS_Interval
  <2> QED
    BY <2>2 DEF N
<1>3. UpTo(rs, i) \in SUBSET (1..Len(rs)) /\ {i} \in SUBSET UpTo(rs, i)
  BY <1>1, BeforeOrders DEF UpTo
<1>4. IsFiniteSet(UpTo(rs, i)) /\ Rank(rs, i) <= Len(rs)
  BY <1>2, <1>3, FS_Subset DEF Rank
<1>5. Cardinality({i}) <= Rank(rs, i) /\ Cardinality({i}) = 1 /\ Rank(rs, i) \in Nat
  BY <1>3, <1>4, FS_Subset, FS_Singleton, FS_CardinalityType DEF Rank
<1> QED
  BY <1>1, <1>4, <1>5

LEMMA RankOrder ==
    ASSUME NEW rs \in Seq(RegionType), MemoryAssumption, NEW i \in DOMAIN rs, NEW j \in DOMAIN rs,
           Before(rs, i, j), i # j
    PROVE  Rank(rs, i) < Rank(rs, j)
<1>1. UpTo(rs, i) \cup {j} \in SUBSET UpTo(rs, j)
  BY BeforeOrders DEF UpTo
<1>2. j \notin UpTo(rs, i)
  BY BeforeOrders DEF UpTo
<1>3. /\ IsFiniteSet(UpTo(rs, i)) /\ IsFiniteSet(UpTo(rs, j))
      /\ Rank(rs, i) \in Nat /\ Rank(rs, j) \in Nat
  BY RankBounds
<1>4. Cardinality(UpTo(rs, i) \cup {j}) = Rank(rs, i) + 1
  BY <1>2, <1>3, FS_AddElement DEF Rank
<1>5. Cardinality(UpTo(rs, i) \cup {j}) <= Rank(rs, j)
  BY <1>1, <1>3, FS_Subset DEF Rank
<1> QED
  BY <1>3, <1>4, <1>5

\* Every rank is some place's: they are all different, and there are as many as places.
LEMMA EveryRank ==
    ASSUME NEW rs \in Seq(RegionType), MemoryAssumption, NEW k \in 1..Len(rs)
    PROVE  \E i \in DOMAIN rs : Rank(rs, i) = k
<1> SUFFICES ASSUME \A i \in DOMAIN rs : Rank(rs, i) # k PROVE FALSE
  OBVIOUS
<1> DEFINE S == 1..Len(rs)
           T == S \ {k}
           f == [i \in S |-> Rank(rs, i)]
<1>1. DOMAIN rs = S /\ Len(rs) \in Nat
  OBVIOUS
<1>2. IsFiniteSet(S) /\ Cardinality(S) = Len(rs)
  BY <1>1, FS_Interval, SMTT(20)
<1>3. IsFiniteSet(T) /\ Cardinality(T) = Len(rs) - 1
  <2>1. k \in S
    OBVIOUS
  <2> HIDE DEF S
  <2> QED
    BY <1>2, <2>1, FS_RemoveElement
<1>4. f \in [S -> T]
  BY <1>1, RankBounds
<1>5. PICK x \in S, y \in S : x # y /\ f[x] = f[y]
  <2>1. Cardinality(T) < Cardinality(S)
    BY <1>1, <1>2, <1>3
  <2> HIDE DEF S, T, f
  <2> QED
    BY <1>2, <1>3, <1>4, <2>1, FS_PigeonHole
<1>6. Rank(rs, x) = Rank(rs, y) /\ x \in DOMAIN rs /\ y \in DOMAIN rs /\ Rank(rs, x) \in Nat
  BY <1>1, <1>5, RankBounds
<1>7. Before(rs, x, y) \/ Before(rs, y, x)
  BY <1>6, BeforeOrders
<1>8. Rank(rs, x) < Rank(rs, y) \/ Rank(rs, y) < Rank(rs, x)
  BY <1>5, <1>6, <1>7, RankOrder
<1> QED
  BY <1>6, <1>8

\* The sorted table has every region once, in the order of Before.
LEMMA SortPermutes ==
    ASSUME NEW rs \in Seq(RegionType), MemoryAssumption
    PROVE  \E p \in [1..Len(rs) -> DOMAIN rs] :
              /\ SortRegions(rs) = [k \in 1..Len(rs) |-> rs[p[k]]]
              /\ \A i \in DOMAIN rs : \E k \in 1..Len(rs) : p[k] = i
              /\ \A j, k \in 1..Len(rs) : j < k => Before(rs, p[j], p[k]) /\ p[j] # p[k]
<1> DEFINE N == Len(rs)
           p == [k \in 1..N |-> CHOOSE i \in DOMAIN rs : Rank(rs, i) = k]
<1>1. DOMAIN rs = 1..N /\ N \in Nat
  OBVIOUS
<1>2. \A k \in 1..N : p[k] \in DOMAIN rs /\ Rank(rs, p[k]) = k
  BY EveryRank
<1>3. SortRegions(rs) = [k \in 1..N |-> rs[p[k]]]
  BY <1>1 DEF SortRegions, Rank, UpTo
<1>4. p \in [1..N -> DOMAIN rs]
  BY <1>2
<1> HIDE DEF p
<1>5. ASSUME NEW i \in DOMAIN rs PROVE \E k \in 1..N : p[k] = i
  <2>1. Rank(rs, i) \in 1..N
    BY RankBounds
  <2>2. PICK k \in 1..N : k = Rank(rs, i)
    BY <2>1
  <2>3. p[k] \in DOMAIN rs /\ Rank(rs, p[k]) = Rank(rs, i)
    BY <1>2, <2>2
  <2>4. Before(rs, p[k], i) \/ Before(rs, i, p[k])
    BY <2>3, BeforeOrders
  <2>5. p[k] # i => Rank(rs, p[k]) < Rank(rs, i) \/ Rank(rs, i) < Rank(rs, p[k])
    BY <2>3, <2>4, RankOrder
  <2> QED
    BY <2>1, <2>3, <2>5
<1>6. ASSUME NEW j \in 1..N, NEW k \in 1..N, j < k PROVE Before(rs, p[j], p[k]) /\ p[j] # p[k]
  <2>1. p[j] \in DOMAIN rs /\ p[k] \in DOMAIN rs /\ Rank(rs, p[j]) = j /\ Rank(rs, p[k]) = k
    BY <1>2
  <2>2. p[j] # p[k] /\ ~(Rank(rs, p[k]) < Rank(rs, p[j]))
    BY <2>1, <1>6
  <2>3. Before(rs, p[j], p[k]) \/ Before(rs, p[k], p[j])
    BY <2>1, BeforeOrders
  <2> QED
    BY <2>1, <2>2, <2>3, RankOrder
<1> QED
  BY <1>3, <1>4, <1>5, <1>6

LEMMA SortKeeps ==
    ASSUME NEW rs \in Seq(Table), MemoryAssumption
    PROVE  SortRegions(rs) \in Seq(Table) /\ InOrder(SortRegions(rs))
<1>1. rs \in Seq(RegionType) /\ Len(rs) \in Nat /\ \A i \in DOMAIN rs : rs[i] \in Table
  BY DEF Table
<1>2. PICK p \in [1..Len(rs) -> DOMAIN rs] :
              /\ SortRegions(rs) = [k \in 1..Len(rs) |-> rs[p[k]]]
              /\ \A j, k \in 1..Len(rs) : j < k => Before(rs, p[j], p[k])
  BY <1>1, SortPermutes
<1>3. SortRegions(rs) \in [1..Len(rs) -> Table]
  BY <1>1, <1>2
<1>4. SortRegions(rs) \in Seq(Table) /\ DOMAIN SortRegions(rs) = 1..Len(rs)
  BY <1>1, <1>3, SeqDef
<1>5. \A i \in DOMAIN rs : rs[i].base \in Nat
  BY <1>1, Regions
<1>6. ASSUME NEW j \in 1..Len(rs), NEW k \in 1..Len(rs), j < k
      PROVE  SortRegions(rs)[j].base <= SortRegions(rs)[k].base
  <2>1. Before(rs, p[j], p[k]) /\ p[j] \in DOMAIN rs /\ p[k] \in DOMAIN rs
    BY <1>2, <1>6
  <2>2. SortRegions(rs)[j] = rs[p[j]] /\ SortRegions(rs)[k] = rs[p[k]]
    BY <1>2
  <2>3. rs[p[j]].base <= rs[p[k]].base
    BY <2>1, <1>5 DEF Before
  <2> QED
    BY <2>2, <2>3
<1> QED
  BY <1>4, <1>6 DEF InOrder

-----------------------------------------------------------------------------
(* What the guest sees.                                                    *)

Holds(rs, a) == \E i \in DOMAIN rs : In(a, rs[i])

\* find answers the first place that holds the address, 0 if there is none.
LEMMA FindsFirst ==
    ASSUME NEW rs \in Seq(RegionType), NEW a \in Nat
    PROVE  IF Holds(rs, a)
           THEN /\ Find(rs, a) \in DOMAIN rs /\ Find(rs, a) # 0 /\ In(a, rs[Find(rs, a)])
                /\ \A i \in DOMAIN rs : In(a, rs[i]) => Find(rs, a) <= i
           ELSE Find(rs, a) = 0
<1> DEFINE I == {i \in 1..Len(rs) : In(a, rs[i])}
<1>1. DOMAIN rs = 1..Len(rs) /\ Len(rs) \in Nat
  OBVIOUS
<1>2. Find(rs, a) = IF I # {} THEN Min(I) ELSE 0
  BY DEF Find, SelectInSeq
<1>3. Holds(rs, a) <=> I # {}
  BY <1>1 DEF Holds
<1>4. ASSUME I # {} PROVE Min(I) \in I /\ \A i \in I : Min(I) <= i
  <2>1. I \in SUBSET Nat
    BY <1>1
  <2> HIDE DEF I
  <2>2. \E x \in I : \A y \in I : x <= y
    BY <1>4, <2>1, LeastNumber
  <2> QED
    BY <2>2 DEF Min
<1>5. CASE Holds(rs, a)
  <2>1. Find(rs, a) = Min(I) /\ Min(I) \in I /\ \A i \in I : Min(I) <= i
    BY <1>2, <1>3, <1>4, <1>5
  <2> QED
    BY <1>1, <1>5, <2>1
<1>6. CASE ~Holds(rs, a)
  BY <1>2, <1>3, <1>6
<1> QED
  BY <1>5, <1>6

\* The first of a table's places, in the order of the sort, that hold an address.
Wins(rs, a, i) ==
    /\ i \in DOMAIN rs /\ In(a, rs[i])
    /\ \A j \in DOMAIN rs : In(a, rs[j]) => Before(rs, i, j)

Free == [state |-> "free", protect |-> {}]
Shown(r) == [state |-> r.state, protect |-> r.protect]

LEMMA ViewOf ==
    ASSUME NEW rs \in Seq(RegionType), NEW a \in Nat
    PROVE  /\ ~Holds(rs, a) => View(rs, a) = Free
           /\ \A i \in DOMAIN rs : In(a, rs[i]) /\ (\A j \in DOMAIN rs : In(a, rs[j]) => i <= j) =>
                View(rs, a) = Shown(rs[i])
<1>1. ~Holds(rs, a) => View(rs, a) = Free
  BY FindsFirst DEF View, Free
<1>2. ASSUME NEW i \in DOMAIN rs, In(a, rs[i]), \A j \in DOMAIN rs : In(a, rs[j]) => i <= j
      PROVE  View(rs, a) = Shown(rs[i])
  <2>1. Holds(rs, a) /\ DOMAIN rs = 1..Len(rs) /\ Len(rs) \in Nat
    BY <1>2 DEF Holds
  <2>2. Find(rs, a) \in DOMAIN rs /\ Find(rs, a) # 0 /\ i <= Find(rs, a) /\ Find(rs, a) <= i
    BY <1>2, <2>1, FindsFirst
  <2>3. Find(rs, a) = i
    BY <2>1, <2>2
  <2> QED
    BY <2>2, <2>3 DEF View, Shown
<1> QED
  BY <1>1, <1>2

\* After the sort the guest sees the region that wins.
LEMMA SortShows ==
    ASSUME NEW rs \in Seq(Table), MemoryAssumption, NEW a \in Nat
    PROVE  /\ ~Holds(rs, a) => View(SortRegions(rs), a) = Free
           /\ \A i \in DOMAIN rs : Wins(rs, a, i) => View(SortRegions(rs), a) = Shown(rs[i])
<1> DEFINE t == SortRegions(rs)
<1>1. rs \in Seq(RegionType) /\ t \in Seq(RegionType)
  BY SortKeeps DEF Table
<1>2. PICK p \in [1..Len(rs) -> DOMAIN rs] :
              /\ t = [k \in 1..Len(rs) |-> rs[p[k]]]
              /\ \A i \in DOMAIN rs : \E k \in 1..Len(rs) : p[k] = i
              /\ \A j, k \in 1..Len(rs) : j < k => Before(rs, p[j], p[k]) /\ p[j] # p[k]
  BY <1>1, SortPermutes
<1>3. DOMAIN t = 1..Len(rs) /\ Len(rs) \in Nat /\ \A k \in 1..Len(rs) : t[k] = rs[p[k]]
  BY <1>2
<1> HIDE DEF t
<1>4. ~Holds(rs, a) => ~Holds(t, a)
  BY <1>2, <1>3 DEF Holds
<1>5. ASSUME NEW i \in DOMAIN rs, Wins(rs, a, i) PROVE View(t, a) = Shown(rs[i])
  <2>1. PICK k \in 1..Len(rs) : p[k] = i
    BY <1>2
  <2>2. In(a, t[k]) /\ t[k] = rs[i] /\ k \in DOMAIN t
    BY <1>3, <1>5, <2>1 DEF Wins
  <2>3. ASSUME NEW j \in DOMAIN t, In(a, t[j]) PROVE k <= j
    <3>1. j \in 1..Len(rs) /\ t[j] = rs[p[j]] /\ p[j] \in DOMAIN rs
      BY <1>3
    <3>2. Before(rs, i, p[j])
      BY <1>5, <2>3, <3>1 DEF Wins
    <3>3. j < k => Before(rs, p[j], i) /\ p[j] # i
      BY <1>2, <2>1, <3>1
    <3>4. j < k => p[j] = i
      BY <1>1, <3>1, <3>2, <3>3, BeforeOrders
    <3> QED
      BY <3>1, <3>3, <3>4
  <2> QED
    BY <1>1, <2>2, <2>3, ViewOf
<1> QED
  BY <1>1, <1>4, <1>5, ViewOf DEF t

-----------------------------------------------------------------------------
(* Tables put together from pieces.                                        *)

LEMMA Joined ==
    ASSUME NEW s \in Seq(Table), NEW t \in Seq(Table)
    PROVE  /\ s \o t \in Seq(Table) /\ DOMAIN (s \o t) = 1..(Len(s) + Len(t))
           /\ DOMAIN s = 1..Len(s) /\ DOMAIN t = 1..Len(t) /\ Len(s) \in Nat /\ Len(t) \in Nat
           /\ \A i \in DOMAIN s : i \in DOMAIN (s \o t) /\ (s \o t)[i] = s[i]
           /\ \A q \in DOMAIN t : /\ Len(s) + q \in DOMAIN (s \o t)
                                  /\ (s \o t)[Len(s) + q] = t[q]
           /\ \A i \in DOMAIN (s \o t) : i \notin DOMAIN s => i - Len(s) \in DOMAIN t
<1>1. s \o t \in Seq(Table) /\ Len(s \o t) = Len(s) + Len(t) /\ Len(s) \in Nat /\ Len(t) \in Nat
  BY ConcatProperties
<1>2. \A i \in 1..(Len(s) + Len(t)) : (s \o t)[i] = IF i <= Len(s) THEN s[i] ELSE t[i - Len(s)]
  BY ConcatProperties
<1>3. DOMAIN (s \o t) = 1..(Len(s) + Len(t)) /\ DOMAIN s = 1..Len(s) /\ DOMAIN t = 1..Len(t)
  BY <1>1
<1>4. ASSUME NEW i \in 1..Len(s) PROVE i \in 1..(Len(s) + Len(t)) /\ (s \o t)[i] = s[i]
  BY <1>1, <1>2
<1>5. ASSUME NEW q \in 1..Len(t)
      PROVE  Len(s) + q \in 1..(Len(s) + Len(t)) /\ (s \o t)[Len(s) + q] = t[q]
  <2>1. Len(s) + q \in 1..(Len(s) + Len(t)) /\ ~(Len(s) + q <= Len(s)) /\ (Len(s) + q) - Len(s) = q
    BY <1>1
  <2> QED
    BY <1>2, <2>1
<1>6. \A i \in 1..(Len(s) + Len(t)) : i \notin 1..Len(s) => i - Len(s) \in 1..Len(t)
  BY <1>1
<1> QED
  BY <1>1, <1>3, <1>4, <1>5, <1>6, Zenon

\* Nothing comes of nothing.
LEMMA JoinNone ==
    ASSUME NEW s \in Seq(Table), NEW t \in Seq(Table), NEW a, ~Holds(s, a), ~Holds(t, a)
    PROVE  ~Holds(s \o t, a)
<1> SUFFICES ASSUME NEW i \in DOMAIN (s \o t), In(a, (s \o t)[i]) PROVE FALSE
  BY DEF Holds
<1>1. CASE i \in DOMAIN s
  BY <1>1, Joined DEF Holds
<1>2. CASE i \notin DOMAIN s
  <2>1. i - Len(s) \in DOMAIN t /\ Len(s) + (i - Len(s)) = i
    BY <1>2, Joined
  <2>2. (s \o t)[i] = t[i - Len(s)]
    BY <2>1, Joined
  <2> QED
    BY <2>1, <2>2 DEF Holds
<1> QED
  BY <1>1, <1>2

\* Who wins in a table still wins when regions are added that do not begin before it.
NotBefore(t, a, b) == \A q \in DOMAIN t : In(a, t[q]) => b <= t[q].base

LEMMA JoinKeeps ==
    ASSUME NEW s \in Seq(Table), NEW t \in Seq(Table), NEW a, NEW w, Wins(s, a, w),
           NotBefore(t, a, s[w].base), MemoryAssumption
    PROVE  Wins(s \o t, a, w) /\ (s \o t)[w] = s[w]
<1>1. w \in DOMAIN (s \o t) /\ (s \o t)[w] = s[w] /\ w \in DOMAIN s /\ w \in 1..Len(s) /\ In(a, s[w])
  BY Joined DEF Wins
<1>2. ASSUME NEW j \in DOMAIN (s \o t), In(a, (s \o t)[j]) PROVE Before(s \o t, w, j)
  <2>1. CASE j \in DOMAIN s
    <3>1. (s \o t)[j] = s[j] /\ Before(s, w, j)
      BY <1>2, <2>1, Joined DEF Wins
    <3> QED
      BY <1>1, <3>1 DEF Before
  <2>2. CASE j \notin DOMAIN s
    <3>1. j - Len(s) \in DOMAIN t /\ Len(s) + (j - Len(s)) = j /\ j \in Nat /\ ~(j <= Len(s))
      BY <2>2, Joined
    <3>2. (s \o t)[j] = t[j - Len(s)]
      BY <3>1, Joined
    <3>3. s[w].base <= (s \o t)[j].base /\ w <= j
      BY <1>1, <1>2, <3>1, <3>2, Joined DEF NotBefore
    <3>4. s[w].base \in Nat /\ (s \o t)[j].base \in Nat
      <4>1. s \in Seq(RegionType) /\ s \o t \in Seq(RegionType)
        BY Joined DEF Table
      <4> QED
        BY <1>1, <4>1, Regions
    <3> QED
      BY <1>1, <3>3, <3>4 DEF Before
  <2> QED
    BY <2>1, <2>2
<1> QED
  BY <1>1, <1>2 DEF Wins

\* The first of equals wins among regions added to ones that do not hold the address.
AllShow(t, a, b, v) == \A q \in DOMAIN t : In(a, t[q]) => t[q].base = b /\ Shown(t[q]) = v
Winner(t, a, b, v) == \E w \in DOMAIN t : Wins(t, a, w) /\ t[w].base = b /\ Shown(t[w]) = v

LEMMA JoinFirst ==
    ASSUME NEW s \in Seq(Table), NEW t \in Seq(Table), NEW a, ~Holds(s, a), Holds(t, a), NEW b, NEW v,
           AllShow(t, a, b, v)
    PROVE  Winner(s \o t, a, b, v)
<1> DEFINE I == {q \in DOMAIN t : In(a, t[q])}
<1>1. I \in SUBSET Nat /\ I # {}
  BY Joined DEF Holds
<1>2. PICK q \in I : \A x \in I : q <= x
  <2> HIDE DEF I
  <2> QED
    BY <1>1, LeastNumber
<1> DEFINE w == Len(s) + q
<1>3. w \in DOMAIN (s \o t) /\ (s \o t)[w] = t[q] /\ t[q].base = b /\ Shown(t[q]) = v /\ In(a, t[q])
  BY <1>2, Joined DEF AllShow
<1>4. ASSUME NEW j \in DOMAIN (s \o t), In(a, (s \o t)[j]) PROVE Before(s \o t, w, j)
  <2>1. j \notin DOMAIN s
    BY <1>4, Joined DEF Holds
  <2>2. j - Len(s) \in DOMAIN t /\ Len(s) + (j - Len(s)) = j /\ j \in Nat
    BY <2>1, Joined
  <2>3. (s \o t)[j] = t[j - Len(s)]
    BY <2>2, Joined
  <2>4. j - Len(s) \in I /\ (s \o t)[j].base = b
    BY <1>4, <2>2, <2>3 DEF AllShow
  <2>5. q <= j - Len(s) /\ q \in Nat /\ Len(s) \in Nat
    BY <1>1, <1>2, <2>4, Joined
  <2>6. w <= j
    BY <2>2, <2>5
  <2> QED
    BY <1>3, <2>4, <2>6 DEF Before
<1> HIDE DEF w
<1> QED
  BY <1>3, <1>4 DEF Wins, Winner

\* The pieces of the n-th region that hold the address begin at key[n] and show val[n].
Labelled(ps, a, key, val) == \A n \in DOMAIN ps : AllShow(ps[n], a, key[n], val[n])
Ranked(ps, a, key) ==
    \A m, n \in DOMAIN ps : m <= n /\ Holds(ps[m], a) /\ Holds(ps[n], a) => key[m] <= key[n]

\* What the pieces show once they are sorted: if those that hold the address begin in the order
\* of the regions they are from, it is what the first region with any shows.
LEMMA PiecesShow ==
    ASSUME MemoryAssumption, NEW ps \in Seq(Seq(Table)), NEW a \in Nat, NEW key, NEW val,
           Labelled(ps, a, key, val), Ranked(ps, a, key)
    PROVE  /\ FlattenSeq(ps) \in Seq(Table)
           /\ (\A n \in DOMAIN ps : ~Holds(ps[n], a)) => View(SortRegions(FlattenSeq(ps)), a) = Free
           /\ \A m \in DOMAIN ps :
                 Holds(ps[m], a) /\ (\A n \in DOMAIN ps : n < m => ~Holds(ps[n], a)) =>
                    View(SortRegions(FlattenSeq(ps)), a) = val[m]
<1>1. CASE ps = <<>>
  <2>1. FlattenSeq(ps) = <<>> /\ DOMAIN ps = {} /\ <<>> \in Seq(Table) /\ DOMAIN <<>> = {}
    BY <1>1 DEF FlattenSeq
  <2>2. ~Holds(<<>>, a)
    BY <2>1 DEF Holds
  <2> QED
    BY <2>1, <2>2, SortShows
<1>2. CASE ps # <<>>
  <2>0. PICK N \in Nat \ {0} : N = Len(ps)
    BY <1>2
  <2>1. DOMAIN ps = 1..N /\ \A n \in 1..N : ps[n] \in Seq(Table)
    BY <2>0
  <2>2. PICK f \in [1..Len(ps) -> Seq(Table)] :
              /\ f[1] = ps[1]
              /\ \A i \in 2..Len(ps) : f[i] = f[i - 1] \o ps[i]
              /\ FlattenSeq(ps) = f[Len(ps)]
    BY <1>2, FlattenJoins
  <2>3. FlattenSeq(ps) = f[N] /\ \A n \in 1..N : f[n] \in Seq(Table)
    BY <2>2, <2>0
  <2>4. ASSUME NEW n \in 1..N, n # 1 PROVE n - 1 \in 1..N /\ f[n] = f[n - 1] \o ps[n]
    <3>1. n - 1 \in 1..N /\ n \in 2..N
      BY <2>4
    <3> QED
      BY <2>0, <2>2, <3>1
  <2> DEFINE Has(n) == Holds(ps[n], a)
             Wanted(n, m) == Winner(f[n], a, key[m], val[m])
  <2>5. ASSUME NEW m \in Nat, \A n \in 1..N : n < m => ~Has(n)
        PROVE  \A n \in 1..N : n < m => ~Holds(f[n], a)
    <3> DEFINE T == {n \in Nat : n \in 1..N /\ n < m => ~Holds(f[n], a)}
    <3>1. 0 \in T
      OBVIOUS
    <3>2. ASSUME NEW n \in Nat, n \in T PROVE n + 1 \in T
      <4> SUFFICES ASSUME n + 1 \in 1..N, n + 1 < m PROVE ~Holds(f[n + 1], a)
        OBVIOUS
      <4>1. ~Holds(ps[n + 1], a)
        BY <2>5
      <4>2. CASE n = 0
        BY <2>2, <4>1, <4>2
      <4>3. CASE n # 0
        <5>1. n \in 1..N /\ n < m /\ n + 1 # 1 /\ (n + 1) - 1 = n
          BY <4>3
        <5>2. ~Holds(f[n], a) /\ f[n] \in Seq(Table) /\ ps[n + 1] \in Seq(Table)
          BY <2>1, <2>3, <3>2, <5>1
        <5>3. f[n + 1] = f[n] \o ps[n + 1]
          BY <2>4, <5>1
        <5> QED
          BY <4>1, <5>2, <5>3, JoinNone
      <4> QED
        BY <4>2, <4>3
    <3> HIDE DEF T
    <3>3. Nat \subseteq T
      BY <3>1, <3>2, SetInduction
    <3> QED
      BY <3>3 DEF T
  <2>6. ASSUME NEW m \in 1..N, Has(m), \A n \in 1..N : n < m => ~Has(n) PROVE Wanted(m, m)
    <3>1. AllShow(ps[m], a, key[m], val[m])
      BY <2>1 DEF Labelled
    <3>2. CASE m = 1
      <4>1. PICK e \in Seq(Table) : ~Holds(e, a) /\ e \o ps[m] = ps[m] /\ ps[m] \in Seq(Table)
        <5>1. <<>> \in Seq(Table) /\ ~Holds(<<>>, a) /\ <<>> \o ps[m] = ps[m] /\ ps[m] \in Seq(Table)
          BY <2>1, ConcatEmptySeq DEF Holds
        <5> QED
          BY <5>1, Zenon
      <4>2. f[m] = e \o ps[m]
        BY <2>2, <3>2, <4>1
      <4>3. PICK x : x = ps[m]
        OBVIOUS
      <4>4. /\ x \in Seq(Table) /\ e \in Seq(Table) /\ ~Holds(e, a) /\ Holds(x, a)
            /\ AllShow(x, a, key[m], val[m])
        BY <2>6, <3>1, <4>1, <4>3
      <4>5. Winner(e \o x, a, key[m], val[m])
        BY <4>4, JoinFirst
      <4> QED
        BY <4>2, <4>3, <4>5
    <3>3. CASE m # 1
      <4>1. m - 1 \in 1..N /\ f[m] = f[m - 1] \o ps[m]
        BY <2>4, <3>3
      <4>2. f[m - 1] \in Seq(Table) /\ ps[m] \in Seq(Table)
        BY <2>1, <2>3, <4>1
      <4>3. ~Holds(f[m - 1], a)
        <5>1. m \in Nat /\ m - 1 < m
          OBVIOUS
        <5> QED
          BY <2>5, <2>6, <4>1, <5>1
      <4> QED
        BY <2>6, <3>1, <4>1, <4>2, <4>3, JoinFirst
    <3> QED
      BY <3>2, <3>3
  <2>7. ASSUME NEW m \in 1..N, Has(m), \A n \in 1..N : n < m => ~Has(n) PROVE Wanted(N, m)
    <3> DEFINE T == {n \in Nat : n \in m..N => Wanted(n, m)}
    <3>1. 0 \in T
      OBVIOUS
    <3>2. ASSUME NEW n \in Nat, n \in T PROVE n + 1 \in T
      <4> SUFFICES ASSUME n + 1 \in m..N PROVE Wanted(n + 1, m)
        BY DEF T
      <4>1. CASE n + 1 = m
        BY <2>6, <2>7, <4>1
      <4>2. CASE n + 1 # m
        <5>1. n \in m..N /\ n \in 1..N /\ n + 1 \in 1..N /\ n + 1 # 1 /\ (n + 1) - 1 = n /\ m <= n + 1
          BY <4>2
        <5>2. PICK w \in DOMAIN f[n] :
                 Wins(f[n], a, w) /\ f[n][w].base = key[m] /\ Shown(f[n][w]) = val[m]
          BY <3>2, <5>1 DEF Winner
        <5>3. f[n + 1] = f[n] \o ps[n + 1] /\ f[n] \in Seq(Table) /\ ps[n + 1] \in Seq(Table)
          BY <2>1, <2>3, <2>4, <5>1
        <5>4. NotBefore(ps[n + 1], a, key[m])
          <6> SUFFICES ASSUME NEW q \in DOMAIN ps[n + 1], In(a, ps[n + 1][q])
                       PROVE  key[m] <= ps[n + 1][q].base
            BY DEF NotBefore
          <6>1. ps[n + 1][q].base = key[n + 1] /\ Holds(ps[n + 1], a)
            BY <2>1, <5>1 DEF Holds, Labelled, AllShow
          <6>2. key[m] <= key[n + 1]
            BY <2>1, <2>7, <5>1, <6>1 DEF Ranked
          <6> QED
            BY <6>1, <6>2
        <5>5. PICK x, y : x = f[n] /\ y = ps[n + 1]
          OBVIOUS
        <5>6. Wins(x, a, w) /\ NotBefore(y, a, x[w].base) /\ x \in Seq(Table) /\ y \in Seq(Table)
          BY <5>2, <5>3, <5>4, <5>5
        <5>7. Wins(x \o y, a, w) /\ (x \o y)[w] = x[w]
          BY <5>6, JoinKeeps
        <5>8. Winner(x \o y, a, key[m], val[m])
          BY <5>2, <5>5, <5>7 DEF Wins, Winner
        <5> QED
          BY <5>3, <5>5, <5>8
      <4> QED
        BY <4>1, <4>2
    <3> HIDE DEF T, Wanted
    <3>3. Nat \subseteq T
      BY <3>1, <3>2, SetInduction
    <3>4. N \in m..N
      OBVIOUS
    <3> QED
      BY <3>3, <3>4 DEF T
  <2>8. f[N] \in Seq(Table)
    BY <2>3
  <2>9. ASSUME \A n \in DOMAIN ps : ~Holds(ps[n], a) PROVE View(SortRegions(f[N]), a) = Free
    <3>1. N + 1 \in Nat /\ N \in 1..N /\ N < N + 1
      OBVIOUS
    <3>2. ~Holds(f[N], a)
      BY <2>1, <2>5, <2>9, <3>1
    <3> QED
      BY <2>8, <3>2, SortShows
  <2>10. ASSUME NEW m \in DOMAIN ps, Holds(ps[m], a), \A n \in DOMAIN ps : n < m => ~Holds(ps[n], a)
         PROVE  View(SortRegions(f[N]), a) = val[m]
    <3>1. Wanted(N, m)
      BY <2>1, <2>7, <2>10
    <3> QED
      BY <2>8, <3>1, SortShows DEF Winner
  <2> QED
    BY <2>3, <2>8, <2>9, <2>10
<1> QED
  BY <1>1, <1>2

\* The same, when the pieces of every region hold the address exactly if the region does.
LEMMA PartsView ==
    ASSUME MemoryAssumption, NEW rs \in Seq(Table), NEW ps \in Seq(Seq(Table)), DOMAIN ps = DOMAIN rs,
           NEW a \in Nat, NEW key, NEW val, Labelled(ps, a, key, val), Ranked(ps, a, key),
           \A n \in DOMAIN rs : Holds(ps[n], a) <=> In(a, rs[n])
    PROVE  View(SortRegions(FlattenSeq(ps)), a) = IF Holds(rs, a) THEN val[Find(rs, a)] ELSE Free
<1>0. rs \in Seq(RegionType) /\ DOMAIN rs = 1..Len(rs) /\ Len(rs) \in Nat
  BY DEF Table
<1>1. CASE Holds(rs, a)
  <2>1. /\ Find(rs, a) \in DOMAIN rs /\ In(a, rs[Find(rs, a)])
        /\ \A i \in DOMAIN rs : In(a, rs[i]) => Find(rs, a) <= i
    BY <1>0, <1>1, FindsFirst
  <2>2. Holds(ps[Find(rs, a)], a) /\ \A n \in DOMAIN ps : n < Find(rs, a) => ~Holds(ps[n], a)
    BY <1>0, <2>1
  <2> QED
    BY <1>1, <2>1, <2>2, PiecesShow
<1>2. CASE ~Holds(rs, a)
  <2>1. \A n \in DOMAIN ps : ~Holds(ps[n], a)
    BY <1>2 DEF Holds
  <2> QED
    BY <1>2, <2>1, PiecesShow
<1> QED
  BY <1>1, <1>2

-----------------------------------------------------------------------------
(* What becomes of one region.                                             *)

LEMMA One ==
    ASSUME NEW r \in Table, NEW a
    PROVE  /\ <<r>> \in Seq(Table) /\ (Holds(<<r>>, a) <=> In(a, r))
           /\ AllShow(<<r>>, a, r.base, Shown(r))
<1>1. <<r>> \in Seq(Table) /\ DOMAIN <<r>> = {1} /\ <<r>>[1] = r
  OBVIOUS
<1> QED
  BY <1>1, Zenon DEF Holds, AllShow

LEMMA None ==
    ASSUME NEW a
    PROVE  <<>> \in Seq(Table) /\ ~Holds(<<>>, a) /\ \A k, v : AllShow(<<>>, a, k, v)
<1>1. <<>> \in Seq(Table) /\ DOMAIN <<>> = {}
  OBVIOUS
<1> QED
  BY <1>1, Zenon DEF Holds, AllShow

LEMMA Silent ==
    ASSUME NEW s, NEW a, NEW k, NEW v, ~Holds(s, a)
    PROVE  AllShow(s, a, k, v)
  BY DEF Holds, AllShow

LEMMA Both ==
    ASSUME NEW s \in Seq(Table), NEW t \in Seq(Table), NEW a
    PROVE  /\ s \o t \in Seq(Table) /\ (Holds(s \o t, a) <=> Holds(s, a) \/ Holds(t, a))
           /\ \A k, v : AllShow(s, a, k, v) /\ AllShow(t, a, k, v) => AllShow(s \o t, a, k, v)
<1>1. ASSUME NEW i \in DOMAIN (s \o t)
      PROVE  \/ i \in DOMAIN s /\ (s \o t)[i] = s[i]
             \/ i - Len(s) \in DOMAIN t /\ (s \o t)[i] = t[i - Len(s)]
  <2>1. CASE i \in DOMAIN s
    BY <2>1, Joined
  <2>2. CASE i \notin DOMAIN s
    <3>1. i - Len(s) \in DOMAIN t /\ Len(s) + (i - Len(s)) = i
      BY <2>2, Joined
    <3> QED
      BY <3>1, Joined
  <2> QED
    BY <2>1, <2>2
<1>2. /\ \A i \in DOMAIN s : i \in DOMAIN (s \o t) /\ (s \o t)[i] = s[i]
      /\ \A q \in DOMAIN t : Len(s) + q \in DOMAIN (s \o t) /\ (s \o t)[Len(s) + q] = t[q]
  BY Joined
<1>3. Holds(s \o t, a) <=> Holds(s, a) \/ Holds(t, a)
  BY <1>1, <1>2 DEF Holds
<1>4. \A k, v : AllShow(s, a, k, v) /\ AllShow(t, a, k, v) => AllShow(s \o t, a, k, v)
  BY <1>1 DEF AllShow
<1> QED
  BY <1>3, <1>4, Joined

Protection == SUBSET {"R", "W", "X", "G"}
State == {"commit", "reserve"}

LEMMA TableOf ==
    ASSUME MemoryAssumption, NEW r \in Table
    PROVE  /\ r = [base |-> r.base, size |-> r.size, protect |-> r.protect, state |-> r.state]
           /\ r.base \in Nat /\ r.size \in Nat /\ End(r) = r.base + r.size /\ End(r) \in Nat
           /\ Top \in Nat /\ End(r) <= Top /\ r.base <= Top
           /\ r.protect \in Protection /\ r.state \in State
<1>1. r \in RegionType /\ End(r) <= Top /\ Top \in Nat
  BY DEF Table, MemoryAssumption
<1> QED
  BY <1>1 DEF RegionType, End, Protection, State

LEMMA InTable ==
    ASSUME MemoryAssumption, NEW b \in Nat, NEW s \in Nat, b + s <= Top,
           NEW p \in Protection, NEW st \in State
    PROVE  /\ Region(b, s, p, st) \in Table /\ End(Region(b, s, p, st)) = b + s
           /\ Region(b, s, p, st).base = b /\ Shown(Region(b, s, p, st)) = [state |-> st, protect |-> p]
<1>1. Top \in Nat /\ b \in 0..Top /\ s \in 0..Top
  BY DEF MemoryAssumption
<1>2. Region(b, s, p, st) \in RegionType
  BY <1>1 DEF Region, RegionType, Protection, State
<1>3. /\ Region(b, s, p, st).base = b /\ Region(b, s, p, st).size = s
      /\ Region(b, s, p, st).protect = p /\ Region(b, s, p, st).state = st
  BY DEF Region
<1> QED
  BY <1>2, <1>3 DEF Table, End, Shown

LEMMA Resized ==
    ASSUME NEW r \in RegionType, NEW b, NEW s
    PROVE  /\ [r EXCEPT !.base = b, !.size = s] = Region(b, s, r.protect, r.state)
           /\ [r EXCEPT !.size = s] = Region(r.base, s, r.protect, r.state)
<1>1. PICK w, x, y, z : r = [base |-> w, size |-> x, protect |-> y, state |-> z]
  <2>1. r = [base |-> r.base, size |-> r.size, protect |-> r.protect, state |-> r.state]
    BY DEF RegionType
  <2> QED
    BY <2>1, Zenon
<1>2. [r EXCEPT !.base = b, !.size = s] = [base |-> b, size |-> s, protect |-> y, state |-> z]
  <2>1. PICK q : q = [r EXCEPT !.base = b]
    OBVIOUS
  <2>2. q = [base |-> b, size |-> x, protect |-> y, state |-> z]
    BY <1>1, <2>1
  <2>3. [q EXCEPT !.size = s] = [base |-> b, size |-> s, protect |-> y, state |-> z]
    BY <2>2
  <2>4. [r EXCEPT !.base = b, !.size = s] = [q EXCEPT !.size = s]
    BY <2>1
  <2> QED
    BY <2>3, <2>4
<1>3. [r EXCEPT !.size = s] = [base |-> w, size |-> s, protect |-> y, state |-> z]
  BY <1>1
<1>4. r.base = w /\ r.protect = y /\ r.state = z
  BY <1>1
<1> QED
  BY <1>2, <1>3, <1>4 DEF Region

LEMMA Reprotected ==
    ASSUME NEW r \in RegionType, NEW p, NEW st
    PROVE  /\ [r EXCEPT !.protect = p] = Region(r.base, r.size, p, r.state)
           /\ [r EXCEPT !.state = st, !.protect = p] = Region(r.base, r.size, p, st)
<1>1. PICK w, x, y, z : r = [base |-> w, size |-> x, protect |-> y, state |-> z]
  <2>1. r = [base |-> r.base, size |-> r.size, protect |-> r.protect, state |-> r.state]
    BY DEF RegionType
  <2> QED
    BY <2>1, Zenon
<1>2. [r EXCEPT !.protect = p] = [base |-> w, size |-> x, protect |-> p, state |-> z]
  BY <1>1
<1>3. [r EXCEPT !.state = st, !.protect = p] = [base |-> w, size |-> x, protect |-> p, state |-> st]
  <2>1. PICK q : q = [r EXCEPT !.state = st]
    OBVIOUS
  <2>2. q = [base |-> w, size |-> x, protect |-> y, state |-> st]
    BY <1>1, <2>1
  <2>3. [q EXCEPT !.protect = p] = [base |-> w, size |-> x, protect |-> p, state |-> st]
    BY <2>2
  <2>4. [r EXCEPT !.state = st, !.protect = p] = [q EXCEPT !.protect = p]
    BY <2>1
  <2> QED
    BY <2>3, <2>4
<1>4. r.base = w /\ r.size = x /\ r.state = z
  BY <1>1
<1> QED
  BY <1>2, <1>3, <1>4 DEF Region

LEMMA PartOf ==
    ASSUME MemoryAssumption, NEW r \in Table, NEW b \in Nat, NEW s \in Nat, b + s <= Top
    PROVE  LET h == Region(b, s, r.protect, r.state) IN
           h \in Table /\ h.base = b /\ End(h) = b + s /\ Shown(h) = Shown(r)
<1>1. r.protect \in Protection /\ r.state \in State
  BY TableOf
<1>2. PICK p \in Protection, st \in State : p = r.protect /\ st = r.state
  BY <1>1
<1>3. LET h == Region(b, s, p, st) IN
      h \in Table /\ h.base = b /\ End(h) = b + s /\ Shown(h) = [state |-> st, protect |-> p]
  BY InTable
<1> QED
  BY <1>2, <1>3 DEF Shown

\* The part of a region below b.
LEMMA HeadOf ==
    ASSUME MemoryAssumption, NEW r \in Table, NEW b \in Nat, b < End(r), NEW a \in Nat
    PROVE  /\ Head_(r, b) \in Seq(Table) /\ (Holds(Head_(r, b), a) <=> In(a, r) /\ a < b)
           /\ AllShow(Head_(r, b), a, r.base, Shown(r))
<1>1. CASE r.base < b
  <2>0. b - r.base \in Nat /\ r.base + (b - r.base) = b /\ b <= Top /\ r.base \in Nat
    BY <1>1, TableOf
  <2>1. PICK s \in Nat, c \in Nat : s = b - r.base /\ c + s = b /\ b <= Top /\ r.base = c
    BY <2>0
  <2> DEFINE h == Region(c, s, r.protect, r.state)
  <2>2. h \in Table /\ h.base = r.base /\ End(h) = b /\ Shown(h) = Shown(r)
    BY <2>1, PartOf
  <2>3. Head_(r, b) = <<h>>
    <3>1. [r EXCEPT !.size = s] = h
      BY <2>1, Resized DEF Table
    <3> QED
      BY <1>1, <2>1, <3>1 DEF Head_
  <2> HIDE DEF h
  <2>4. In(a, h) <=> In(a, r) /\ a < b
    BY <2>2, TableOf DEF In
  <2> QED
    BY <2>2, <2>3, <2>4, One
<1>2. CASE ~(r.base < b)
  <2>1. Head_(r, b) = <<>> /\ ~(In(a, r) /\ a < b)
    BY <1>2, TableOf DEF Head_, In
  <2> QED
    BY <2>1, None
<1> QED
  BY <1>1, <1>2

\* The part of a region from e on.
LEMMA TailOf ==
    ASSUME MemoryAssumption, NEW r \in Table, NEW e \in Nat, r.base < e, NEW a \in Nat
    PROVE  /\ Tail_(r, e) \in Seq(Table) /\ (Holds(Tail_(r, e), a) <=> In(a, r) /\ e <= a)
           /\ AllShow(Tail_(r, e), a, e, Shown(r))
<1>1. CASE End(r) > e
  <2>0. End(r) - e \in Nat /\ e + (End(r) - e) = End(r) /\ End(r) <= Top
    <3>1. End(r) \in Nat /\ End(r) <= Top
      BY TableOf
    <3> QED
      BY <1>1, <3>1
  <2>1. PICK s \in Nat : s = End(r) - e /\ e + s = End(r) /\ End(r) <= Top
    BY <2>0
  <2> DEFINE h == Region(e, s, r.protect, r.state)
  <2>2. h \in Table /\ h.base = e /\ End(h) = End(r) /\ Shown(h) = Shown(r)
    BY <2>1, PartOf
  <2>3. Tail_(r, e) = <<h>>
    <3>1. [r EXCEPT !.base = e, !.size = s] = h
      BY Resized DEF Table
    <3> QED
      BY <1>1, <2>1, <3>1 DEF Tail_
  <2> HIDE DEF h
  <2>4. In(a, h) <=> In(a, r) /\ e <= a
    BY <2>2, TableOf DEF In
  <2> QED
    BY <2>2, <2>3, <2>4, One
<1>2. CASE ~(End(r) > e)
  <2>1. Tail_(r, e) = <<>> /\ ~(In(a, r) /\ e <= a)
    BY <1>2, TableOf DEF Tail_, In
  <2> QED
    BY <2>1, None
<1> QED
  BY <1>1, <1>2

-----------------------------------------------------------------------------
(* What becomes of one region when a range is cut out of the table.        *)

\* Where the pieces that hold the address begin.
KeyOf(r, b, e, a) ==
    IF a < b THEN r.base ELSE IF a < e THEN MaxOf(r.base, b) ELSE MaxOf(r.base, e)

LEMMA ApartPart ==
    ASSUME MemoryAssumption, NEW r \in Table, NEW b \in Nat, NEW e \in Nat, b <= e,
           Apart(r, b, e), NEW a \in Nat
    PROVE  /\ <<r>> \in Seq(Table) /\ (Holds(<<r>>, a) <=> In(a, r))
           /\ AllShow(<<r>>, a, KeyOf(r, b, e, a), Shown(r))
           /\ In(a, r) => ~(b <= a /\ a < e)
<1>1. In(a, r) => r.base = KeyOf(r, b, e, a) /\ ~(b <= a /\ a < e)
  BY TableOf DEF In, Apart, KeyOf, MaxOf
<1> QED
  BY <1>1, One, Silent

\* The part inside the range.
LEMMA MiddleOf ==
    ASSUME MemoryAssumption, NEW r \in Table, NEW b \in Nat, NEW e \in Nat, b <= e,
           ~Apart(r, b, e), NEW a \in Nat,
           NEW p \in Protection,
           NEW m, m = Region(MaxOf(r.base, b), MinOf(End(r), e) - MaxOf(r.base, b), p, r.state)
    PROVE  /\ <<m>> \in Seq(Table) /\ (Holds(<<m>>, a) <=> In(a, r) /\ b <= a /\ a < e)
           /\ AllShow(<<m>>, a, MaxOf(r.base, b), [state |-> r.state, protect |-> p])
<1>1. PICK c \in Nat, s \in Nat :
         c = MaxOf(r.base, b) /\ s = MinOf(End(r), e) - MaxOf(r.base, b) /\ c + s = MinOf(End(r), e)
         /\ c + s <= Top
  <2>1. /\ MaxOf(r.base, b) \in Nat /\ MinOf(End(r), e) \in Nat
        /\ MaxOf(r.base, b) <= MinOf(End(r), e) /\ MinOf(End(r), e) <= Top
    BY TableOf DEF MaxOf, MinOf, Apart
  <2> QED
    BY <2>1
<1>2. PICK st \in State : st = r.state
  BY TableOf
<1>3. /\ Region(c, s, p, st) \in Table /\ End(Region(c, s, p, st)) = c + s
      /\ Region(c, s, p, st).base = c /\ Shown(Region(c, s, p, st)) = [state |-> st, protect |-> p]
  BY <1>1, InTable
<1>4. m = Region(c, s, p, st)
  BY <1>1, <1>2
<1>5. /\ m \in Table /\ End(m) = MinOf(End(r), e) /\ m.base = MaxOf(r.base, b)
      /\ Shown(m) = [state |-> r.state, protect |-> p]
  BY <1>1, <1>2, <1>3, <1>4
<1>6. In(a, m) <=> In(a, r) /\ b <= a /\ a < e
  <2>1. r.base \in Nat /\ End(r) \in Nat
    BY TableOf
  <2>2. MaxOf(r.base, b) <= a <=> r.base <= a /\ b <= a
    BY <2>1 DEF MaxOf
  <2>3. a < MinOf(End(r), e) <=> a < End(r) /\ a < e
    BY <2>1 DEF MinOf
  <2> QED
    BY <1>5, <2>2, <2>3 DEF In
<1> QED
  BY <1>5, <1>6, One

ProtectPart(r, b, e, prot) == IF Apart(r, b, e) THEN <<r>> ELSE ProtectPieces(r, b, e, prot)
ReleasePart(r, b, e) == IF Apart(r, b, e) THEN <<r>> ELSE ReleasePieces(r, b, e)
DecommitPart(r, b, e) == IF Apart(r, b, e) THEN <<r>> ELSE DecommitPieces(r, b, e)

LEMMA ApartOrNot ==
    ASSUME MemoryAssumption, NEW r \in Table, NEW b \in Nat, NEW e \in Nat, ~Apart(r, b, e)
    PROVE  b < End(r) /\ r.base < e
  BY TableOf DEF Apart

LEMMA ProtectOf ==
    ASSUME MemoryAssumption, NEW r \in Table, NEW b \in Nat, NEW e \in Nat, b <= e, NEW a \in Nat,
           NEW prot \in Protection
    PROVE  LET P == ProtectPart(r, b, e, prot) IN
           /\ P \in Seq(Table) /\ (Holds(P, a) <=> In(a, r))
           /\ AllShow(P, a, KeyOf(r, b, e, a),
                      IF b <= a /\ a < e THEN [state |-> r.state, protect |-> prot] ELSE Shown(r))
<1> DEFINE v == IF b <= a /\ a < e THEN [state |-> r.state, protect |-> prot] ELSE Shown(r)
           k == KeyOf(r, b, e, a)
<1>1. CASE Apart(r, b, e)
  <2>1. CASE In(a, r)
    BY <1>1, <2>1, ApartPart DEF ProtectPart
  <2>2. CASE ~In(a, r)
    BY <1>1, <2>2, ApartPart, Silent DEF ProtectPart
  <2> QED
    BY <2>1, <2>2
<1>2. CASE ~Apart(r, b, e)
  <2> DEFINE m == Region(MaxOf(r.base, b), MinOf(End(r), e) - MaxOf(r.base, b), prot, r.state)
             h == Head_(r, b)
             t == Tail_(r, e)
  <2>1. ProtectPart(r, b, e, prot) = (h \o <<m>>) \o t
    BY <1>2 DEF ProtectPart, ProtectPieces
  <2>2. h \in Seq(Table) /\ (Holds(h, a) <=> In(a, r) /\ a < b) /\ AllShow(h, a, r.base, Shown(r))
    BY <1>2, ApartOrNot, HeadOf
  <2>3. t \in Seq(Table) /\ (Holds(t, a) <=> In(a, r) /\ e <= a) /\ AllShow(t, a, e, Shown(r))
    BY <1>2, ApartOrNot, TailOf
  <2>4. /\ <<m>> \in Seq(Table) /\ (Holds(<<m>>, a) <=> In(a, r) /\ b <= a /\ a < e)
        /\ AllShow(<<m>>, a, MaxOf(r.base, b), [state |-> r.state, protect |-> prot])
    BY <1>2, MiddleOf
  <2>5. PICK M : M = <<m>>
    OBVIOUS
  <2> HIDE DEF h, t, m
  <2>6. AllShow(h, a, k, v)
    <3>1. CASE a < b
      BY <2>2, <3>1 DEF KeyOf
    <3>2. CASE ~(a < b)
      BY <2>2, <3>2, Silent
    <3> QED
      BY <3>1, <3>2
  <2>7. AllShow(t, a, k, v)
    <3>1. CASE e <= a
      <4>1. ~(a < b) /\ ~(a < e) /\ MaxOf(r.base, e) = e
        BY <1>2, <3>1, ApartOrNot, TableOf DEF MaxOf
      <4> QED
        BY <2>3, <4>1 DEF KeyOf
    <3>2. CASE ~(e <= a)
      BY <2>3, <3>2, Silent
    <3> QED
      BY <3>1, <3>2
  <2>8. AllShow(M, a, k, v)
    <3>1. CASE b <= a /\ a < e
      BY <2>4, <2>5, <3>1 DEF KeyOf
    <3>2. CASE ~(b <= a /\ a < e)
      BY <2>4, <2>5, <3>2, Silent
    <3> QED
      BY <3>1, <3>2
  <2>9. h \o M \in Seq(Table) /\ (Holds(h \o M, a) <=> In(a, r) /\ a < e) /\ AllShow(h \o M, a, k, v)
    <3> HIDE DEF k, v
    <3>1. /\ h \o M \in Seq(Table) /\ (Holds(h \o M, a) <=> Holds(h, a) \/ Holds(M, a))
          /\ AllShow(h \o M, a, k, v)
      BY <2>2, <2>4, <2>5, <2>6, <2>8, Both
    <3>2. a < b \/ (b <= a /\ a < e) <=> a < e
      OBVIOUS
    <3> QED
      BY <2>2, <2>4, <2>5, <3>1, <3>2
  <2>10. PICK hm : hm = h \o M
    OBVIOUS
  <2>11. /\ hm \o t \in Seq(Table) /\ (Holds(hm \o t, a) <=> In(a, r)) /\ AllShow(hm \o t, a, k, v)
    <3> HIDE DEF k, v
    <3>1. /\ hm \o t \in Seq(Table) /\ (Holds(hm \o t, a) <=> Holds(hm, a) \/ Holds(t, a))
          /\ AllShow(hm \o t, a, k, v)
      BY <2>3, <2>7, <2>9, <2>10, Both
    <3>2. a < e \/ e <= a
      OBVIOUS
    <3> QED
      BY <2>3, <2>9, <2>10, <3>1, <3>2
  <2> QED
    BY <2>1, <2>5, <2>10, <2>11
<1> QED
  BY <1>1, <1>2

LEMMA ReleaseOf ==
    ASSUME MemoryAssumption, NEW r \in Table, NEW b \in Nat, NEW e \in Nat, b <= e, NEW a \in Nat
    PROVE  LET P == ReleasePart(r, b, e) IN
           /\ P \in Seq(Table) /\ (Holds(P, a) <=> In(a, r) /\ ~(b <= a /\ a < e))
           /\ AllShow(P, a, KeyOf(r, b, e, a), Shown(r))
<1> DEFINE k == KeyOf(r, b, e, a)
<1>1. CASE Apart(r, b, e)
  BY <1>1, ApartPart DEF ReleasePart
<1>2. CASE ~Apart(r, b, e)
  <2> DEFINE h == Head_(r, b)
             t == Tail_(r, e)
  <2>1. ReleasePart(r, b, e) = h \o t
    BY <1>2 DEF ReleasePart, ReleasePieces
  <2>2. h \in Seq(Table) /\ (Holds(h, a) <=> In(a, r) /\ a < b) /\ AllShow(h, a, r.base, Shown(r))
    BY <1>2, ApartOrNot, HeadOf
  <2>3. t \in Seq(Table) /\ (Holds(t, a) <=> In(a, r) /\ e <= a) /\ AllShow(t, a, e, Shown(r))
    BY <1>2, ApartOrNot, TailOf
  <2> HIDE DEF h, t
  <2>4. AllShow(h, a, k, Shown(r))
    <3>1. CASE a < b
      BY <2>2, <3>1 DEF KeyOf
    <3>2. CASE ~(a < b)
      BY <2>2, <3>2, Silent
    <3> QED
      BY <3>1, <3>2
  <2>5. AllShow(t, a, k, Shown(r))
    <3>1. CASE e <= a
      <4>1. ~(a < b) /\ ~(a < e) /\ MaxOf(r.base, e) = e
        BY <1>2, <3>1, ApartOrNot, TableOf DEF MaxOf
      <4> QED
        BY <2>3, <4>1 DEF KeyOf
    <3>2. CASE ~(e <= a)
      BY <2>3, <3>2, Silent
    <3> QED
      BY <3>1, <3>2
  <2>6. h \o t \in Seq(Table) /\ (Holds(h \o t, a) <=> In(a, r) /\ ~(b <= a /\ a < e))
        /\ AllShow(h \o t, a, k, Shown(r))
    <3> HIDE DEF k
    <3> QED
      BY <2>2, <2>3, <2>4, <2>5, Both
  <2> QED
    BY <2>1, <2>6
<1> QED
  BY <1>1, <1>2

LEMMA DecommitOf ==
    ASSUME MemoryAssumption, NEW r \in Table, NEW b \in Nat, NEW e \in Nat, b <= e, NEW a \in Nat
    PROVE  LET P == DecommitPart(r, b, e) IN
           /\ P \in Seq(Table)
           /\ b <= a /\ a < e => AllShow(P, a, b, [state |-> "reserve", protect |-> r.protect])
           /\ ~(b <= a /\ a < e) => /\ Holds(P, a) <=> In(a, r)
                                    /\ AllShow(P, a, KeyOf(r, b, e, a), Shown(r))
<1> DEFINE k == KeyOf(r, b, e, a)
           v == [state |-> "reserve", protect |-> r.protect]
<1>1. CASE Apart(r, b, e)
  <2>1. CASE In(a, r)
    BY <1>1, <2>1, ApartPart DEF DecommitPart
  <2>2. CASE ~In(a, r)
    BY <1>1, <2>2, ApartPart, Silent DEF DecommitPart
  <2> QED
    BY <2>1, <2>2
<1>2. CASE ~Apart(r, b, e)
  <2> DEFINE m == Region(b, MinOf(End(r), e) - b, r.protect, "reserve")
             h == Head_(r, b)
             t == Tail_(r, e)
  <2>1. DecommitPart(r, b, e) = (h \o <<m>>) \o t
    BY <1>2 DEF DecommitPart, DecommitPieces
  <2>2. h \in Seq(Table) /\ (Holds(h, a) <=> In(a, r) /\ a < b) /\ AllShow(h, a, r.base, Shown(r))
    BY <1>2, ApartOrNot, HeadOf
  <2>3. t \in Seq(Table) /\ (Holds(t, a) <=> In(a, r) /\ e <= a) /\ AllShow(t, a, e, Shown(r))
    BY <1>2, ApartOrNot, TailOf
  <2>4. /\ <<m>> \in Seq(Table) /\ (Holds(<<m>>, a) => b <= a /\ a < e) /\ AllShow(<<m>>, a, b, v)
    <3>1. /\ b < End(r) /\ MinOf(End(r), e) \in Nat /\ b <= MinOf(End(r), e)
          /\ MinOf(End(r), e) <= Top /\ MinOf(End(r), e) <= e
      BY <1>2, ApartOrNot, TableOf DEF MinOf
    <3>2. PICK s \in Nat : s = MinOf(End(r), e) - b /\ b + s = MinOf(End(r), e) /\ b + s <= Top /\ b + s <= e
      BY <3>1
    <3>3. PICK p \in Protection, st \in State : p = r.protect /\ st = "reserve"
      BY TableOf DEF State
    <3>4. /\ Region(b, s, p, st) \in Table /\ End(Region(b, s, p, st)) = b + s
          /\ Region(b, s, p, st).base = b /\ Shown(Region(b, s, p, st)) = [state |-> st, protect |-> p]
      BY <3>2, InTable
    <3>5. m = Region(b, s, p, st)
      BY <3>2, <3>3
    <3> HIDE DEF m
    <3>6. m \in Table /\ End(m) <= e /\ m.base = b /\ Shown(m) = v /\ End(m) \in Nat
      BY <3>2, <3>3, <3>4, <3>5
    <3>7. In(a, m) => b <= a /\ a < e
      BY <3>6 DEF In
    <3> QED
      BY <3>6, <3>7, One
  <2>5. PICK M : M = <<m>>
    OBVIOUS
  <2> HIDE DEF h, t, m
  <2>6. CASE b <= a /\ a < e
    <3>1. AllShow(h, a, b, v) /\ AllShow(t, a, b, v) /\ AllShow(M, a, b, v)
      BY <2>2, <2>3, <2>4, <2>5, <2>6, Silent
    <3>2. h \o M \in Seq(Table) /\ AllShow(h \o M, a, b, v)
      <4> HIDE DEF v
      <4> QED
        BY <2>2, <2>4, <2>5, <3>1, Both
    <3>3. PICK hm : hm = h \o M
      OBVIOUS
    <3>4. hm \o t \in Seq(Table) /\ AllShow(hm \o t, a, b, v)
      <4> HIDE DEF v
      <4> QED
        BY <2>3, <3>1, <3>2, <3>3, Both
    <3> QED
      BY <2>1, <2>5, <2>6, <3>3, <3>4
  <2>7. CASE ~(b <= a /\ a < e)
    <3>1. AllShow(h, a, k, Shown(r))
      <4>1. CASE a < b
        BY <2>2, <4>1 DEF KeyOf
      <4>2. CASE ~(a < b)
        BY <2>2, <4>2, Silent
      <4> QED
        BY <4>1, <4>2
    <3>2. AllShow(t, a, k, Shown(r))
      <4>1. CASE e <= a
        <5>1. ~(a < b) /\ ~(a < e) /\ MaxOf(r.base, e) = e
          BY <1>2, <4>1, ApartOrNot, TableOf DEF MaxOf
        <5> QED
          BY <2>3, <5>1 DEF KeyOf
      <4>2. CASE ~(e <= a)
        BY <2>3, <4>2, Silent
      <4> QED
        BY <4>1, <4>2
    <3>3. ~Holds(M, a) /\ AllShow(M, a, k, Shown(r))
      BY <2>4, <2>5, <2>7, Silent
    <3>4. h \o M \in Seq(Table) /\ (Holds(h \o M, a) <=> In(a, r) /\ a < b) /\ AllShow(h \o M, a, k, Shown(r))
      <4> HIDE DEF k
      <4> QED
        BY <2>2, <2>4, <2>5, <3>1, <3>3, Both
    <3>5. PICK hm : hm = h \o M
      OBVIOUS
    <3>6. hm \o t \in Seq(Table) /\ (Holds(hm \o t, a) <=> In(a, r)) /\ AllShow(hm \o t, a, k, Shown(r))
      <4> HIDE DEF k
      <4>1. /\ hm \o t \in Seq(Table) /\ (Holds(hm \o t, a) <=> Holds(hm, a) \/ Holds(t, a))
            /\ AllShow(hm \o t, a, k, Shown(r))
        BY <2>3, <3>2, <3>4, <3>5, Both
      <4>2. a < b \/ e <= a
        BY <2>7
      <4> QED
        BY <2>3, <3>4, <3>5, <4>1, <4>2
    <3> QED
      BY <2>1, <2>5, <2>7, <3>5, <3>6
  <2> QED
    BY <2>6, <2>7
<1> QED
  BY <1>1, <1>2

-----------------------------------------------------------------------------
(* What a range call makes of the table.                                   *)

InRange(a, b, e) == b <= a /\ a < e

Protected(rs, b, e, prot) == SortRegions(FlattenSeq([n \in DOMAIN rs |-> ProtectPart(rs[n], b, e, prot)]))
Released(rs, b, e) == SortRegions(FlattenSeq([n \in DOMAIN rs |-> ReleasePart(rs[n], b, e)]))
Decommitted(rs, b, e) == SortRegions(FlattenSeq([n \in DOMAIN rs |-> DecommitPart(rs[n], b, e)]))

LEMMA KeysRise ==
    ASSUME MemoryAssumption, NEW rs \in Seq(Table), InOrder(rs), NEW b \in Nat, NEW e \in Nat, NEW a \in Nat,
           NEW m \in DOMAIN rs, NEW n \in DOMAIN rs, m <= n
    PROVE  KeyOf(rs[m], b, e, a) <= KeyOf(rs[n], b, e, a)
<1>1. rs[m] \in Table /\ rs[n] \in Table /\ m \in Nat /\ n \in Nat
  OBVIOUS
<1>2. rs[m].base \in Nat /\ rs[n].base \in Nat
  BY <1>1, TableOf
<1>3. rs[m].base <= rs[n].base
  BY <1>1, <1>2 DEF InOrder
<1> QED
  BY <1>2, <1>3 DEF KeyOf, MaxOf

LEMMA ViewIs ==
    ASSUME MemoryAssumption, NEW rs \in Seq(Table), NEW a \in Nat
    PROVE  /\ Holds(rs, a) => /\ Find(rs, a) \in DOMAIN rs /\ View(rs, a) = Shown(rs[Find(rs, a)])
                              /\ rs[Find(rs, a)].state \in State /\ View(rs, a).state # "free"
           /\ ~Holds(rs, a) => View(rs, a) = Free
<1>1. rs \in Seq(RegionType)
  BY DEF Table
<1>2. ASSUME Holds(rs, a)
      PROVE  /\ Find(rs, a) \in DOMAIN rs /\ View(rs, a) = Shown(rs[Find(rs, a)])
             /\ rs[Find(rs, a)].state \in State /\ View(rs, a).state # "free"
  <2>1. Find(rs, a) \in DOMAIN rs /\ Find(rs, a) # 0
    BY <1>1, <1>2, FindsFirst
  <2>2. rs[Find(rs, a)] \in Table
    BY <2>1
  <2>3. rs[Find(rs, a)].state \in State
    BY <2>2, TableOf
  <2> QED
    BY <2>1, <2>3 DEF View, Shown, State
<1>3. ~Holds(rs, a) => View(rs, a) = Free
  BY <1>1, ViewOf
<1> QED
  BY <1>2, <1>3

LEMMA ProtectCut ==
    ASSUME MemoryAssumption, NEW rs \in Seq(Table), InOrder(rs),
           NEW b \in Nat, NEW e \in Nat, b <= e, NEW prot \in Protection
    PROVE  LET c == Protected(rs, b, e, prot) IN
           /\ c \in Seq(Table) /\ InOrder(c)
           /\ \A a \in Nat : View(c, a) =
                IF InRange(a, b, e) /\ View(rs, a).state # "free"
                THEN [state |-> View(rs, a).state, protect |-> prot] ELSE View(rs, a)
<1> DEFINE ps == [n \in DOMAIN rs |-> ProtectPart(rs[n], b, e, prot)]
           c == Protected(rs, b, e, prot)
<1>1. c = SortRegions(FlattenSeq(ps))
  BY DEF Protected
<1> HIDE DEF c
<1>2. \A n \in DOMAIN rs : rs[n] \in Table
  OBVIOUS
<1>3. ps \in Seq(Seq(Table)) /\ DOMAIN ps = DOMAIN rs
  <2>1. 0 \in Nat /\ \A n \in DOMAIN rs : ProtectPart(rs[n], b, e, prot) \in Seq(Table)
    BY <1>2, ProtectOf
  <2> QED
    BY <2>1
<1>4. ASSUME NEW a \in Nat
      PROVE  /\ FlattenSeq(ps) \in Seq(Table)
             /\ View(c, a) = IF InRange(a, b, e) /\ View(rs, a).state # "free"
                             THEN [state |-> View(rs, a).state, protect |-> prot] ELSE View(rs, a)
  <2> DEFINE key == [n \in DOMAIN rs |-> KeyOf(rs[n], b, e, a)]
             val == [n \in DOMAIN rs |-> IF b <= a /\ a < e
                                         THEN [state |-> rs[n].state, protect |-> prot] ELSE Shown(rs[n])]
  <2>1. ASSUME NEW n \in DOMAIN rs
        PROVE  (Holds(ps[n], a) <=> In(a, rs[n])) /\ AllShow(ps[n], a, key[n], val[n])
    BY <1>2, ProtectOf
  <2>2. \A m, n \in DOMAIN rs : m <= n => key[m] <= key[n]
    BY KeysRise
  <2> HIDE DEF ps, key
  <2>3. Labelled(ps, a, key, val) /\ Ranked(ps, a, key)
    <3> HIDE DEF val
    <3> QED
      BY <1>3, <2>1, <2>2 DEF Labelled, Ranked
  <2>4. FlattenSeq(ps) \in Seq(Table)
    <3> HIDE DEF val
    <3> QED
      BY <1>3, <2>3, PiecesShow
  <2>5. View(c, a) = IF Holds(rs, a) THEN val[Find(rs, a)] ELSE Free
    <3> HIDE DEF val
    <3> QED
      BY <1>1, <1>3, <2>1, <2>3, PartsView
  <2>6. CASE Holds(rs, a)
    <3>1. Find(rs, a) \in DOMAIN rs /\ View(rs, a) = Shown(rs[Find(rs, a)]) /\ View(rs, a).state # "free"
      BY <2>6, ViewIs
    <3>2. View(rs, a).state = rs[Find(rs, a)].state
      BY <3>1 DEF Shown
    <3> QED
      BY <2>4, <2>5, <2>6, <3>1, <3>2 DEF InRange
  <2> HIDE DEF val
  <2>7. CASE ~Holds(rs, a)
    <3>1. View(rs, a) = Free /\ View(rs, a).state = "free"
      BY <2>7, ViewIs DEF Free
    <3> QED
      BY <2>4, <2>5, <2>7, <3>1
  <2> QED
    BY <2>6, <2>7
<1>5. 0 \in Nat
  OBVIOUS
<1> HIDE DEF ps
<1>6. c \in Seq(Table) /\ InOrder(c)
  BY <1>1, <1>4, <1>5, SortKeeps
<1> QED
  BY <1>4, <1>6 DEF c

LEMMA ReleaseCut ==
    ASSUME MemoryAssumption, NEW rs \in Seq(Table), NEW b \in Nat, NEW e \in Nat, InOrder(rs), b <= e
    PROVE  LET c == Released(rs, b, e) IN
           /\ c \in Seq(Table) /\ InOrder(c)
           /\ \A a \in Nat : View(c, a) = IF InRange(a, b, e) THEN Free ELSE View(rs, a)
<1> DEFINE ps == [n \in DOMAIN rs |-> ReleasePart(rs[n], b, e)]
           c == Released(rs, b, e)
<1>1. c = SortRegions(FlattenSeq(ps))
  BY DEF Released
<1> HIDE DEF c
<1>2. \A n \in DOMAIN rs : rs[n] \in Table
  OBVIOUS
<1>3. ps \in Seq(Seq(Table)) /\ DOMAIN ps = DOMAIN rs
  <2>1. 0 \in Nat /\ \A n \in DOMAIN rs : ReleasePart(rs[n], b, e) \in Seq(Table)
    BY <1>2, ReleaseOf
  <2> QED
    BY <2>1
<1>4. ASSUME NEW a \in Nat
      PROVE  /\ FlattenSeq(ps) \in Seq(Table)
             /\ View(c, a) = IF InRange(a, b, e) THEN Free ELSE View(rs, a)
  <2> DEFINE key == [n \in DOMAIN rs |-> KeyOf(rs[n], b, e, a)]
             val == [n \in DOMAIN rs |-> Shown(rs[n])]
  <2>1. ASSUME NEW n \in DOMAIN rs
        PROVE  /\ Holds(ps[n], a) <=> In(a, rs[n]) /\ ~InRange(a, b, e)
               /\ AllShow(ps[n], a, key[n], val[n])
    BY <1>2, ReleaseOf DEF InRange
  <2>2. \A m, n \in DOMAIN rs : m <= n => key[m] <= key[n]
    BY KeysRise
  <2> HIDE DEF ps, key, val
  <2>3. Labelled(ps, a, key, val) /\ Ranked(ps, a, key)
    BY <1>3, <2>1, <2>2 DEF Labelled, Ranked
  <2>4. FlattenSeq(ps) \in Seq(Table)
    BY <1>3, <2>3, PiecesShow
  <2>5. CASE InRange(a, b, e)
    <3>1. \A n \in DOMAIN ps : ~Holds(ps[n], a)
      BY <1>3, <2>1, <2>5
    <3> QED
      BY <1>1, <1>3, <2>3, <2>4, <2>5, <3>1, PiecesShow
  <2>6. CASE ~InRange(a, b, e)
    <3>1. View(c, a) = IF Holds(rs, a) THEN val[Find(rs, a)] ELSE Free
      BY <1>1, <1>3, <2>1, <2>3, <2>6, PartsView
    <3> QED
      BY <2>4, <2>6, <3>1, ViewIs DEF val
  <2> QED
    BY <2>5, <2>6
<1>5. 0 \in Nat
  OBVIOUS
<1> HIDE DEF ps
<1>6. c \in Seq(Table) /\ InOrder(c)
  BY <1>1, <1>4, <1>5, SortKeeps
<1> QED
  BY <1>4, <1>6 DEF c

LEMMA DecommitCut ==
    ASSUME MemoryAssumption, NEW rs \in Seq(Table), NEW b \in Nat, NEW e \in Nat, InOrder(rs), b <= e
    PROVE  LET c == Decommitted(rs, b, e) IN
           /\ c \in Seq(Table) /\ InOrder(c)
           /\ \A a \in Nat : IF InRange(a, b, e) THEN View(c, a).state \in {"free", "reserve"}
                             ELSE View(c, a) = View(rs, a)
<1> DEFINE ps == [n \in DOMAIN rs |-> DecommitPart(rs[n], b, e)]
           c == Decommitted(rs, b, e)
<1>1. c = SortRegions(FlattenSeq(ps))
  BY DEF Decommitted
<1> HIDE DEF c
<1>2. \A n \in DOMAIN rs : rs[n] \in Table
  OBVIOUS
<1>3. ps \in Seq(Seq(Table)) /\ DOMAIN ps = DOMAIN rs
  <2>1. 0 \in Nat /\ \A n \in DOMAIN rs : DecommitPart(rs[n], b, e) \in Seq(Table)
    BY <1>2, DecommitOf
  <2> QED
    BY <2>1
<1>4. ASSUME NEW a \in Nat, ~InRange(a, b, e)
      PROVE  FlattenSeq(ps) \in Seq(Table) /\ View(c, a) = View(rs, a)
  <2> DEFINE key == [n \in DOMAIN rs |-> KeyOf(rs[n], b, e, a)]
             val == [n \in DOMAIN rs |-> Shown(rs[n])]
  <2>1. ASSUME NEW n \in DOMAIN rs
        PROVE  (Holds(ps[n], a) <=> In(a, rs[n])) /\ AllShow(ps[n], a, key[n], val[n])
    BY <1>2, <1>4, DecommitOf DEF InRange
  <2>2. \A m, n \in DOMAIN rs : m <= n => key[m] <= key[n]
    BY KeysRise
  <2> HIDE DEF ps, key, val
  <2>3. Labelled(ps, a, key, val) /\ Ranked(ps, a, key)
    BY <1>3, <2>1, <2>2 DEF Labelled, Ranked
  <2>4. FlattenSeq(ps) \in Seq(Table)
    BY <1>3, <2>3, PiecesShow
  <2>5. View(c, a) = IF Holds(rs, a) THEN val[Find(rs, a)] ELSE Free
    BY <1>1, <1>3, <2>1, <2>3, PartsView
  <2> QED
    BY <2>4, <2>5, ViewIs DEF val
<1>5. ASSUME NEW a \in Nat, InRange(a, b, e)
      PROVE  FlattenSeq(ps) \in Seq(Table) /\ View(c, a).state \in {"free", "reserve"}
  <2> DEFINE key == [n \in DOMAIN rs |-> b]
             val == [n \in DOMAIN rs |-> [state |-> "reserve", protect |-> rs[n].protect]]
  <2>1. ASSUME NEW n \in DOMAIN rs PROVE AllShow(ps[n], a, key[n], val[n])
    BY <1>2, <1>5, DecommitOf DEF InRange
  <2>2. \A n \in DOMAIN rs : val[n].state = "reserve"
    OBVIOUS
  <2>3. \A m, n \in DOMAIN rs : key[m] <= key[n]
    OBVIOUS
  <2> HIDE DEF ps, key, val
  <2>4. Labelled(ps, a, key, val) /\ Ranked(ps, a, key)
    BY <1>3, <2>1, <2>3 DEF Labelled, Ranked
  <2>5. FlattenSeq(ps) \in Seq(Table)
    BY <1>3, <2>4, PiecesShow
  <2>6. CASE \A n \in DOMAIN ps : ~Holds(ps[n], a)
    <3>1. View(c, a) = Free
      BY <1>1, <1>3, <2>4, <2>6, PiecesShow
    <3> QED
      BY <2>5, <3>1 DEF Free
  <2>7. CASE \E n \in DOMAIN ps : Holds(ps[n], a)
    <3> DEFINE H == {n \in DOMAIN ps : Holds(ps[n], a)}
    <3>1. H \in SUBSET Nat /\ H # {}
      BY <1>3, <2>7
    <3>2. PICK m \in H : \A n \in H : m <= n
      <4> HIDE DEF H
      <4> QED
        BY <3>1, LeastNumber
    <3>3. m \in DOMAIN ps /\ Holds(ps[m], a) /\ \A n \in DOMAIN ps : n < m => ~Holds(ps[n], a)
      BY <1>3, <3>2
    <3>4. View(c, a) = val[m]
      BY <1>1, <1>3, <2>4, <3>3, PiecesShow
    <3> QED
      BY <1>3, <2>2, <2>5, <3>3, <3>4
  <2> QED
    BY <2>6, <2>7
<1>6. 0 \in Nat
  OBVIOUS
<1> HIDE DEF ps
<1>7. c \in Seq(Table) /\ InOrder(c)
  BY <1>1, <1>4, <1>5, <1>6, SortKeeps
<1> QED
  BY <1>4, <1>5, <1>7 DEF c

\* Regions that keep their ranges are found where they were.
LEMMA SameRanges ==
    ASSUME MemoryAssumption, NEW rs \in Seq(Table), NEW fs \in Seq(Table), DOMAIN fs = DOMAIN rs,
           \A i \in DOMAIN rs : fs[i].base = rs[i].base /\ fs[i].size = rs[i].size, NEW a \in Nat
    PROVE  Find(fs, a) = Find(rs, a)
<1>1. rs \in Seq(RegionType) /\ fs \in Seq(RegionType) /\ DOMAIN rs \in SUBSET Nat
  BY DEF Table
<1>2. \A i \in DOMAIN rs : In(a, fs[i]) <=> In(a, rs[i])
  BY DEF In, End
<1>3. Holds(fs, a) <=> Holds(rs, a)
  BY <1>2 DEF Holds
<1>4. CASE Holds(rs, a)
  <2>1. /\ Find(rs, a) \in DOMAIN rs /\ In(a, rs[Find(rs, a)])
        /\ \A i \in DOMAIN rs : In(a, rs[i]) => Find(rs, a) <= i
    BY <1>1, <1>4, FindsFirst
  <2>2. /\ Find(fs, a) \in DOMAIN fs /\ In(a, fs[Find(fs, a)])
        /\ \A i \in DOMAIN fs : In(a, fs[i]) => Find(fs, a) <= i
    BY <1>1, <1>3, <1>4, FindsFirst
  <2>3. Find(rs, a) <= Find(fs, a) /\ Find(fs, a) <= Find(rs, a) /\ Find(rs, a) \in Nat /\ Find(fs, a) \in Nat
    BY <1>1, <1>2, <2>1, <2>2
  <2> QED
    BY <2>3
<1>5. CASE ~Holds(rs, a)
  BY <1>1, <1>3, <1>5, FindsFirst
<1> QED
  BY <1>4, <1>5

\* A region given another protection or state.
Replace(rs, k, p, st) == [rs EXCEPT ![k] = Region(rs[k].base, rs[k].size, p, st)]

LEMMA Replaced ==
    ASSUME MemoryAssumption, NEW rs \in Seq(Table), InOrder(rs), NEW k \in DOMAIN rs,
           NEW p \in Protection, NEW st \in State
    PROVE  LET fs == Replace(rs, k, p, st) IN
           /\ fs \in Seq(Table) /\ InOrder(fs) /\ DOMAIN fs = DOMAIN rs
           /\ \A a \in Nat : Find(fs, a) = Find(rs, a)
           /\ fs[k].protect = p /\ fs[k].state = st /\ \A i \in DOMAIN rs : i # k => fs[i] = rs[i]
<1> DEFINE r == Region(rs[k].base, rs[k].size, p, st)
           fs == Replace(rs, k, p, st)
<1>1. rs[k] \in Table
  OBVIOUS
<1>2. r \in Table /\ r.base = rs[k].base /\ r.size = rs[k].size /\ r.protect = p /\ r.state = st
  <2>1. rs[k].base \in Nat /\ rs[k].size \in Nat /\ rs[k].base + rs[k].size <= Top
    BY <1>1, TableOf
  <2>2. r \in Table
    BY <2>1, InTable
  <2> QED
    BY <2>2 DEF Region
<1> HIDE DEF r
<1>3. fs = [rs EXCEPT ![k] = r]
  BY DEF r, Replace
<1> HIDE DEF fs
<1>4. fs \in Seq(Table) /\ DOMAIN fs = DOMAIN rs
  BY <1>2, <1>3
<1>5. fs[k] = r /\ \A i \in DOMAIN rs : i # k => fs[i] = rs[i]
  BY <1>3
<1>6. \A i \in DOMAIN rs : fs[i].base = rs[i].base /\ fs[i].size = rs[i].size
  BY <1>2, <1>5
<1>7. InOrder(fs)
  BY <1>4, <1>6 DEF InOrder
<1> QED
  BY <1>2, <1>4, <1>5, <1>6, <1>7, SameRanges DEF fs

LEMMA UnguardedOf ==
    ASSUME NEW st, NEW p
    PROVE  Unguarded([state |-> st, protect |-> p]) = [state |-> st, protect |-> p \ {"G"}]
<1>1. PICK v : v = [state |-> st, protect |-> p]
  OBVIOUS
<1>2. PICK q : q = p \ {"G"}
  OBVIOUS
<1>3. [v EXCEPT !.protect = q] = [state |-> st, protect |-> q]
  BY <1>1
<1>4. Unguarded(v) = [v EXCEPT !.protect = q]
  BY <1>1, <1>2 DEF Unguarded
<1> QED
  BY <1>1, <1>2, <1>3, <1>4

\* A fault costs the region its guard at most.
LEMMA FaultKeeps ==
    ASSUME MemoryAssumption, NEW rs \in Seq(Table), InOrder(rs), NEW a \in Nat, NEW kind
    PROVE  LET fs == AfterFault(rs, a, kind) IN
           /\ fs \in Seq(Table) /\ InOrder(fs)
           /\ \A x \in Nat : View(fs, x) = View(rs, x) \/ View(fs, x) = Unguarded(View(rs, x))
           /\ Fault(fs, a, kind) # "guard"
<1> DEFINE fs == AfterFault(rs, a, kind)
           k == Find(rs, a)
<1>1. CASE Fault(rs, a, kind) # "guard"
  BY <1>1 DEF AfterFault
<1>2. CASE Fault(rs, a, kind) = "guard"
  <2>1. k # 0
    BY <1>2 DEF Fault
  <2>2. k \in DOMAIN rs /\ rs \in Seq(RegionType)
    <3>1. rs \in Seq(RegionType)
      BY DEF Table
    <3> QED
      BY <2>1, <3>1, FindsFirst
  <2>3. rs[k] \in Table /\ rs[k] \in RegionType
    BY <2>2
  <2>4. PICK p \in Protection, st \in State : p = rs[k].protect \ {"G"} /\ st = rs[k].state
    BY <2>3, TableOf DEF Protection
  <2>5. [rs[k] EXCEPT !.protect = rs[k].protect \ {"G"}] = Region(rs[k].base, rs[k].size, p, st)
    <3>1. PICK r \in RegionType : r = rs[k]
      BY <2>3
    <3>2. [r EXCEPT !.protect = p] = Region(r.base, r.size, p, r.state)
      BY Reprotected
    <3> QED
      BY <2>4, <3>1, <3>2
  <2>6. fs = [rs EXCEPT ![k] = Region(rs[k].base, rs[k].size, p, st)]
    BY <1>2, <2>5 DEF AfterFault
  <2> HIDE DEF fs, k
  <2>7. /\ fs \in Seq(Table) /\ InOrder(fs) /\ DOMAIN fs = DOMAIN rs
        /\ \A x \in Nat : Find(fs, x) = Find(rs, x)
        /\ fs[k].protect = p /\ fs[k].state = st /\ \A i \in DOMAIN rs : i # k => fs[i] = rs[i]
    <3>1. fs = Replace(rs, k, p, st)
      BY <2>6 DEF Replace
    <3> QED
      BY <2>2, <3>1, Replaced
  <2>8. ASSUME NEW x \in Nat
        PROVE  View(fs, x) = View(rs, x) \/ View(fs, x) = Unguarded(View(rs, x))
    <3>1. Find(fs, x) = Find(rs, x)
      BY <2>7
    <3>2. CASE Find(rs, x) = k
      <4>1. k # 0
        BY <2>1 DEF k
      <4>2. /\ View(fs, x) = [state |-> st, protect |-> p]
            /\ View(rs, x) = [state |-> st, protect |-> rs[k].protect]
        BY <2>4, <2>7, <3>1, <3>2, <4>1 DEF View
      <4>3. Unguarded([state |-> st, protect |-> rs[k].protect]) =
               [state |-> st, protect |-> rs[k].protect \ {"G"}]
        BY UnguardedOf
      <4> QED
        BY <2>4, <4>2, <4>3
    <3>3. CASE Find(rs, x) # k
      <4>1. Find(rs, x) = 0 \/ Find(rs, x) \in DOMAIN rs
        BY <2>2, FindsFirst
      <4> QED
        BY <2>7, <3>1, <3>3, <4>1 DEF View
    <3> QED
      BY <3>2, <3>3
  <2>9. Fault(fs, a, kind) # "guard"
    <3>1. Find(fs, a) = k /\ "G" \notin fs[k].protect
      BY <2>4, <2>7 DEF k
    <3> QED
      BY <3>1 DEF Fault
  <2> QED
    BY <2>7, <2>8, <2>9 DEF fs
<1> QED
  BY <1>1, <1>2

-----------------------------------------------------------------------------
(* The table stays one of regions inside the address space, in order.      *)

MemInv == regions \in Seq(Table) /\ InOrder(regions) /\ nextVa \in Nat

LEMMA Paging ==
    ASSUME MemoryAssumption, NEW a \in Nat
    PROVE  PageDown(a) \in Nat /\ PageDown(a) <= a
<1>1. PICK p \in Nat \ {0} : p = PageSize
  BY DEF MemoryAssumption
<1>2. PICK q \in Nat, m \in Nat : a = (q * p) + m /\ q = a \div p
  <2>1. a \div p \in Nat /\ a % p \in Nat /\ a = ((a \div p) * p) + (a % p)
    OBVIOUS
  <2> QED
    BY <2>1
<1>3. q * p \in Nat
  OBVIOUS
<1> QED
  BY <1>1, <1>2, <1>3 DEF PageDown

LEMMA Rounding ==
    ASSUME MemoryAssumption, NEW a \in Nat
    PROVE  RoundUp(a, Granularity) \in Nat
<1>1. PICK g \in Nat \ {0} : g = Granularity
  BY DEF MemoryAssumption
<1>2. (a + g - 1) \div g \in Nat
  <2>1. PICK n \in Nat : n = a + g - 1
    OBVIOUS
  <2>2. n \div g \in Nat
    OBVIOUS
  <2> QED
    BY <2>1, <2>2
<1>3. ((a + g - 1) \div g) * g \in Nat
  BY <1>2
<1> QED
  BY <1>1, <1>3 DEF RoundUp

LEMMA Inputs ==
    ASSUME MemoryAssumption
    PROVE  /\ Top \in Nat /\ PageSize \in Nat /\ VaBase \in Nat /\ Address \subseteq Nat
           /\ \A a \in Address : a < Top
           /\ Bases \subseteq Address /\ Pointers \subseteq Address /\ Sizes \subseteq Nat
           /\ Prots \subseteq Protection
  BY DEF MemoryAssumption, Address, Protection

LEMMA MemInvInit ==
    ASSUME MemoryAssumption, MemoryInit
    PROVE  MemInv
<1>1. Mapped \in Seq(Table)
  <2>1. Mapped \in Seq(RegionType) /\ \A k \in DOMAIN Mapped : End(Mapped[k]) <= Top
    BY DEF MemoryAssumption
  <2>2. \A k \in DOMAIN Mapped : Mapped[k] \in Table
    BY <2>1 DEF Table
  <2> QED
    BY <2>1, <2>2
<1> QED
  BY <1>1, SortKeeps, Inputs DEF MemoryInit, MemInv

LEMMA AllocStep ==
    ASSUME MemoryAssumption, MemInv, NEW hint \in Nat, NEW size \in Sizes, NEW prot \in Prots,
           NEW type \in {"reserve", "commit", "both"}, VirtualAlloc(hint, size, type, prot)
    PROVE  MemInv' /\ last'.op = "alloc"
<1> DEFINE sz == PageDown(IF size = 0 THEN PageSize ELSE size)
           base == IF hint = 0 THEN nextVa ELSE PageDown(hint)
           k == Find(regions, base)
           commit == [regions EXCEPT ![k] = [regions[k] EXCEPT !.state = "commit", !.protect = prot]]
           new == Region(base, sz, prot, IF type = "reserve" THEN "reserve" ELSE "commit")
<1>1. size \in Nat /\ prot \in Protection /\ nextVa \in Nat
  BY Inputs DEF MemInv
<1>2. sz \in Nat /\ base \in Nat
  <2>1. PageSize \in Nat
    BY Inputs
  <2> QED
    BY <1>1, <2>1, Paging
<1>3. \/ sz = 0 /\ UNCHANGED <<regions, nextVa>>
      \/ sz > 0 /\ base + sz <= Top /\ type = "commit" /\ k # 0 /\ regions' = AfterFault(commit, base, "W")
      \/ sz > 0 /\ base + sz <= Top /\ regions' = MapRegion(regions, new)
  BY DEF VirtualAlloc
<1>4. nextVa' = nextVa \/ nextVa' = RoundUp(nextVa + sz, Granularity)
  BY DEF VirtualAlloc
<1>5. last'.op = "alloc"
  BY DEF VirtualAlloc, Call
<1> HIDE DEF sz, base
<1>6. nextVa' \in Nat
  <2>1. nextVa + sz \in Nat
    BY <1>1, <1>2
  <2> QED
    BY <1>1, <1>4, <2>1, Rounding
<1>7. CASE sz = 0 /\ UNCHANGED <<regions, nextVa>>
  BY <1>5, <1>7 DEF MemInv
<1>8. CASE k # 0 /\ regions' = AfterFault(commit, base, "W")
  <2>1. k \in DOMAIN regions /\ regions[k] \in RegionType
    <3>1. regions \in Seq(RegionType)
      BY DEF MemInv, Table
    <3>2. k \in DOMAIN regions
      BY <1>2, <1>8, <3>1, FindsFirst
    <3> QED
      BY <3>1, <3>2
  <2>2. commit = Replace(regions, k, prot, "commit")
    <3>1. PICK r \in RegionType : r = regions[k]
      BY <2>1
    <3>2. [r EXCEPT !.state = "commit", !.protect = prot] = Region(r.base, r.size, prot, "commit")
      BY Reprotected
    <3> QED
      BY <3>1, <3>2 DEF Replace
  <2> HIDE DEF commit, k
  <2>3. commit \in Seq(Table) /\ InOrder(commit)
    <3>1. "commit" \in State
      BY DEF State
    <3> QED
      BY <1>1, <2>1, <2>2, <3>1, Replaced DEF MemInv
  <2>4. regions' \in Seq(Table) /\ InOrder(regions')
    BY <1>2, <1>8, <2>3, FaultKeeps
  <2> QED
    BY <1>5, <1>6, <2>4 DEF MemInv, InOrder
<1>9. CASE base + sz <= Top /\ regions' = MapRegion(regions, new)
  <2>1. (IF type = "reserve" THEN "reserve" ELSE "commit") \in State
    BY DEF State
  <2>2. new \in Table
    BY <1>1, <1>2, <1>9, <2>1, InTable
  <2> HIDE DEF new
  <2>3. Append(regions, new) \in Seq(Table)
    BY <2>2 DEF MemInv
  <2>4. regions' \in Seq(Table) /\ InOrder(regions')
    BY <1>9, <2>3, SortKeeps DEF MapRegion
  <2> QED
    BY <1>5, <1>6, <2>4 DEF MemInv, InOrder
<1> QED
  BY <1>3, <1>7, <1>8, <1>9

\* What the guest sees is a state and a protection.
LEMMA ViewShape ==
    ASSUME NEW rs, NEW a
    PROVE  View(rs, a) = [state |-> View(rs, a).state, protect |-> View(rs, a).protect]
  BY DEF View

\* protect: every mapped address in the range shows the new protection, nothing else changes but
\* a guard the write of the old protection met.
LEMMA ProtectStep ==
    ASSUME MemoryAssumption, MemInv, NEW addr \in Bases, NEW size \in Sizes, NEW prot \in Prots,
           NEW oldPtr \in Pointers, VirtualProtect(addr, size, prot, oldPtr)
    PROVE  /\ MemInv'
           /\ last'.op = "protect" /\ last'.prot = prot /\ last'.from \in Nat /\ last'.to \in Nat
           /\ \A a \in Nat :
                LET w == IF InRange(a, last'.from, last'.to) /\ View(regions, a).state # "free"
                         THEN [state |-> View(regions, a).state, protect |-> prot]
                         ELSE View(regions, a) IN
                View(regions', a) = w \/ View(regions', a) = Unguarded(w)
<1> DEFINE b == PageDown(addr)
           e == b + size
           cut == Protected(regions, b, e, prot)
<1>1. b \in Nat /\ e \in Nat /\ b <= e /\ prot \in Protection /\ oldPtr \in Nat
  <2>1. addr \in Nat /\ size \in Nat /\ b \in Nat
    BY Inputs, Paging
  <2> HIDE DEF b
  <2> QED
    BY <2>1, Inputs
<1>2. /\ regions' = IF oldPtr = 0 THEN cut ELSE AfterFault(cut, oldPtr, "W")
      /\ last' = Call("protect", addr, b, e, prot, TRUE) /\ nextVa' = nextVa
  BY DEF VirtualProtect, Cut, Protected, ProtectPart
<1> HIDE DEF b, e
<1>3. /\ cut \in Seq(Table) /\ InOrder(cut)
      /\ \A a \in Nat : View(cut, a) =
           IF InRange(a, b, e) /\ View(regions, a).state # "free"
           THEN [state |-> View(regions, a).state, protect |-> prot] ELSE View(regions, a)
  BY <1>1, ProtectCut DEF MemInv
<1> HIDE DEF cut
<1>4. /\ regions' \in Seq(Table) /\ InOrder(regions')
      /\ \A a \in Nat : View(regions', a) = View(cut, a) \/ View(regions', a) = Unguarded(View(cut, a))
  <2>1. CASE oldPtr = 0
    BY <1>2, <1>3, <2>1
  <2>2. CASE oldPtr # 0
    BY <1>1, <1>2, <1>3, <2>2, FaultKeeps
  <2> QED
    BY <2>1, <2>2
<1>5. last'.op = "protect" /\ last'.prot = prot /\ last'.from = b /\ last'.to = e
  BY <1>2 DEF Call
<1>6. MemInv'
  BY <1>2, <1>4 DEF MemInv, InOrder
<1> QED
  BY <1>1, <1>3, <1>4, <1>5, <1>6

LEMMA FreeStep ==
    ASSUME MemoryAssumption, MemInv, NEW addr \in Bases, NEW size \in Sizes,
           NEW type \in {"release", "decommit"}, VirtualFree(addr, size, type)
    PROVE  /\ MemInv'
           /\ last'.op = type /\ last'.from \in Nat /\ last'.to \in Nat
           /\ \A a \in Nat :
                IF InRange(a, last'.from, last'.to)
                THEN View(regions', a).state \in (IF type = "release" THEN {"free"} ELSE {"free", "reserve"})
                ELSE View(regions', a) = View(regions, a)
<1> DEFINE b == PageDown(addr)
           e == IF size = 0 THEN Top ELSE b + size
           released == Released(regions, b, e)
           decommitted == Decommitted(regions, b, e)
<1>0. regions \in Seq(Table) /\ InOrder(regions)
  BY DEF MemInv
<1>1. b \in Nat /\ e \in Nat /\ b <= e
  <2>1. addr \in Nat /\ addr < Top /\ Top \in Nat /\ size \in Nat /\ b \in Nat /\ b <= addr
    BY Inputs, Paging
  <2> HIDE DEF b
  <2> QED
    BY <2>1
<1>2. /\ regions' = IF type = "decommit" THEN decommitted ELSE released
      /\ last'.op = type /\ last'.from = b /\ last'.to = e /\ nextVa' = nextVa
  BY DEF VirtualFree, Call, Cut, Released, Decommitted, ReleasePart, DecommitPart
<1> HIDE DEF b, e
<1>3. CASE type = "release"
  <2>1. /\ released \in Seq(Table) /\ InOrder(released)
        /\ \A a \in Nat : View(released, a) = IF InRange(a, b, e) THEN Free ELSE View(regions, a)
    <3>1. PICK rs \in Seq(Table), x \in Nat, y \in Nat : rs = regions /\ x = b /\ y = e
      BY <1>0, <1>1
    <3>2. InOrder(rs) /\ x <= y
      BY <1>0, <1>1, <3>1
    <3>3. Released(rs, x, y) \in Seq(Table) /\ InOrder(Released(rs, x, y))
      BY <3>2, ReleaseCut
    <3>4. \A a \in Nat : View(Released(rs, x, y), a) = IF InRange(a, x, y) THEN Free ELSE View(rs, a)
      BY <3>2, ReleaseCut
    <3> QED
      BY <3>1, <3>3, <3>4
  <2>2. regions' = released
    BY <1>2, <1>3
  <2> HIDE DEF released
  <2>3. MemInv'
    BY <1>2, <2>1, <2>2 DEF MemInv, InOrder
  <2>4. Free.state = "free"
    BY DEF Free
  <2> QED
    BY <1>1, <1>2, <1>3, <2>1, <2>2, <2>3, <2>4
<1>4. CASE type = "decommit"
  <2>1. /\ decommitted \in Seq(Table) /\ InOrder(decommitted)
        /\ \A a \in Nat : IF InRange(a, b, e) THEN View(decommitted, a).state \in {"free", "reserve"}
                          ELSE View(decommitted, a) = View(regions, a)
    <3>1. PICK rs \in Seq(Table), x \in Nat, y \in Nat : rs = regions /\ x = b /\ y = e
      BY <1>0, <1>1
    <3>2. InOrder(rs) /\ x <= y
      BY <1>0, <1>1, <3>1
    <3>3. Decommitted(rs, x, y) \in Seq(Table) /\ InOrder(Decommitted(rs, x, y))
      BY <3>2, DecommitCut
    <3>4. \A a \in Nat : IF InRange(a, x, y) THEN View(Decommitted(rs, x, y), a).state \in {"free", "reserve"}
                         ELSE View(Decommitted(rs, x, y), a) = View(rs, a)
      BY <3>2, DecommitCut
    <3> QED
      BY <3>1, <3>3, <3>4
  <2>2. regions' = decommitted
    BY <1>2, <1>4
  <2> HIDE DEF decommitted
  <2>3. MemInv'
    BY <1>2, <2>1, <2>2 DEF MemInv, InOrder
  <2> QED
    BY <1>1, <1>2, <1>4, <2>1, <2>2, <2>3
<1> QED
  BY <1>3, <1>4

LEMMA AccessStep ==
    ASSUME MemoryAssumption, MemInv, NEW a \in Address, NEW kind \in {"R", "W", "X"}, Access(a, kind)
    PROVE  /\ MemInv'
           /\ last'.op = kind /\ last'.addr = a
           /\ \A x \in Nat :
                View(regions', x) = View(regions, x) \/ View(regions', x) = Unguarded(View(regions, x))
           /\ Fault(regions', a, kind) # "guard"
<1>1. a \in Nat
  BY Inputs
<1>2. regions' = AfterFault(regions, a, kind) /\ nextVa' = nextVa /\ last'.op = kind /\ last'.addr = a
  BY DEF Access, Call
<1>3. /\ regions' \in Seq(Table) /\ InOrder(regions')
      /\ \A x \in Nat :
           View(regions', x) = View(regions, x) \/ View(regions', x) = Unguarded(View(regions, x))
      /\ Fault(regions', a, kind) # "guard"
  BY <1>1, <1>2, FaultKeeps DEF MemInv
<1> QED
  BY <1>2, <1>3 DEF MemInv, InOrder

LEMMA MemInvNext ==
    ASSUME MemoryAssumption, MemInv, [MemoryNext]_memoryVars
    PROVE  MemInv'
<1>1. CASE \E hint \in Bases \cup {0}, size \in Sizes, prot \in Prots,
              type \in {"reserve", "commit", "both"} : VirtualAlloc(hint, size, type, prot)
  <2>1. PICK hint \in Bases \cup {0}, size \in Sizes, prot \in Prots,
             type \in {"reserve", "commit", "both"} : VirtualAlloc(hint, size, type, prot)
    BY <1>1
  <2>2. hint \in Nat
    BY Inputs
  <2> QED
    BY <2>1, <2>2, AllocStep
<1>2. CASE \E addr \in Bases, size \in Sizes, prot \in Prots,
              oldPtr \in Pointers : VirtualProtect(addr, size, prot, oldPtr)
  BY <1>2, ProtectStep
<1>3. CASE \E addr \in Bases, size \in Sizes, type \in {"release", "decommit"} :
              VirtualFree(addr, size, type)
  BY <1>3, FreeStep
<1>4. CASE \E a \in Address, kind \in {"R", "W", "X"} : Access(a, kind)
  BY <1>4, AccessStep
<1>5. CASE UNCHANGED memoryVars
  BY <1>5 DEF MemInv, InOrder, memoryVars
<1> QED
  BY <1>1, <1>2, <1>3, <1>4, <1>5 DEF MemoryNext

LEMMA MemInvHolds == MemorySpec => []MemInv
<1>1. MemoryInit => MemInv
  BY MemoryAssumption, MemInvInit
<1>2. MemInv /\ [MemoryNext]_memoryVars => MemInv'
  BY MemoryAssumption, MemInvNext
<1> QED
  BY <1>1, <1>2, PTL DEF MemorySpec

\* MemoryManager.regions stays a list of regions sorted by base (memory.mjs: "sorted by base"),
\* whatever is allocated, protected, released, decommitted or accessed.
THEOREM MemoryTypeCorrect == MemorySpec => []MemoryTypeOK
<1>1. MemInv => MemoryTypeOK
  BY DEF MemInv, MemoryTypeOK, InOrder, Table
<1> QED
  BY <1>1, MemInvHolds, PTL

-----------------------------------------------------------------------------
(* The range calls do what they say.                                       *)

LEMMA Same ==
    ASSUME NEW v, v = [state |-> v.state, protect |-> v.protect], NEW p
    PROVE  /\ Unguarded(v).state = v.state
           /\ [v EXCEPT !.protect = p] = [state |-> v.state, protect |-> p]
<1>1. PICK s, q : v = [state |-> s, protect |-> q]
  BY Zenon
<1>2. Unguarded(v) = [state |-> s, protect |-> q \ {"G"}]
  BY <1>1, UnguardedOf
<1>3. [v EXCEPT !.protect = p] = [state |-> s, protect |-> p]
  BY <1>1
<1> QED
  BY <1>1, <1>2, <1>3

\* The parts of RangeCallsHold a step has to keep.
RangeCalls == RangeCallsAreLocal /\ ProtectOnlyProtects /\ FreedIsGone /\ OnlyAllocCommits

LEMMA AllocRange ==
    ASSUME last'.op = "alloc"
    PROVE  RangeCalls
  BY DEF RangeCalls, RangeCallsAreLocal, ProtectOnlyProtects, FreedIsGone, OnlyAllocCommits

LEMMA ProtectRange ==
    ASSUME MemoryAssumption, MemInv, NEW addr \in Bases, NEW size \in Sizes, NEW prot \in Prots,
           NEW oldPtr \in Pointers, VirtualProtect(addr, size, prot, oldPtr)
    PROVE  RangeCalls
<1> DEFINE W(a) == IF InRange(a, last'.from, last'.to) /\ View(regions, a).state # "free"
                   THEN [state |-> View(regions, a).state, protect |-> prot]
                   ELSE View(regions, a)
<1>1. last'.op = "protect" /\ last'.prot = prot /\ last'.from \in Nat /\ last'.to \in Nat
  BY ProtectStep
<1>2. \A a \in Nat : View(regions', a) = W(a) \/ View(regions', a) = Unguarded(W(a))
  BY ProtectStep
<1>3. ASSUME NEW a \in Nat PROVE W(a).state = View(regions, a).state /\ Unguarded(W(a)).state = W(a).state
  <2>1. W(a) = [state |-> W(a).state, protect |-> W(a).protect] /\ W(a).state = View(regions, a).state
    BY ViewShape
  <2> HIDE DEF W
  <2> QED
    BY <2>1, Same
<1>4. \A a \in Nat : (a \in last'.from..(last'.to - 1)) <=> InRange(a, last'.from, last'.to)
  BY <1>1 DEF InRange
<1>5. RangeCallsAreLocal
  <2> SUFFICES ASSUME NEW a \in Address \ (last'.from..(last'.to - 1))
               PROVE  SameView(View(regions', a), View(regions, a))
    BY DEF RangeCallsAreLocal
  <2>1. a \in Nat /\ W(a) = View(regions, a)
    BY <1>4, Inputs
  <2> QED
    BY <1>1, <1>2, <2>1 DEF SameView
<1>6. ProtectOnlyProtects
  <2> SUFFICES ASSUME NEW a \in Address \cap (last'.from..(last'.to - 1))
               PROVE  SameView(View(regions', a),
                               IF View(regions, a).state = "free" THEN View(regions, a)
                               ELSE [View(regions, a) EXCEPT !.protect = last'.prot])
    BY DEF ProtectOnlyProtects
  <2>1. a \in Nat /\ InRange(a, last'.from, last'.to)
    BY <1>4, Inputs
  <2>2. [View(regions, a) EXCEPT !.protect = last'.prot] =
           [state |-> View(regions, a).state, protect |-> prot]
    BY <1>1, ViewShape, Same
  <2>3. W(a) = IF View(regions, a).state = "free" THEN View(regions, a)
               ELSE [View(regions, a) EXCEPT !.protect = last'.prot]
    BY <2>1, <2>2
  <2> HIDE DEF W
  <2> QED
    BY <1>1, <1>2, <2>1, <2>3 DEF SameView
<1>7. OnlyAllocCommits
  <2> HIDE DEF W
  <2>1. \A a \in Address : View(regions', a).state = View(regions, a).state
    BY <1>2, <1>3, Inputs
  <2> QED
    BY <2>1 DEF OnlyAllocCommits, Committed
<1>8. FreedIsGone
  BY <1>1 DEF FreedIsGone
<1> QED
  BY <1>5, <1>6, <1>7, <1>8 DEF RangeCalls

LEMMA FreeRange ==
    ASSUME MemoryAssumption, MemInv, NEW addr \in Bases, NEW size \in Sizes,
           NEW type \in {"release", "decommit"}, VirtualFree(addr, size, type)
    PROVE  RangeCalls
<1>1. last'.op = type /\ last'.from \in Nat /\ last'.to \in Nat
  BY FreeStep
<1>2. \A a \in Nat :
         IF InRange(a, last'.from, last'.to)
         THEN View(regions', a).state \in (IF type = "release" THEN {"free"} ELSE {"free", "reserve"})
         ELSE View(regions', a) = View(regions, a)
  BY FreeStep
<1>3. \A a \in Nat : (a \in last'.from..(last'.to - 1)) <=> InRange(a, last'.from, last'.to)
  BY <1>1 DEF InRange
<1>4. RangeCallsAreLocal
  BY <1>2, <1>3, Inputs DEF RangeCallsAreLocal, SameView
<1>5. ProtectOnlyProtects
  BY <1>1 DEF ProtectOnlyProtects
<1>6. FreedIsGone
  BY <1>1, <1>2, <1>3, Inputs DEF FreedIsGone
<1>7. OnlyAllocCommits
  BY <1>2, Inputs DEF OnlyAllocCommits, Committed
<1> QED
  BY <1>4, <1>5, <1>6, <1>7 DEF RangeCalls

LEMMA AccessRange ==
    ASSUME MemoryAssumption, MemInv, NEW a \in Address, NEW kind \in {"R", "W", "X"}, Access(a, kind)
    PROVE  RangeCalls
<1>1. last'.op = kind
  BY AccessStep
<1>2. \A x \in Nat : View(regions', x) = View(regions, x) \/ View(regions', x) = Unguarded(View(regions, x))
  BY AccessStep
<1>3. \A x \in Address : View(regions', x).state = View(regions, x).state
  BY <1>2, ViewShape, Same, Inputs
<1>4. OnlyAllocCommits
  BY <1>3 DEF OnlyAllocCommits, Committed
<1> QED
  BY <1>1, <1>4 DEF RangeCalls, RangeCallsAreLocal, ProtectOnlyProtects, FreedIsGone

\* VirtualProtect and VirtualFree change their range as they say and no other address, and only
\* VirtualAlloc commits memory, however the regions of the table overlap.
THEOREM MemoryRangeCalls == MemorySpec => RangeCallsHold
<1>1. MemInv /\ [MemoryNext]_memoryVars => [RangeCalls]_memoryVars
  <2> SUFFICES ASSUME MemInv, MemoryNext PROVE RangeCalls
    OBVIOUS
  <2>1. CASE \E hint \in Bases \cup {0}, size \in Sizes, prot \in Prots,
                type \in {"reserve", "commit", "both"} : VirtualAlloc(hint, size, type, prot)
    <3>1. PICK hint \in Bases \cup {0}, size \in Sizes, prot \in Prots,
               type \in {"reserve", "commit", "both"} : VirtualAlloc(hint, size, type, prot)
      BY <2>1
    <3>2. hint \in Nat
      BY MemoryAssumption, Inputs
    <3> QED
      BY <3>1, <3>2, MemoryAssumption, AllocStep, AllocRange
  <2>2. CASE \E addr \in Bases, size \in Sizes, prot \in Prots,
                oldPtr \in Pointers : VirtualProtect(addr, size, prot, oldPtr)
    BY <2>2, MemoryAssumption, ProtectRange
  <2>3. CASE \E addr \in Bases, size \in Sizes, type \in {"release", "decommit"} :
                VirtualFree(addr, size, type)
    BY <2>3, MemoryAssumption, FreeRange
  <2>4. CASE \E a \in Address, kind \in {"R", "W", "X"} : Access(a, kind)
    BY <2>4, MemoryAssumption, AccessRange
  <2> QED
    BY <2>1, <2>2, <2>3, <2>4 DEF MemoryNext
<1>2. RangeCallsHold <=> [][RangeCalls]_memoryVars
  BY DEF RangeCallsHold, RangeCalls
<1> QED
  BY <1>1, <1>2, MemInvHolds, PTL DEF MemorySpec

\* PAGE_GUARD is one-shot: the access that met it does not fault on it again.
THEOREM MemoryGuardOnce == MemorySpec => GuardFaultsOnce
<1> DEFINE Once == last'.op \in {"R", "W", "X"} /\ ~last'.ok =>
                      Fault(regions', last'.addr, last'.op) # "guard"
<1>1. MemInv /\ [MemoryNext]_memoryVars => [Once]_memoryVars
  <2> SUFFICES ASSUME MemInv, MemoryNext, last'.op \in {"R", "W", "X"}
               PROVE  Fault(regions', last'.addr, last'.op) # "guard"
    OBVIOUS
  <2>1. CASE \E hint \in Bases \cup {0}, size \in Sizes, prot \in Prots,
                type \in {"reserve", "commit", "both"} : VirtualAlloc(hint, size, type, prot)
    <3>1. PICK hint \in Bases \cup {0}, size \in Sizes, prot \in Prots,
               type \in {"reserve", "commit", "both"} : VirtualAlloc(hint, size, type, prot)
      BY <2>1
    <3>2. hint \in Nat
      BY MemoryAssumption, Inputs
    <3> QED
      BY <3>1, <3>2, MemoryAssumption, AllocStep
  <2>2. CASE \E addr \in Bases, size \in Sizes, prot \in Prots,
                oldPtr \in Pointers : VirtualProtect(addr, size, prot, oldPtr)
    BY <2>2, MemoryAssumption, ProtectStep
  <2>3. CASE \E addr \in Bases, size \in Sizes, type \in {"release", "decommit"} :
                VirtualFree(addr, size, type)
    BY <2>3, MemoryAssumption, FreeStep
  <2>4. CASE \E a \in Address, kind \in {"R", "W", "X"} : Access(a, kind)
    BY <2>4, MemoryAssumption, AccessStep
  <2> QED
    BY <2>1, <2>2, <2>3, <2>4 DEF MemoryNext
<1>2. GuardFaultsOnce <=> [][Once]_memoryVars
  BY DEF GuardFaultsOnce
<1> QED
  BY <1>1, <1>2, MemInvHolds, PTL DEF MemorySpec
=============================================================================
