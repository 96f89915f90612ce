----------------------------- MODULE MemoryArena ----------------------------
(***************************************************************************)
(* API::MemoryArena (API_MemoryArena.cpp): a first-fit allocator of byte   *)
(* regions of one GPU buffer.  Each instance has two, for vertices and for *)
(* indices; every render mesh owns a region of each.                       *)
(***************************************************************************)
EXTENDS Integers, Sequences, SequencesExt

CONSTANTS
  Slots,      \* holders of a region (a render mesh)
  Requests,   \* the sizes that are asked for
  StartSize,  \* the size the arena is constructed with
  MaxBytes,   \* bound: the arena never grows beyond this
  NoPtr       \* a slot that holds no pointer

ASSUME ArenaAssumption ==
  /\ Requests \subseteq Nat
  /\ StartSize \in 0 .. MaxBytes
  /\ MaxBytes \in Nat

Region == [start : Nat, size : Nat]
ASSUME PointerAssumption == NoPtr \notin Region

Reg(start, size) == [start |-> start, size |-> size]
EndOf(r) == r.start + r.size

VARIABLES
  size,         \* m_size
  allowResize,  \* m_allowResize
  free,         \* m_free, in the vector's order
  ptr,          \* the pointer each slot holds
  refused,      \* slots whose release() returned false: nobody frees them again
  nulled,       \* history: a null pointer was released
  crashed       \* m_free.erase(m_free.end()) brought the program down

arenaVars == <<size, allowResize, free, ptr, refused, nulled, crashed>>

ArenaInit ==
  /\ size = StartSize
  /\ allowResize \in BOOLEAN
  /\ free = <<Reg(0, StartSize)>>
  /\ ptr = [s \in Slots |-> NoPtr]
  /\ refused = {}
  /\ nulled = FALSE
  /\ crashed = FALSE

-----------------------------------------------------------------------------
(* allocate *)

Fits(n) == {i \in DOMAIN free : free[i].size >= n}

\* mutant: the rest of the region keeps the start of the whole
FirstFitKeepsStart(s, n) ==
  /\ Fits(n) # {}
  /\ LET i == CHOOSE k \in Fits(n) : \A l \in Fits(n) : k <= l
     IN  /\ ptr' = [ptr EXCEPT ![s] = Reg(free[i].start, n)]
         /\ free' = IF free[i].size = n
                    THEN RemoveAt(free, i)
                    ELSE [free EXCEPT ![i].size = @ - n]
  /\ UNCHANGED <<size, allowResize, refused, crashed, nulled>>

\* take the front of the first free region that is large enough
AllocateFirstFit(s, n) ==
  /\ Fits(n) # {}
  /\ LET i == CHOOSE k \in Fits(n) : \A l \in Fits(n) : k <= l
     IN  /\ ptr' = [ptr EXCEPT ![s] = Reg(free[i].start, n)]
         /\ free' = IF free[i].size = n
                    THEN RemoveAt(free, i)
                    ELSE [free EXCEPT ![i] = Reg(@.start + n, @.size - n)]
  /\ UNCHANGED <<size, allowResize, refused, crashed, nulled>>

\* the null pointer {0, 0}
AllocateFails(s, n) ==
  /\ Fits(n) = {}
  /\ ~allowResize
  /\ ptr' = [ptr EXCEPT ![s] = Reg(0, 0)]
  /\ UNCHANGED <<size, allowResize, free, refused, crashed, nulled>>

LastReachesEnd == free # <<>> /\ EndOf(Last(free)) = size

\* grow the arena by what the last element of the vector lacks.  Erasing end()
\* is undefined: either the last element goes, or the program crashes.
AllocateExtend(s, n) ==
  /\ Fits(n) = {}
  /\ allowResize
  /\ LastReachesEnd
  /\ size + n - Last(free).size <= MaxBytes
  /\ \/ /\ size' = size + n - Last(free).size
        /\ ptr' = [ptr EXCEPT ![s] = Reg(Last(free).start, n)]
        /\ free' = Front(free)
        /\ crashed' = FALSE
     \/ /\ crashed' = TRUE
        /\ UNCHANGED <<size, ptr, free>>
  /\ UNCHANGED <<allowResize, refused, nulled>>

\* mutant: the arena does not grow
AtEndWithoutGrowth(s, n) ==
  /\ Fits(n) = {}
  /\ allowResize
  /\ ~LastReachesEnd
  /\ size + n <= MaxBytes
  /\ ptr' = [ptr EXCEPT ![s] = Reg(size, n)]
  /\ UNCHANGED <<size, allowResize, free, refused, crashed, nulled>>

\* grow the arena by the whole region
AllocateAtEnd(s, n) ==
  /\ Fits(n) = {}
  /\ allowResize
  /\ ~LastReachesEnd
  /\ size + n <= MaxBytes
  /\ size' = size + n
  /\ ptr' = [ptr EXCEPT ![s] = Reg(size, n)]
  /\ UNCHANGED <<allowResize, free, refused, crashed, nulled>>

Allocate(s, n) ==
  /\ ~crashed
  /\ ptr[s] = NoPtr
  /\ \/ AllocateFirstFit(s, n)
     \/ AllocateFails(s, n)
     \/ AllocateExtend(s, n)
     \/ AllocateAtEnd(s, n)

-----------------------------------------------------------------------------
(* release *)

\* mutant: regions that touch collide
ApartWithGap(a, b) ==
  \/ a.start < b.start /\ EndOf(a) < b.start
  \/ a.start > b.start /\ a.start > EndOf(b)

\* the test of release(): regions with the same start always collide
Apart(a, b) ==
  \/ a.start < b.start /\ EndOf(a) <= b.start
  \/ a.start > b.start /\ a.start >= EndOf(b)

Collides(p) == \E i \in DOMAIN free : ~Apart(free[i], p)

\* the last element of the vector that p lies behind, with its successor behind
\* p; the first element if there is none, so also when p lies behind them all
InsertIndex(p) ==
  LET gaps == {i \in 1 .. Len(free) - 1 :
                 free[i].start < p.start /\ EndOf(p) <= free[i + 1].start}
  IN IF gaps = {} THEN 1 ELSE CHOOSE i \in gaps : \A j \in gaps : i >= j

\* the merge with the neighbours that the insertion index names.  (The second
\* merge of the successor branch needs an alignment the first branch took.)
FreeWith(p) ==
  LET k == InsertIndex(p)
      hasNext == k < Len(free)
      grown == EndOf(p) - free[k].start
  IN CASE free = <<>> -> <<p>>
       [] free # <<>> /\ EndOf(free[k]) = p.start ->
            IF hasNext /\ EndOf(p) = free[k + 1].start
            THEN RemoveAt([free EXCEPT ![k].size = grown + free[k + 1].size], k + 1)
            ELSE [free EXCEPT ![k].size = grown]
       [] free # <<>> /\ EndOf(free[k]) # p.start ->
            IF hasNext /\ EndOf(p) = free[k + 1].start
            THEN [free EXCEPT ![k + 1] = Reg(p.start, @.size + p.size)]
            ELSE InsertAt(free, k, p)

ReleaseRefused(s) ==
  /\ Collides(ptr[s])
  /\ refused' = refused \cup {s}
  /\ UNCHANGED <<size, allowResize, free, ptr, crashed>>

\* mutant: the region is not put into the list
ReleaseForgets(s) ==
  /\ ~Collides(ptr[s])
  /\ ptr' = [ptr EXCEPT ![s] = NoPtr]
  /\ UNCHANGED <<size, allowResize, free, refused, crashed>>

ReleaseDone(s) ==
  /\ ~Collides(ptr[s])
  /\ free' = FreeWith(ptr[s])
  /\ ptr' = [ptr EXCEPT ![s] = NoPtr]
  /\ UNCHANGED <<size, allowResize, refused, crashed>>

\* a slot releases its pointer once, whatever release() returns
Release(s) ==
  /\ ~crashed
  /\ ptr[s] # NoPtr
  /\ s \notin refused
  /\ nulled' = (nulled \/ ptr[s].size = 0)
  /\ ReleaseRefused(s) \/ ReleaseDone(s)

\* a holder may also just forget a null pointer
DropNull(s) ==
  /\ ~crashed
  /\ ptr[s] = Reg(0, 0)
  /\ ptr' = [ptr EXCEPT ![s] = NoPtr]
  /\ refused' = refused \ {s}
  /\ UNCHANGED <<size, allowResize, free, crashed, nulled>>

-----------------------------------------------------------------------------

SetResizable ==
  /\ ~crashed
  /\ allowResize' = ~allowResize
  /\ UNCHANGED <<size, free, ptr, refused, crashed, nulled>>

ArenaFinished == crashed /\ UNCHANGED arenaVars

ArenaNext ==
  \/ \E s \in Slots : Release(s) \/ DropNull(s) \/ \E n \in Requests : Allocate(s, n)
  \/ SetResizable
  \/ ArenaFinished

ArenaSpec == ArenaInit /\ [][ArenaNext]_arenaVars
=============================================================================
