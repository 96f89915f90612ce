--------------------------- MODULE RegionAllocator --------------------------
(***************************************************************************)
(* What an arena promises its clients, free lists aside: a slot owns an    *)
(* interval of bytes that nobody else owns and that lies in the arena, and *)
(* a byte that is neither owned nor lost can be given out again.           *)
(***************************************************************************)
EXTENDS Integers

CONSTANTS Slots, Requests

VARIABLES
  top,    \* the number of bytes of the arena
  owned,  \* the bytes each slot owns
  spare   \* the bytes that nobody owns

avars == <<top, owned, spare>>

Block(start, n) == start .. start + n - 1

AInit ==
  /\ top \in Nat
  /\ owned = [s \in Slots |-> {}]
  /\ spare = 0 .. top - 1

\* hand out n spare bytes in a row; the arena may grow at its end to have them
AAllocate(s, n) ==
  /\ owned[s] = {}
  /\ top' \in top .. top + n
  /\ \E start \in 0 .. top :
       /\ Block(start, n) \subseteq spare \cup (top .. top' - 1)
       /\ top' = top \/ top' = start + n
       /\ owned' = [owned EXCEPT ![s] = Block(start, n)]
       /\ spare' = spare \ Block(start, n)

\* what a slot gives back is spare again, all of it
ARelease(s) ==
  /\ owned[s] # {}
  /\ spare' = spare \cup owned[s]
  /\ owned' = [owned EXCEPT ![s] = {}]
  /\ UNCHANGED top

ANext == \E s \in Slots : ARelease(s) \/ \E n \in Requests : AAllocate(s, n)

ASpec == AInit /\ [][ANext]_avars
=============================================================================
