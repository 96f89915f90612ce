---------------------------- MODULE CycleLifetime ---------------------------
(***************************************************************************)
(* The lives of cycle buffers (API_CycleBuffer.cpp, OGL_CycleBuffer.cpp):  *)
(* constructors and destructors, on any thread, against the main thread    *)
(* that ticks every buffer of s_buffers under s_mtx and serves             *)
(* m_updateQueue under m_updateMtx.                                        *)
(*                                                                         *)
(* What a tick does with the contents is CycleBuffer's: here it touches    *)
(* the backends, and may make their GL buffers.  No address is used twice. *)
(***************************************************************************)
EXTENDS Integers, Sequences, FiniteSets, SequencesExt

CONSTANTS
  Buffers,  \* the cycle buffers that are ever made, each by a thread of its own
  Used      \* cm_usedBuffers of each

ASSUME LifetimeAssumption == Used \in [Buffers -> Nat \ {0}]

BackendsOf(b) == {b} \X (1 .. Used[b])

VARIABLES
  life,           \* of each buffer: what its constructor or destructor does next
  living,         \* the backends that have been made and not deleted
  buffers,        \* s_buffers
  updateQueue,    \* m_updateQueue
  named,          \* GL: the backends a buffer was made for and not deleted
  loop,           \* main thread: "idle", in the loop of tick() or of onUpdate()
  index,          \* the index of that loop
  touchedDeleted  \* the main thread touched a deleted object

lifeVars == <<life, living, buffers, updateQueue, named, loop, index, touchedDeleted>>

LifeInit ==
  /\ life = [b \in Buffers |-> "unborn"]
  /\ living = {}
  /\ buffers = <<>>
  /\ updateQueue = <<>>
  /\ named = {}
  /\ loop = "idle"
  /\ index = 1
  /\ touchedDeleted = FALSE

Advance(b, from, to) ==
  /\ ~touchedDeleted
  /\ life[b] = from
  /\ life' = [life EXCEPT ![b] = to]

-----------------------------------------------------------------------------
(* A client *)

Construct(b) ==
  /\ Advance(b, "unborn", "backends")
  /\ UNCHANGED <<living, buffers, updateQueue, named, loop, index, touchedDeleted>>

\* createBackend: the constructor of a backend queues it, with m_updateMtx
MakeBackend(b) ==
  LET i == Cardinality(living \cap BackendsOf(b)) + 1
  IN  /\ Advance(b, "backends", IF i = Used[b] THEN "register" ELSE "backends")
      /\ loop # "update"
      /\ living' = living \cup {<<b, i>>}
      /\ updateQueue' = Append(updateQueue, <<b, i>>)
      /\ UNCHANGED <<buffers, named, loop, index, touchedDeleted>>

\* with s_mtx
Register(b) ==
  /\ Advance(b, "register", "alive")
  /\ loop # "tick"
  /\ buffers' = Append(buffers, b)
  /\ UNCHANGED <<living, updateQueue, named, loop, index, touchedDeleted>>

\* mutant: the backends go first
DestroyBackendsFirst(b) ==
  /\ Advance(b, "alive", "delete")
  /\ UNCHANGED <<living, buffers, updateQueue, named, loop, index, touchedDeleted>>

DestroyBuffer(b) ==
  /\ Advance(b, "alive", "erase")
  /\ UNCHANGED <<living, buffers, updateQueue, named, loop, index, touchedDeleted>>

\* with s_mtx
Erase(b) ==
  /\ Advance(b, "erase", "delete")
  /\ loop # "tick"
  /\ buffers' = RemoveFirst(buffers, b)
  /\ UNCHANGED <<living, updateQueue, named, loop, index, touchedDeleted>>

\* the backends are deleted one after the other; no destructor deletes m_buff or
\* takes the backend out of the queue
DeleteBackend(b) ==
  LET i == Used[b] - Cardinality(living \cap BackendsOf(b)) + 1
  IN  /\ Advance(b, "delete", IF i = Used[b] THEN "dead" ELSE "delete")
      /\ living' = living \ {<<b, i>>}
      /\ UNCHANGED <<buffers, updateQueue, named, loop, index, touchedDeleted>>

-----------------------------------------------------------------------------
(* The main thread *)

BeginTick ==
  /\ ~touchedDeleted
  /\ loop = "idle"
  /\ loop' = "tick"
  /\ index' = 1
  /\ UNCHANGED <<life, living, buffers, updateQueue, named, touchedDeleted>>

\* syncCPU makes the GL buffers of some that are behind
TickNext ==
  /\ ~touchedDeleted
  /\ loop = "tick"
  /\ index <= Len(buffers)
  /\ LET mine == BackendsOf(buffers[index])
     IN  /\ touchedDeleted' = ~(mine \subseteq living)
         /\ \E behind \in SUBSET (mine \cap living) : named' = named \cup behind
  /\ index' = index + 1
  /\ UNCHANGED <<life, living, buffers, updateQueue, loop>>

\* the rest of the tick, then onUpdate
BeginUpdate ==
  /\ ~touchedDeleted
  /\ loop = "tick"
  /\ index > Len(buffers)
  /\ loop' = "update"
  /\ index' = 1
  /\ UNCHANGED <<life, living, buffers, updateQueue, named, touchedDeleted>>

UpdateNext ==
  /\ ~touchedDeleted
  /\ loop = "update"
  /\ index <= Len(updateQueue)
  /\ IF updateQueue[index] \in living
       THEN named' = named \cup {updateQueue[index]} /\ UNCHANGED touchedDeleted
       ELSE touchedDeleted' = TRUE /\ UNCHANGED named
  /\ index' = index + 1
  /\ UNCHANGED <<life, living, buffers, updateQueue, loop>>

\* mutant: the queue is cleared before it is served
EndUpdateEarly ==
  /\ ~touchedDeleted
  /\ loop = "update"
  /\ updateQueue' = <<>>
  /\ loop' = "idle"
  /\ UNCHANGED <<life, living, buffers, named, index, touchedDeleted>>

EndUpdate ==
  /\ ~touchedDeleted
  /\ loop = "update"
  /\ index > Len(updateQueue)
  /\ updateQueue' = <<>>
  /\ loop' = "idle"
  /\ UNCHANGED <<life, living, buffers, named, index, touchedDeleted>>

Client(b) ==
  \/ Construct(b)
  \/ MakeBackend(b)
  \/ Register(b)
  \/ DestroyBuffer(b)
  \/ Erase(b)
  \/ DeleteBackend(b)

MainThread ==
  \/ BeginTick
  \/ TickNext
  \/ BeginUpdate
  \/ UpdateNext
  \/ EndUpdate

\* nothing follows a crash
Touched == touchedDeleted /\ UNCHANGED lifeVars

LifeNext ==
  \/ \E b \in Buffers : Client(b)
  \/ MainThread
  \/ Touched

LifeSpec == LifeInit /\ [][LifeNext]_lifeVars

-----------------------------------------------------------------------------
(* What the main thread may rely on *)

\* The types of the variables; the loops stay within the lists they walk.
LifeTypes ==
  /\ life \in [Buffers -> {"unborn", "backends", "register", "alive", "erase",
                        "delete", "dead"}]
  /\ living \subseteq UNION {BackendsOf(b) : b \in Buffers}
  /\ named \subseteq UNION {BackendsOf(b) : b \in Buffers}
  /\ buffers \in Seq(Buffers)
  /\ updateQueue \in Seq(UNION {BackendsOf(b) : b \in Buffers})
  /\ loop \in {"idle", "tick", "update"}
  /\ loop = "tick" => index \in 1 .. Len(buffers) + 1
  /\ loop = "update" => index \in 1 .. Len(updateQueue) + 1
  /\ touchedDeleted \in BOOLEAN

\* API_CycleBuffer.h:178, "store all the cycle buffers": whatever tick() may come
\* to is stored once and has all its backends, although buffers are constructed
\* and destroyed on other threads in steps that no lock covers as a whole.
RegisteredIsWhole ==
  /\ \A m, n \in DOMAIN buffers : m # n => buffers[m] # buffers[n]
  /\ \A n \in DOMAIN buffers : BackendsOf(buffers[n]) \subseteq living

\* Every backend that was queued gets its GL buffer in the end, unless it is
\* deleted before or the program has crashed: no queued one is forgotten when the
\* queue is cleared, whatever is constructed meanwhile.
QueuedGetTheirBuffer ==
  \A b \in Buffers : \A x \in BackendsOf(b) :
    x \in living ~> (x \in named \/ x \notin living \/ touchedDeleted)
=============================================================================
