----------------------------- MODULE FramePacing ----------------------------
(***************************************************************************)
(* The clock of a render pipeline: how play() measures the time between    *)
(* frames and waits to keep the iteration rate (RenderPipeline.cpp:104,    *)
(* RenderPipeline.h:301).                                                  *)
(*                                                                         *)
(* Time is counted in ticks of the steady clock.  What a frame waits for   *)
(* and draws is RenderPipeline's; here it takes time.  A sleep lasts at    *)
(* least as long as it was asked to.                                       *)
(***************************************************************************)
EXTENDS Integers

CONSTANTS
  Periods,   \* lengths of an iteration to choose from; 0 is GLGE_UNLIMITED
  MaxWork,   \* bound: ticks that a frame takes
  MaxLate,   \* bound: ticks by which a sleep is late
  MaxTime    \* bound: no frame begins later

ASSUME PacingAssumption ==
  /\ Periods \subseteq Nat
  /\ 0 \in Periods
  /\ {MaxLate, MaxTime} \subseteq Nat
  /\ MaxWork \in Nat \ {0}

VARIABLES
  now,     \* the steady clock
  period,  \* 1E9 / m_ips, 0 without a limit
  last,    \* m_last
  delta,   \* m_delta
  start,   \* when the present or last frame began
  wake,    \* when the sleep of the frame ends
  doing,
  total,   \* history: all deltas together
  first    \* history: when the first frame began, -1 before it

face == <<now, start, wake, doing>>
clockVars == <<face, period, last, delta, total, first>>

ClockInit ==
  /\ now = 0
  /\ period = 0
  /\ last = 0
  /\ delta = 0
  /\ start = 0
  /\ wake = 0
  /\ doing = "idle"
  /\ total = 0
  /\ first = -1

\* by any thread, also while a frame is played
SetIterationRate(p) ==
  /\ p # period
  /\ period' = p
  /\ UNCHANGED <<face, last, delta, total, first>>

\* the application does something else between two frames
Pass ==
  /\ doing = "idle"
  /\ now < MaxTime
  /\ now' = now + 1
  /\ UNCHANGED <<start, wake, doing, period, last, delta, total, first>>

\* play(): m_last can't be trusted while m_delta is 0
Begin ==
  /\ doing = "idle"
  /\ now < MaxTime
  /\ last' = IF delta = 0 THEN now ELSE last
  /\ start' = now
  /\ doing' = "work"
  /\ first' = IF first = -1 THEN now ELSE first
  /\ UNCHANGED <<now, wake, period, delta, total>>

\* mutant: the wait is what the last delta left of the period
WaitByDelta(t) == period - (t - last)

\* toWait: iterRate - (start - now), with the rate of this moment
ToWait(t) == period - (start - t)

\* mutant: the start of this frame, not the end of the last one, is measured from
MeasureFromStart(t) ==
  /\ delta' = t - start
  /\ last' = t

Measure(t) ==
  /\ delta' = t - last
  /\ last' = t

\* the frame has been played after some ticks; what is left is waited for
Finish(t) ==
  /\ doing = "work"
  /\ now' = t
  /\ Measure(t)
  /\ total' = total + delta'
  /\ wake' = IF period # 0 /\ ToWait(t) > 0 THEN t + ToWait(t) ELSE t
  /\ doing' = "sleep"
  /\ UNCHANGED <<start, period, first>>

\* sleep_for returns
Wake(late) ==
  /\ doing = "sleep"
  /\ now' = IF wake > now THEN wake + late ELSE now
  /\ doing' = "idle"
  /\ UNCHANGED <<start, wake, period, last, delta, total, first>>

ClockNext ==
  \/ \E p \in Periods : SetIterationRate(p)
  \/ Pass
  \/ Begin
  \/ \E work \in 1 .. MaxWork : Finish(now + work)
  \/ \E late \in 0 .. MaxLate : Wake(late)

ClockSpec == ClockInit /\ [][ClockNext]_clockVars

-----------------------------------------------------------------------------
(* What the clock promises *)

\* The types of the variables; a frame never waits for a time that has passed.
ClockTypes ==
  /\ {now, start, last, delta, total, wake} \subseteq Nat
  /\ period \in Periods
  /\ doing \in {"idle", "work", "sleep"}
  /\ first \in {-1} \cup (0 .. MaxTime)
  /\ start <= now /\ last <= now
  /\ doing = "sleep" => wake >= now

\* RenderPipeline.h:299, "the maximum repeat rate": two frames begin at least a
\* period apart, however long the first took to wait and to draw and whenever the
\* rate was changed: the sleep ends a period after the frame began or later, and
\* no frame begins before the end of the sleep.
NeverAboveTheRate ==
  [][/\ doing = "work" /\ doing' = "sleep" => wake' >= start + period
     /\ doing = "idle" /\ doing' = "work"  => now >= wake]_clockVars

\* RenderPipeline.h:314, "get the delta time of the render pipeline": no time is
\* counted twice or lost between frames, the sleeps included: the deltas add up
\* to the time from the first frame to the end of the last one, from any number
\* of frames and changes of the rate.
DeltasAddUp ==
  first # -1 => total = last - first
=============================================================================
