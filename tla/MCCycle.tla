------------------------------- MODULE MCCycle ------------------------------
(***************************************************************************)
(* TLC instances of cycle buffers.  What one buffer does with its copies   *)
(* and how buffers come and go share no state here, so a behaviour         *)
(* exercises one of the two (part).                                        *)
(***************************************************************************)
EXTENDS CycleProps, CycleLifetime, TLC

VARIABLE part

partVars == <<vars, lifeVars, part>>

\* one with a backend, and a ring of two
MCUsed == "camera" :> 1 @@ "ring" :> 2
MCNone == <<>>

\* the other part stays in one of its initial states
PartInit ==
  /\ part \in {"copies", "lives"}
  /\ Init /\ (part # "copies" => used = 1 /\ lag = 0 /\ ~resizes /\ serial)
  /\ LifeInit

OfCopies(A) == part = "copies" /\ A /\ UNCHANGED <<lifeVars, part>>

OfLives(A) == part = "lives" /\ A /\ UNCHANGED <<vars, part>>

PartSpec == PartInit /\ [][OfCopies(Next) \/ OfLives(LifeNext)]_partVars

\* the main loop and the GPU go on
FairPartSpec ==
  /\ PartSpec
  /\ WF_partVars(OfCopies(MainStep)) /\ WF_partVars(OfCopies(Execute))
  /\ WF_partVars(OfLives(MainThread))
=============================================================================
