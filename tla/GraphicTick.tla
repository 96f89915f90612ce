----------------------------- MODULE GraphicTick ----------------------------
(***************************************************************************)
(* The objects that wait for the thread with the GL context: textures and  *)
(* framebuffers, served by Instance::update(), and shaders, compiled when  *)
(* the application asks for it.  Shaders share no state with the others,   *)
(* so a behaviour exercises one of the two (subject).                      *)
(***************************************************************************)
EXTENDS FramebufferQueue, ShaderQueue

VARIABLE subject  \* the objects the application uses

vars == <<fbAll, shVars, subject>>

Init ==
  /\ FramebufferInit
  /\ ShaderInit
  /\ subject \in {"textures", "shaders"}

Graphics == subject = "textures" /\ FramebufferNext /\ UNCHANGED <<shVars, subject>>
Shading  == subject = "shaders" /\ ShaderNext /\ UNCHANGED <<fbAll, subject>>

\* the program is over after a crash, or when every shader is gone
Finished ==
  /\ \/ crashed \/ shCrashed
     \/ subject = "shaders" /\ \A s \in Shaders : shLife[s] = "dead"
  /\ UNCHANGED vars

Next == Graphics \/ Shading \/ Finished

Spec == Init /\ [][Next]_vars
=============================================================================
