---------------------------- MODULE GraphicProps --------------------------
(***************************************************************************)
(* What textures, framebuffers and shaders promise.                        *)
(***************************************************************************)
EXTENDS GraphicTick

\* The types of the variables; the tick stays within the queue and tickGPU().
TypeOK ==
  /\ serial \in BOOLEAN
  /\ made \subseteq Textures
  /\ size \in [Textures -> Sizes]
  /\ requested \in [Textures -> Settings]
  /\ current \in [Textures -> Settings]
  /\ flags \in [Textures -> SUBSET Flags]
  /\ queued \in [Textures -> BOOLEAN]
  /\ toUpdate \in Seq(Textures)
  /\ \A t \in Textures : gpu[t].tex \in 0 .. names
  /\ textures \subseteq 1 .. names
  /\ cpc \in {"idle", "flag", "test", "push"}
  /\ call \in {NoCall} \cup [tex : Textures, flag : Flags]
  /\ phase \in {"idle", "textures", "framebuffers"}
  /\ at \in 1 .. Len(toUpdate) + 1
  /\ part \in 1 .. Len(Parts) + 2
  /\ life \in [Framebuffers -> {"new", "alive", "dead"}]
  /\ fbo \in [Framebuffers -> 0 .. fboNames]
  /\ framebuffers \subseteq 1 .. fboNames
  /\ changed \subseteq Framebuffers
  /\ crashed \in BOOLEAN
  /\ shLife \in [Shaders -> {"new", "alive", "dead"}]
  /\ used \in [Shaders -> SUBSET StageTypes]
  /\ state \in [Shaders -> CompileState]
  /\ compiling \in Seq(Shaders)
  /\ pos \in 1 .. Len(compiling) + 1
  /\ todo \in SUBSET StageTypes
  /\ locked \in BOOLEAN

\* enqueue() reads m_queued outside the mutex, the tick clears it before it
\* clears m_toUpdate: still no texture is queued twice, and one that says it is
\* queued is waiting for the tick or being ticked.
QueueMatchesFlags ==
  /\ \A i, j \in DOMAIN toUpdate : toUpdate[i] = toUpdate[j] => i = j
  /\ \A t \in Textures :
       queued[t] <=> \E i \in DOMAIN toUpdate : toUpdate[i] = t /\ i >= at

\* the parameters of the GL texture are the ones asked for; GL has no way to
\* set a level of 0
ShowsRequest(t) ==
  LET g == gpu[t]
      r == requested[t]
  IN /\ current[t] = r
     /\ g.size = size[t]
     /\ g.samples = r.samples
     /\ g.samples = "x1" => /\ g.filter = r.filter
                            /\ g.tiling = r.tiling
                            /\ r.anisotropy # 0 => g.anisotropy = r.anisotropy

\* With the client on the ticking thread, a texture that is not queued has
\* nothing left to do: whatever setters were called, and in whatever order
\* tickGPU() took their bits, the GL texture is what was asked for last.
SettingsReachTheGPU ==
  serial /\ cpc = "idle" => \A t \in made : queued[t] \/ ShowsRequest(t)

Pending(f) == \E i \in DOMAIN requests : requests[i].self = f

\* "re-create the backend. Do this if the color attachments changed": with the
\* client on the ticking thread, a framebuffer that was created or re-created
\* after the last change of its textures draws into their present GL textures,
\* although the GL textures change later than the calls that ask for it.
AttachmentsCurrent ==
  serial /\ ~crashed =>
    \A f \in Framebuffers :
      (life[f] = "alive" /\ ~Pending(f) /\ f \notin changed) =>
        \A p \in Points(f) : /\ attachment[f][p] = gpu[At(f, p)].tex
                             /\ attachment[f][p] \in textures

\* Every GL framebuffer belongs to a living framebuffer or is about to be
\* deleted, and no living framebuffer has lost its own.
FramebuffersAccounted ==
  ~crashed =>
    framebuffers = ({fbo[f] : f \in {g \in Framebuffers : life[g] = "alive"}}
                    \cup {requests[i].fbo : i \in {j \in DOMAIN requests :
                                                    requests[j].self = NoFramebuffer}}) \ {0}

\* What a framebuffer draws into is there, and nothing else is kept.
AttachmentsAccounted == AttachmentsCurrent /\ FramebuffersAccounted

\* compileAll() and compile(): every living shader is waiting once, or has been
\* compiled; a program exists exactly for the ones that succeeded, and no GL
\* shader object outlives its compilation, however far it got.
ShadersAccounted ==
  ~shCrashed =>
    /\ \A i, j \in DOMAIN compiling : compiling[i] = compiling[j] => i = j
    /\ \A s \in Shaders :
         /\ shLife[s] = "alive" =>
              (state[s] \in {"undefined", "ongoing"} <=>
                 \E i \in DOMAIN compiling : i >= pos /\ compiling[i] = s)
         /\ s \in programs <=> state[s] \in {"ongoing", "success"}
    /\ (\A s \in Shaders : state[s] # "ongoing") => stages = {}
=============================================================================
