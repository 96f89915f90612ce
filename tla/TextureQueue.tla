---------------------------- MODULE TextureQueue ----------------------------
(***************************************************************************)
(* The update queue of OGL::Texture (OGL_Texture.cpp, the texture block of *)
(* API::Instance::tick).  A setter stores what is asked for, sets a bit of *)
(* m_dirtFlags and puts the texture into m_toUpdate; the tick, holding     *)
(* m_updateMutex, carries out the bits one after the other, clears them    *)
(* all and takes the texture out of the queue.                             *)
(*                                                                         *)
(* A GL texture is a number that is never used again; gpu[t] is the one    *)
(* m_glTex names.  Pixels are left out, sizes are members of a small set.  *)
(***************************************************************************)
EXTENDS Integers, Sequences

CONSTANTS
  Textures,  \* the textures
  Sizes,     \* the extents that are asked for
  Levels,    \* levels of anisotropy, 0 for none
  Initial,   \* the settings textures are constructed with
  NoTexture, \* no texture
  MaxCalls   \* bound: calls of the client

Modes    == {"first", "second"}    \* two filter modes, two ways to tile
Samples  == {"x1", "x4"}           \* any value but X1 is a multisample texture
Settings == [filter : Modes, anisotropy : Levels, samples : Samples, tiling : Modes]

ASSUME TextureAssumption ==
  /\ Sizes # {}
  /\ Levels \subseteq Nat /\ Levels # {}
  /\ Initial \subseteq Settings
  /\ NoTexture \notin Textures
  /\ MaxCalls \in Nat

\* the bits of m_dirtFlags; two names share one
FLAG_UPDATE_ANISOTROPY == "0b1000"
FLAG_UPDATE_SAMPLING   == "0b1000"
Flags == {"recreate", "resize", "filter", "tiling",
          FLAG_UPDATE_ANISOTROPY, FLAG_UPDATE_SAMPLING}

VARIABLES
  serial,    \* the client calls on the thread that ticks
  made,      \* the textures that exist
  size,      \* m_texStorage.extent
  requested, \* m_requested_filterMode, ... : the settings asked for
  current,   \* m_filterMode, ... : the settings in force
  flags,     \* m_dirtFlags
  queued,    \* m_queued
  toUpdate,  \* m_toUpdate
  gpu,       \* the GL texture of each texture and its parameters
  textures,  \* the GL textures that exist
  names,     \* the GL textures created so far
  cpc,       \* program counter of the client
  call,      \* the texture and the bit of the client's call
  calls,     \* number of calls so far
  phase,     \* what Instance::update() is doing
  at, part   \* the tick's place in the queue and in tickGPU()

front   == <<made, size, requested>>
back    == <<current, gpu, textures, names>>
client  == <<cpc, call, calls>>
tick    == <<phase, at, part>>
texVars == <<serial, front, back, flags, queued, toUpdate, client, tick>>

NoCall == [tex |-> NoTexture, flag |-> "none"]
Unset  == [tex |-> 0, size |-> 0, samples |-> "x1",
           filter |-> "default", anisotropy |-> 1, tiling |-> "default"]

TexInit ==
  /\ serial \in BOOLEAN
  /\ made = {}
  /\ size = [t \in Textures |-> CHOOSE s \in Sizes : TRUE]
  /\ requested = [t \in Textures |-> CHOOSE r \in Settings : TRUE]
  /\ current = requested
  /\ flags = [t \in Textures |-> {}]
  /\ queued = [t \in Textures |-> FALSE]
  /\ toUpdate = <<>>
  /\ gpu = [t \in Textures |-> Unset]
  /\ textures = {}
  /\ names = 0
  /\ cpc = "idle"
  /\ call = NoCall
  /\ calls = 0
  /\ phase = "idle"
  /\ at = 1
  /\ part = 1

-----------------------------------------------------------------------------
(* The client *)

\* a call starts: on the ticking thread only while that thread is outside update()
Begin(t, f) ==
  /\ cpc = "idle"
  /\ serial => phase = "idle"
  /\ calls < MaxCalls
  /\ calls' = calls + 1
  /\ call' = [tex |-> t, flag |-> f]
  /\ cpc' = "flag"
  /\ UNCHANGED <<serial, gpu, textures, names, flags, queued, toUpdate, tick>>

\* the constructor ends in markDirty()
Construct(t, s, r) ==
  /\ t \notin made
  /\ Begin(t, "recreate")
  /\ made' = made \cup {t}
  /\ size' = [size EXCEPT ![t] = s]
  /\ requested' = [requested EXCEPT ![t] = r]
  /\ current' = [current EXCEPT ![t] = r]

ResizeAndClear(t, s) ==
  /\ t \in made
  /\ Begin(t, "resize")
  /\ size' = [size EXCEPT ![t] = s]
  /\ UNCHANGED <<made, requested, current>>

Request(t, f, r) ==
  /\ t \in made
  /\ Begin(t, f)
  /\ requested' = [requested EXCEPT ![t] = r]
  /\ UNCHANGED <<made, size, current>>

SetFilterMode(t, m)  == Request(t, "filter", [requested[t] EXCEPT !.filter = m])
SetAnisotropy(t, l)  == Request(t, FLAG_UPDATE_ANISOTROPY, [requested[t] EXCEPT !.anisotropy = l])
SetMultiSample(t, s) == Request(t, FLAG_UPDATE_SAMPLING, [requested[t] EXCEPT !.samples = s])
SetTilingMode(t, m)  == Request(t, "tiling", [requested[t] EXCEPT !.tiling = m])

\* fetch_or
SetFlag ==
  /\ cpc = "flag"
  /\ flags' = [flags EXCEPT ![call.tex] = @ \cup {call.flag}]
  /\ cpc' = "test"
  /\ UNCHANGED <<serial, front, back, queued, toUpdate, call, calls, tick>>

\* mutant: enqueue() does not look at m_queued
TestNothing ==
  /\ cpc = "test"
  /\ cpc' = "push"
  /\ UNCHANGED <<serial, front, back, flags, queued, toUpdate, call, calls, tick>>

\* enqueue(): m_queued is read outside the mutex
TestQueued ==
  /\ cpc = "test"
  /\ IF queued[call.tex]
     THEN cpc' = "idle" /\ call' = NoCall
     ELSE cpc' = "push" /\ UNCHANGED call
  /\ UNCHANGED <<serial, front, back, flags, queued, toUpdate, calls, tick>>

\* enqueue(): m_updateMutex is shared, the tick holds it alone
Push ==
  /\ cpc = "push"
  /\ phase # "textures"
  /\ queued' = [queued EXCEPT ![call.tex] = TRUE]
  /\ toUpdate' = Append(toUpdate, call.tex)
  /\ cpc' = "idle"
  /\ call' = NoCall
  /\ UNCHANGED <<serial, front, back, flags, calls, tick>>

-----------------------------------------------------------------------------
(* The tick *)

\* mutant: the framebuffers are served before the textures
FramebuffersFirst(p) ==
  CASE p = "idle" -> "framebuffers"
    [] p = "framebuffers" -> "textures"
    [] p = "textures" -> "idle"

\* Instance::update(): tick(), then onUpdate()
After(p) ==
  CASE p = "idle" -> "textures"
    [] p = "textures" -> "framebuffers"
    [] p = "framebuffers" -> "idle"

BeginUpdate ==
  /\ phase = "idle"
  /\ serial => cpc = "idle"
  /\ phase' = After(phase)
  /\ UNCHANGED <<serial, front, back, flags, queued, toUpdate, client, at, part>>

\* the GL texture that recreate() makes: a multisample one has no parameters
Created(t, c) ==
  LET plain == c.samples = "x1" IN
  [tex |-> names + 1, size |-> size[t], samples |-> c.samples,
   filter |-> IF plain THEN c.filter ELSE "default",
   anisotropy |-> IF plain /\ c.anisotropy # 0 THEN c.anisotropy ELSE 1,
   tiling |-> IF plain THEN c.tiling ELSE "default"]

\* recreate() with the settings c: the old GL texture is deleted only if the
\* size has changed, a new one is created in any case
Recreate(t, c) ==
  /\ textures' = {names + 1} \cup
       (IF gpu[t].size # size[t] THEN textures \ {gpu[t].tex} ELSE textures)
  /\ gpu' = [gpu EXCEPT ![t] = Created(t, c)]
  /\ names' = names + 1
  /\ current' = [current EXCEPT ![t] = c]

\* glTextureParameter: without effect on a multisample texture
SetParameter(t, c, p) ==
  /\ gpu' = IF gpu[t].samples = "x1" THEN [gpu EXCEPT ![t] = p] ELSE gpu
  /\ current' = [current EXCEPT ![t] = c]
  /\ UNCHANGED <<textures, names>>

\* mutant: the texture is re-created with the old number of samples
SampledAsBefore(c, r) == c

Sampled(c, r) == [c EXCEPT !.samples = r.samples]

Parts == << "recreate", "resize", FLAG_UPDATE_SAMPLING, "filter",
            FLAG_UPDATE_ANISOTROPY, "tiling" >>

\* what the n-th if of tickGPU() does; GL refuses an anisotropy below 1
Apply(t, n) ==
  LET c == current[t]
      r == requested[t]
      g == gpu[t]
  IN CASE n \in {1, 2} -> Recreate(t, c)
       [] n = 3 -> Recreate(t, Sampled(c, r))
       [] n = 4 -> SetParameter(t, [c EXCEPT !.filter = r.filter], [g EXCEPT !.filter = r.filter])
       [] n = 5 -> SetParameter(t, [c EXCEPT !.anisotropy = r.anisotropy],
                                [g EXCEPT !.anisotropy = IF r.anisotropy = 0 THEN @ ELSE r.anisotropy])
       [] n = 6 -> SetParameter(t, [c EXCEPT !.tiling = r.tiling], [g EXCEPT !.tiling = r.tiling])

TickPart ==
  /\ phase = "textures"
  /\ at <= Len(toUpdate)
  /\ part <= Len(Parts)
  /\ IF Parts[part] \in flags[toUpdate[at]] THEN Apply(toUpdate[at], part) ELSE UNCHANGED back
  /\ part' = part + 1
  /\ UNCHANGED <<serial, front, flags, queued, toUpdate, client, phase, at>>

\* m_dirtFlags.store(0)
ClearFlags ==
  /\ phase = "textures"
  /\ at <= Len(toUpdate)
  /\ part = Len(Parts) + 1
  /\ flags' = [flags EXCEPT ![toUpdate[at]] = {}]
  /\ part' = part + 1
  /\ UNCHANGED <<serial, front, back, queued, toUpdate, client, phase, at>>

\* m_queued.store(false)
Unmark ==
  /\ phase = "textures"
  /\ at <= Len(toUpdate)
  /\ part = Len(Parts) + 2
  /\ queued' = [queued EXCEPT ![toUpdate[at]] = FALSE]
  /\ part' = 1
  /\ at' = at + 1
  /\ UNCHANGED <<serial, front, back, flags, toUpdate, client, phase>>

EndTextures ==
  /\ phase = "textures"
  /\ at > Len(toUpdate)
  /\ toUpdate' = <<>>
  /\ at' = 1
  /\ phase' = After(phase)
  /\ UNCHANGED <<serial, front, back, flags, queued, client, part>>

-----------------------------------------------------------------------------

Call(t) ==
  \/ \E s \in Sizes : ResizeAndClear(t, s) \/ \E r \in Initial : Construct(t, s, r)
  \/ \E m \in Modes : SetFilterMode(t, m) \/ SetTilingMode(t, m)
  \/ \E l \in Levels : SetAnisotropy(t, l)
  \/ \E s \in Samples : SetMultiSample(t, s)

ClientStep == SetFlag \/ TestQueued \/ Push

TickStep == BeginUpdate \/ TickPart \/ ClearFlags \/ Unmark \/ EndTextures
=============================================================================
