-------------------------- MODULE FramebufferQueue --------------------------
(***************************************************************************)
(* The framebuffer requests (OGL_Framebuffer.cpp) on top of the texture    *)
(* queue, in the order in which Instance::update() serves them: tick(),    *)
(* which updates the textures, and then onUpdate(), which creates,         *)
(* re-creates and deletes framebuffers.  s_De_InitQueue has no lock, so    *)
(* framebuffers are used on the ticking thread only.                       *)
(***************************************************************************)
EXTENDS TextureQueue, FiniteSets

CONSTANTS
  Framebuffers,    \* the framebuffers
  Attached,        \* the textures of each, in order
  Kind,            \* of each texture: "color", "depth" or "depth stencil"
  NoFramebuffer,   \* a null pointer
  MaxRequests      \* bound: requests made for framebuffers

ASSUME FramebufferAssumption ==
  /\ Attached \in [Framebuffers -> Seq(Textures)]
  /\ Kind \in [Textures -> {"color", "depth", "depth stencil"}]
  /\ NoFramebuffer \notin Framebuffers
  /\ MaxRequests \in Nat

VARIABLES
  life,         \* "new", "alive" or "dead"
  fbo,          \* m_fbo
  attachment,   \* the GL textures attached to m_fbo, by attachment point
  requests,     \* s_De_InitQueue
  framebuffers, \* the GL framebuffers that exist
  fboNames,     \* the GL framebuffers created so far
  posted,       \* number of requests made so far
  changed,      \* framebuffers with a texture replaced since their last request
  crashed       \* a request was served for a deleted object

fbVars == <<life, fbo, attachment, requests, framebuffers, fboNames, posted, changed, crashed>>
fbAll  == <<texVars, fbVars>>

TexturesOf(f) == {Attached[f][i] : i \in DOMAIN Attached[f]}

FramebufferInit ==
  /\ TexInit
  /\ life = [f \in Framebuffers |-> "new"]
  /\ fbo = [f \in Framebuffers |-> 0]
  /\ attachment = [f \in Framebuffers |-> <<>>]
  /\ requests = <<>>
  /\ framebuffers = {}
  /\ fboNames = 0
  /\ posted = 0
  /\ changed = {}
  /\ crashed = FALSE

-----------------------------------------------------------------------------
(* The application, outside update() *)

\* emplace_back(self, command); the constructor needs finished textures
Post(f, self, command) ==
  /\ phase = "idle"
  /\ cpc = "idle" \/ (~serial /\ call.tex \notin TexturesOf(f))
  /\ ~crashed
  /\ posted < MaxRequests
  /\ posted' = posted + 1
  /\ requests' = Append(requests, [self |-> self, fbo |-> command])
  /\ UNCHANGED <<texVars, fbo, attachment, framebuffers, fboNames, crashed>>

NewFramebuffer(f) ==
  /\ life[f] = "new"
  /\ TexturesOf(f) \subseteq made
  /\ Post(f, f, 0)
  /\ life' = [life EXCEPT ![f] = "alive"]
  /\ changed' = changed \ {f}

RecreateFramebuffer(f) ==
  /\ life[f] = "alive"
  /\ Post(f, f, 1)
  /\ changed' = changed \ {f}
  /\ UNCHANGED life

\* the destructor leaves older requests for the object in the list
DestroyFramebuffer(f) ==
  /\ life[f] = "alive"
  /\ Post(f, NoFramebuffer, fbo[f])
  /\ life' = [life EXCEPT ![f] = "dead"]
  /\ UNCHANGED changed

-----------------------------------------------------------------------------
(* OGL::Instance::onUpdate *)

\* the attachment point of the i-th texture of f
Point(f, i) ==
  LET t == Attached[f][i]
  IN IF Kind[t] = "color"
     THEN <<"color", Cardinality({j \in 1 .. i - 1 : Kind[Attached[f][j]] = "color"})>>
     ELSE <<Kind[t], 0>>

Points(f) == {Point(f, i) : i \in DOMAIN Attached[f]}

\* a later texture of the same kind takes the place of an earlier one
At(f, p) ==
  Attached[f][CHOOSE i \in DOMAIN Attached[f] :
                /\ Point(f, i) = p
                /\ \A j \in DOMAIN Attached[f] : Point(f, j) = p => j <= i]

\* create(), after the GL framebuffers in gone were deleted
Create(f, gone) ==
  /\ fbo' = [fbo EXCEPT ![f] = fboNames + 1]
  /\ fboNames' = fboNames + 1
  /\ framebuffers' = (framebuffers \ gone) \cup {fboNames + 1}
  /\ attachment' = [attachment EXCEPT ![f] = [p \in Points(f) |-> gpu[At(f, p)].tex]]
  /\ UNCHANGED crashed

\* recreate_backend()
RecreateBackend(f) == Create(f, {fbo[f]})

ServeRequest ==
  /\ phase = "framebuffers"
  /\ ~crashed
  /\ requests # <<>>
  /\ requests' = Tail(requests)
  /\ LET r == Head(requests) IN
       IF r.self = NoFramebuffer
       THEN /\ framebuffers' = framebuffers \ {r.fbo}
            /\ UNCHANGED <<fbo, attachment, fboNames, crashed>>
       ELSE IF life[r.self] = "dead"
       THEN /\ crashed' = TRUE
            /\ UNCHANGED <<fbo, attachment, framebuffers, fboNames>>
       ELSE IF r.fbo = 0 THEN Create(r.self, {}) ELSE RecreateBackend(r.self)
  /\ UNCHANGED <<texVars, life, posted, changed>>

EndUpdate ==
  /\ phase = "framebuffers"
  /\ ~crashed
  /\ requests = <<>>
  /\ phase' = After(phase)
  /\ UNCHANGED <<serial, front, back, flags, queued, toUpdate, client, at, part, fbVars>>

-----------------------------------------------------------------------------

\* the bits whose part of tickGPU() may replace the GL texture
Replacing == Flags \ {"filter", "tiling"}

TextureCall(t) ==
  /\ ~crashed
  /\ Call(t)
  /\ changed' = IF call'.flag \in Replacing
                THEN changed \cup {f \in Framebuffers : t \in TexturesOf(f)}
                ELSE changed
  /\ UNCHANGED <<life, fbo, attachment, requests, framebuffers, fboNames, posted, crashed>>

TextureStep == ~crashed /\ (ClientStep \/ TickStep) /\ UNCHANGED fbVars

FramebufferCall(f) == NewFramebuffer(f) \/ RecreateFramebuffer(f) \/ DestroyFramebuffer(f)

FramebufferStep == ServeRequest \/ EndUpdate

FramebufferNext ==
  \/ \E t \in Textures : TextureCall(t)
  \/ \E f \in Framebuffers : FramebufferCall(f)
  \/ TextureStep
  \/ FramebufferStep
=============================================================================
