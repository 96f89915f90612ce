---------------------------- MODULE GraphicProofs ---------------------------
(***************************************************************************)
(* What waits for the thread with the GL context, for any number of        *)
(* textures, framebuffers, shaders and calls: the flags agree with the     *)
(* queue, what was asked for last reaches GL, framebuffers keep their      *)
(* attachments, and every shader is compiled once.                         *)
(***************************************************************************)
EXTENDS GraphicProps, WellFoundedInduction, TLAPS

-----------------------------------------------------------------------------
(* The invariant of the texture queue *)

\* the types of the queue and of the two who use it
QTypes ==
  /\ queued \in [Textures -> BOOLEAN]
  /\ toUpdate \in Seq(Textures)
  /\ at \in 1 .. Len(toUpdate) + 1
  /\ cpc \in {"idle", "flag", "test", "push"}
  /\ cpc # "idle" => call.tex \in Textures

\* the tick stands at the start of the queue unless it works on it, and a client
\* about to push has found the flag clear, which nobody else sets
QProtocol ==
  /\ phase # "textures" => at = 1
  /\ cpc = "push" => ~ queued[call.tex]

\* no texture is in the queue twice
Once(q) == \A i, j \in DOMAIN q : q[i] = q[j] => i = j

\* the flag of a texture is set while the texture waits
Waits(t, q, n) == \E i \in DOMAIN q : q[i] = t /\ i >= n

QInv ==
  /\ QTypes
  /\ QProtocol
  /\ Once(toUpdate)
  /\ \A t \in Textures : queued[t] <=> Waits(t, toUpdate, at)

queueVars == <<queued, toUpdate, at, cpc, call, phase>>

\* an empty queue and clear flags
LEMMA InitQInv == Init => QInv
<1> SUFFICES ASSUME Init
             PROVE  QInv
  OBVIOUS
<1>1. /\ queued = [t \in Textures |-> FALSE]
      /\ toUpdate = <<>> /\ at = 1 /\ cpc = "idle"
  BY DEF Init, FramebufferInit, TexInit
<1>2. DOMAIN toUpdate = {} /\ Len(toUpdate) = 0 /\ toUpdate \in Seq(Textures)
  BY <1>1
<1>3. QTypes /\ QProtocol
  BY <1>1, <1>2 DEF QTypes, QProtocol
<1>4. Once(toUpdate) /\ \A t \in Textures : ~ Waits(t, toUpdate, at)
  BY <1>2 DEF Once, Waits
<1> QED BY <1>1, <1>3, <1>4 DEF QInv

\* nothing of the queue changes
LEMMA KeepsQueue == ASSUME QInv, UNCHANGED queueVars PROVE QInv'
BY DEF QInv, queueVars, QTypes, QProtocol, Once, Waits

-----------------------------------------------------------------------------
(* The client *)

\* a call begins, on a texture
LEMMA CallQInv ==
  ASSUME QInv, NEW t \in Textures, Call(t)
  PROVE  QInv'
<1>1. /\ UNCHANGED <<queued, toUpdate, at, phase>>
      /\ cpc' = "flag" /\ call'.tex = t
  BY DEF Call, ResizeAndClear, Construct, SetFilterMode, SetTilingMode, SetAnisotropy,
         SetMultiSample, Request, Begin, tick
<1>2. QTypes' /\ QProtocol'
  BY <1>1 DEF QInv, QTypes, QProtocol
<1> QED BY <1>1, <1>2 DEF QInv, Once, Waits

\* the flag is read outside the mutex
LEMMA TestQInv ==
  ASSUME QInv, SetFlag \/ TestQueued
  PROVE  QInv'
<1>1. UNCHANGED <<queued, toUpdate, at, phase>>
  BY DEF SetFlag, TestQueued, tick
<1>2. \/ cpc' = "idle"
      \/ cpc' \in {"test", "push"} /\ call' = call /\ cpc # "idle"
         /\ (cpc' = "push" => ~ queued[call.tex])
  BY DEF SetFlag, TestQueued
<1>3. QTypes' /\ QProtocol'
  BY <1>1, <1>2 DEF QInv, QTypes, QProtocol
<1> QED BY <1>1, <1>3 DEF QInv, Once, Waits

\* a texture that does not wait is appended
LEMMA PushQInv ==
  ASSUME QInv, Push
  PROVE  QInv'
<1> DEFINE t == call.tex
           n == Len(toUpdate)
<1>1. /\ t \in Textures /\ toUpdate \in Seq(Textures) /\ n \in Nat
      /\ queued \in [Textures -> BOOLEAN] /\ at = 1 /\ ~ queued[t]
  BY DEF Push, QInv, QTypes, QProtocol
<1>2. /\ queued' = [queued EXCEPT ![t] = TRUE]
      /\ toUpdate' = Append(toUpdate, t)
      /\ cpc' = "idle" /\ at' = 1 /\ phase' = phase
  BY <1>1 DEF Push, tick
<1> HIDE DEF t
<1>3. /\ toUpdate' \in Seq(Textures) /\ Len(toUpdate') = n + 1
      /\ DOMAIN toUpdate' = 1 .. n + 1 /\ DOMAIN toUpdate = 1 .. n
      /\ toUpdate'[n + 1] = t
      /\ \A i \in 1 .. n : toUpdate'[i] = toUpdate[i]
  BY <1>1, <1>2
<1> HIDE DEF n
<1>4. \A i \in 1 .. n : toUpdate[i] # t
  BY <1>1, <1>3 DEF QInv, Waits
<1>5. QTypes' /\ QProtocol'
  BY <1>1, <1>2, <1>3 DEF QTypes, QProtocol
<1>6. Once(toUpdate')
  <2> SUFFICES ASSUME NEW i \in 1 .. n + 1, NEW j \in 1 .. n + 1, toUpdate'[i] = toUpdate'[j]
               PROVE  i = j
    BY <1>3 DEF Once
  <2>1. \A k \in 1 .. n + 1 : k = n + 1 \/ k \in 1 .. n
    BY <1>1
  <2> QED BY <1>3, <1>4, <2>1 DEF QInv, Once
<1>7. ASSUME NEW u \in Textures
      PROVE  queued'[u] <=> Waits(u, toUpdate', at')
  <2>1. CASE u = t
    <3>1. n + 1 \in DOMAIN toUpdate' /\ toUpdate'[n + 1] = u /\ n + 1 >= at'
      BY <1>1, <1>2, <1>3, <2>1
    <3> QED BY <1>1, <1>2, <2>1, <3>1 DEF Waits
  <2>2. CASE u # t
    <3>1. queued'[u] = queued[u]
      BY <1>1, <1>2, <2>2
    <3>2. Waits(u, toUpdate', at') <=> Waits(u, toUpdate, at)
      <4>1. \A i \in 1 .. n + 1 : toUpdate'[i] = u => i \in 1 .. n /\ toUpdate[i] = u
        BY <1>1, <1>3, <2>2
      <4>2. \A i \in 1 .. n : i \in 1 .. n + 1 /\ (toUpdate[i] = u => toUpdate'[i] = u)
        BY <1>1, <1>3
      <4> QED BY <1>1, <1>2, <1>3, <4>1, <4>2 DEF Waits
    <3> QED BY <3>1, <3>2 DEF QInv
  <2> QED BY <2>1, <2>2
<1> QED BY <1>5, <1>6, <1>7 DEF QInv

-----------------------------------------------------------------------------
(* The tick *)

\* the texture at the tick's place is done: it waits no more
LEMMA UnmarkQInv ==
  ASSUME QInv, Unmark
  PROVE  QInv'
<1> DEFINE t == toUpdate[at]
<1>1. /\ toUpdate \in Seq(Textures) /\ Len(toUpdate) \in Nat /\ at \in 1 .. Len(toUpdate)
      /\ queued \in [Textures -> BOOLEAN]
      /\ t \in Textures /\ DOMAIN toUpdate = 1 .. Len(toUpdate)
  BY DEF Unmark, QInv, QTypes
<1>2. /\ queued' = [queued EXCEPT ![t] = FALSE]
      /\ at' = at + 1 /\ phase = "textures"
      /\ UNCHANGED <<toUpdate, cpc, call, phase>>
  BY DEF Unmark, client
<1> HIDE DEF t
<1>3. QTypes'
  BY <1>1, <1>2 DEF QInv, QTypes
<1>4. QProtocol'
  BY <1>1, <1>2 DEF QInv, QTypes, QProtocol
<1>5. ASSUME NEW u \in Textures
      PROVE  queued'[u] <=> Waits(u, toUpdate', at')
  <2>1. \A i \in 1 .. Len(toUpdate) : i >= at + 1 <=> i >= at /\ i # at
    BY <1>1
  <2>2. toUpdate[at] = t
    BY DEF t
  <2>3. CASE u = t
    <3>1. ~ Waits(u, toUpdate, at + 1)
      BY <1>1, <2>1, <2>2, <2>3 DEF QInv, Once, Waits
    <3> QED BY <1>1, <1>2, <2>3, <3>1
  <2>4. CASE u # t
    <3>1. Waits(u, toUpdate, at + 1) <=> Waits(u, toUpdate, at)
      BY <1>1, <2>1, <2>2, <2>4 DEF Waits
    <3>2. queued'[u] = queued[u]
      BY <1>1, <1>2, <2>4
    <3> QED BY <1>2, <3>1, <3>2 DEF QInv
  <2> QED BY <2>3, <2>4
<1>6. Once(toUpdate')
  BY <1>2 DEF QInv
<1> QED BY <1>3, <1>4, <1>5, <1>6 DEF QInv

\* the queue is emptied when none of it waits any more
LEMMA EndQInv ==
  ASSUME QInv, EndTextures
  PROVE  QInv'
<1>1. /\ toUpdate \in Seq(Textures) /\ Len(toUpdate) \in Nat
      /\ at > Len(toUpdate) /\ at \in Nat
      /\ DOMAIN toUpdate = 1 .. Len(toUpdate)
  BY DEF EndTextures, QInv, QTypes
<1>2. toUpdate' = <<>> /\ at' = 1 /\ UNCHANGED <<queued, cpc, call>>
  BY DEF EndTextures, client
<1>3. DOMAIN toUpdate' = {} /\ Len(toUpdate') = 0 /\ toUpdate' \in Seq(Textures)
  BY <1>2
<1>4. \A t \in Textures : ~ Waits(t, toUpdate, at) /\ ~ Waits(t, toUpdate', at')
  BY <1>1, <1>3 DEF Waits
<1>5. QTypes' /\ QProtocol'
  BY <1>2, <1>3 DEF QInv, QTypes, QProtocol
<1> QED BY <1>2, <1>3, <1>4, <1>5 DEF QInv, Once

\* the rest of the tick leaves the queue alone
LEMMA TickQInv ==
  ASSUME QInv, TickStep
  PROVE  QInv'
<1>1. CASE BeginUpdate
  <2>1. phase = "idle" /\ UNCHANGED <<queued, toUpdate, at, cpc, call>>
    BY <1>1 DEF BeginUpdate, client
  <2>2. QTypes' /\ QProtocol'
    BY <2>1 DEF QInv, QTypes, QProtocol
  <2> QED BY <2>1, <2>2 DEF QInv, Once, Waits
<1>2. CASE TickPart \/ ClearFlags
  BY <1>2, KeepsQueue DEF TickPart, ClearFlags, queueVars, client
<1> QED BY <1>1, <1>2, UnmarkQInv, EndQInv DEF TickStep

\* every step keeps the invariant
LEMMA NextQInv == QInv /\ [Next]_vars => QInv'
<1> SUFFICES ASSUME QInv, [Next]_vars
             PROVE  QInv'
  OBVIOUS
<1>1. CASE Graphics
  <2>1. ASSUME NEW t \in Textures, TextureCall(t)
        PROVE  QInv'
    BY <2>1, CallQInv DEF TextureCall
  <2>2. ASSUME NEW f \in Framebuffers, FramebufferCall(f)
        PROVE  QInv'
    BY <2>2, KeepsQueue DEF FramebufferCall, NewFramebuffer, RecreateFramebuffer,
       DestroyFramebuffer, Post, queueVars, texVars, client, tick
  <2>3. CASE TextureStep
    BY <2>3, TestQInv, PushQInv, TickQInv DEF TextureStep, ClientStep
  <2>4. CASE ServeRequest
    BY <2>4, KeepsQueue DEF ServeRequest, queueVars, texVars, client, tick
  <2>5. CASE EndUpdate
    <3>1. phase = "framebuffers" /\ UNCHANGED <<queued, toUpdate, at, cpc, call>>
      BY <2>5 DEF EndUpdate, client
    <3>2. QTypes' /\ QProtocol'
      BY <3>1 DEF QInv, QTypes, QProtocol
    <3> QED BY <3>1, <3>2 DEF QInv, Once, Waits
  <2> QED BY <1>1, <2>1, <2>2, <2>3, <2>4, <2>5 DEF Graphics, FramebufferNext, FramebufferStep
<1>2. CASE Shading \/ Finished \/ UNCHANGED vars
  BY <1>2, KeepsQueue DEF Shading, Finished, vars, fbAll, queueVars, texVars, client, tick
<1> QED BY <1>1, <1>2 DEF Next

\* No texture is queued twice, and one is queued exactly while its flag is set,
\* for any number of textures and calls.
THEOREM TextureQueueMatches == Spec => []QueueMatchesFlags
<1>1. QInv => QueueMatchesFlags
  BY DEF QInv, Once, Waits, QueueMatchesFlags
<1> QED BY <1>1, InitQInv, NextQInv, PTL DEF Spec

-----------------------------------------------------------------------------
(* The invariant of the shader queue *)

Pended(s) == Waits(s, compiling, pos)

STypes ==
  /\ shLife \in [Shaders -> {"new", "alive", "dead"}]
  /\ state \in [Shaders -> CompileState]
  /\ prog \in [Shaders -> SUBSET Shaders]
  /\ compiling \in Seq(Shaders)
  /\ pos \in 1 .. Len(compiling) + 1
  /\ locked \in BOOLEAN
  /\ ~ locked => pos = 1

\* a shader that is not there yet has nothing
Fresh(s) ==
  /\ state[s] = "undefined"
  /\ \A i \in DOMAIN compiling : compiling[i] # s

\* a shader waits until its compilation has come to an end
InTurn(s) == state[s] \in {"undefined", "ongoing"} <=> Pended(s)

\* only the shader at the main thread's place is being compiled
AtWork(s) == state[s] = "ongoing" => locked /\ pos <= Len(compiling) /\ compiling[pos] = s

\* its program exists from the start of a compilation that does not fail
HasProgram(s) ==
  /\ s \in programs <=> state[s] \in {"ongoing", "success"}
  /\ prog[s] = IF s \in programs THEN {s} ELSE {}

SCount ==
  /\ Once(compiling)
  /\ \A s \in Shaders : /\ shLife[s] = "new" => Fresh(s)
                        /\ shLife[s] # "new" => InTurn(s)
                        /\ AtWork(s)
                        /\ HasProgram(s)
  /\ (\A s \in Shaders : state[s] # "ongoing") => stages = {}

SInv == shCrashed \in BOOLEAN /\ STypes /\ (~ shCrashed => SCount)

\* nothing is there
LEMMA InitSInv == Init => SInv
<1> SUFFICES ASSUME Init
             PROVE  SInv
  OBVIOUS
<1>1. ShaderInit /\ compiling = <<>> /\ pos = 1
  BY DEF Init, ShaderInit
<1>2. DOMAIN compiling = {} /\ Len(compiling) = 0 /\ compiling \in Seq(Shaders)
  BY <1>1
<1>3. STypes
  <2>1. /\ shLife \in [Shaders -> {"new", "alive", "dead"}]
        /\ state \in [Shaders -> CompileState]
        /\ prog \in [Shaders -> SUBSET Shaders]
    BY <1>1 DEF ShaderInit, CompileState
  <2>2. locked = FALSE
    BY <1>1 DEF ShaderInit
  <2>3. compiling \in Seq(Shaders) /\ pos \in 1 .. Len(compiling) + 1
    BY <1>1, <1>2
  <2>4. locked \in BOOLEAN /\ (~ locked => pos = 1)
    BY <1>1, <2>2
  <2> QED BY <2>1, <2>3, <2>4 DEF STypes
<1>4. SCount
  BY <1>1, <1>2 DEF ShaderInit, SCount, Once, Fresh, AtWork, HasProgram
<1> QED BY <1>1, <1>3, <1>4 DEF ShaderInit, SInv

\* nothing of the shaders changes
LEMMA KeepsShaders == ASSUME SInv, UNCHANGED shVars PROVE SInv'
BY DEF SInv, shVars, STypes, SCount, Once, Fresh, InTurn, AtWork, HasProgram, Pended, Waits

\* a new shader waits behind the others
LEMMA NewSInv ==
  ASSUME SInv, ~ shCrashed, NEW n \in Shaders, NEW u, NewShader(n, u)
  PROVE  SInv'
<1> DEFINE k == Len(compiling)
<1>1. STypes /\ SCount
  BY DEF SInv
<1>2. /\ shLife[n] = "new" /\ ~ locked /\ pos = 1
      /\ shLife' = [shLife EXCEPT ![n] = "alive"]
      /\ compiling' = Append(compiling, n)
      /\ UNCHANGED <<state, prog, locked, pos, stages, programs, shCrashed>>
  BY <1>1 DEF NewShader, STypes
<1>3. compiling \in Seq(Shaders) /\ k \in Nat /\ shLife \in [Shaders -> {"new", "alive", "dead"}]
  BY <1>1 DEF STypes
<1>4. /\ compiling' \in Seq(Shaders) /\ Len(compiling') = k + 1
      /\ DOMAIN compiling' = 1 .. k + 1 /\ DOMAIN compiling = 1 .. k
      /\ compiling'[k + 1] = n
      /\ \A i \in 1 .. k : compiling'[i] = compiling[i]
  BY <1>2, <1>3
<1>5. STypes'
  BY <1>1, <1>2, <1>4 DEF STypes
<1>6. state[n] = "undefined" /\ \A i \in 1 .. k : compiling[i] # n
  BY <1>1, <1>2, <1>4 DEF SCount, Fresh
<1> HIDE DEF k
<1>7. \A i \in 1 .. k + 1 : i = k + 1 \/ i \in 1 .. k
  BY <1>3
<1>8. Once(compiling')
  <2> SUFFICES ASSUME NEW i \in 1 .. k + 1, NEW j \in 1 .. k + 1, compiling'[i] = compiling'[j]
               PROVE  i = j
    BY <1>4 DEF Once
  <2> QED BY <1>1, <1>4, <1>6, <1>7 DEF SCount, Once
<1>9. ASSUME NEW s \in Shaders
      PROVE  /\ shLife'[s] = "new" => Fresh(s)'
             /\ shLife'[s] # "new" => InTurn(s)'
             /\ AtWork(s)'
             /\ HasProgram(s)'
  <2>1. HasProgram(s)'
    BY <1>1, <1>2 DEF SCount, HasProgram
  <2>2. AtWork(s)'
    BY <1>1, <1>2 DEF SCount, AtWork
  <2>3. CASE s = n
    <3>1. k + 1 \in DOMAIN compiling' /\ k + 1 >= 1
      BY <1>3, <1>4
    <3>2. Pended(s)'
      BY <1>2, <1>4, <2>3, <3>1 DEF Pended, Waits
    <3> QED BY <1>2, <1>3, <1>6, <2>1, <2>2, <2>3, <3>2 DEF InTurn
  <2>4. CASE s # n
    <3>1. shLife'[s] = shLife[s]
      BY <1>2, <1>3, <2>4
    <3>2. \A i \in 1 .. k + 1 : compiling'[i] = s => i \in 1 .. k /\ compiling[i] = s
      BY <1>4, <1>7, <2>4
    <3>3. \A i \in 1 .. k : i \in 1 .. k + 1 /\ (compiling[i] = s => compiling'[i] = s)
      BY <1>3, <1>4
    <3>4. Pended(s)' <=> Pended(s)
      BY <1>2, <1>4, <3>2, <3>3 DEF Pended, Waits
    <3>5. Fresh(s) => Fresh(s)'
      BY <1>2, <1>4, <3>2 DEF Fresh
    <3>6. InTurn(s) => InTurn(s)'
      BY <1>2, <3>4 DEF InTurn
    <3> QED BY <1>1, <2>1, <2>2, <3>1, <3>5, <3>6 DEF SCount
  <2> QED BY <2>3, <2>4
<1>10. SCount'
  BY <1>1, <1>2, <1>8, <1>9 DEF SCount
<1> QED BY <1>2, <1>5, <1>10 DEF SInv

\* a destroyed shader stays where it is
LEMMA DestroySInv ==
  ASSUME SInv, ~ shCrashed, NEW n \in Shaders, DestroyShader(n)
  PROVE  SInv'
<1>1. STypes /\ SCount
  BY DEF SInv
<1>2. /\ shLife[n] = "alive"
      /\ shLife' = [shLife EXCEPT ![n] = "dead"]
      /\ UNCHANGED <<state, prog, compiling, locked, pos, stages, programs, shCrashed>>
  BY DEF DestroyShader
<1>3. STypes'
  BY <1>1, <1>2 DEF STypes
<1>4. \A s \in Shaders : shLife'[s] = "new" <=> shLife[s] = "new"
  BY <1>1, <1>2 DEF STypes
<1>5. SCount'
  BY <1>1, <1>2, <1>4 DEF SCount, Once, Fresh, InTurn, AtWork, HasProgram, Pended, Waits
<1> QED BY <1>2, <1>3, <1>5 DEF SInv

\* the main thread takes and gives back the lock
LEMMA LockSInv ==
  ASSUME SInv, ~ shCrashed, BeginCompileAll \/ EndCompileAll
  PROVE  SInv'
<1>1. STypes /\ SCount
  BY DEF SInv
<1>2. compiling \in Seq(Shaders) /\ DOMAIN compiling = 1 .. Len(compiling) /\ Len(compiling) \in Nat
  BY <1>1 DEF STypes
<1>3. CASE BeginCompileAll
  <2>1. /\ ~ locked /\ locked' = TRUE
        /\ UNCHANGED <<shLife, state, prog, compiling, pos, stages, programs, shCrashed>>
    BY <1>3 DEF BeginCompileAll
  <2>2. STypes'
    BY <1>1, <1>3, <2>1 DEF STypes, BeginCompileAll
  <2>3. SCount'
    BY <1>1, <2>1 DEF SCount, Once, Fresh, InTurn, AtWork, HasProgram, Pended, Waits
  <2> QED BY <2>1, <2>2, <2>3 DEF SInv
<1>4. CASE EndCompileAll
  <2>1. /\ pos > Len(compiling) /\ compiling' = <<>> /\ pos' = 1 /\ locked' = FALSE
        /\ UNCHANGED <<shLife, state, prog, stages, programs, shCrashed>>
    BY <1>4 DEF EndCompileAll
  <2>2. DOMAIN compiling' = {} /\ Len(compiling') = 0 /\ compiling' \in Seq(Shaders)
    BY <2>1
  <2>3. STypes'
    <3>1. compiling' \in Seq(Shaders) /\ pos' \in 1 .. Len(compiling') + 1
      BY <2>1, <2>2
    <3>2. locked' \in BOOLEAN /\ (~ locked' => pos' = 1)
      BY <2>1
    <3> QED BY <1>1, <2>1, <3>1, <3>2 DEF STypes
  <2>4. pos \in Nat
    BY <1>1, <1>2 DEF STypes
  <2>5. \A s \in Shaders : ~ Pended(s) /\ ~ Pended(s)'
    BY <1>2, <2>1, <2>2, <2>4 DEF Pended, Waits
  <2>6. \A s \in Shaders : state[s] # "ongoing"
    BY <1>1, <1>2, <2>1, <2>4 DEF SCount, AtWork
  <2>7. SCount'
    BY <1>1, <2>1, <2>2, <2>5, <2>6 DEF SCount, Once, Fresh, InTurn, AtWork, HasProgram
  <2> QED BY <2>1, <2>3, <2>7 DEF SInv
<1> QED BY <1>3, <1>4

\* the shader at the main thread's place
LEMMA CompiledWaits ==
  ASSUME STypes, SCount, pos <= Len(compiling)
  PROVE  /\ Compiled \in Shaders
         /\ pos \in DOMAIN compiling
         /\ Pended(Compiled)
         /\ shLife[Compiled] # "new"
<1>1. /\ compiling \in Seq(Shaders) /\ Len(compiling) \in Nat /\ pos \in 1 .. Len(compiling)
      /\ DOMAIN compiling = 1 .. Len(compiling)
  BY DEF STypes
<1>2. Compiled \in Shaders
  BY <1>1 DEF Compiled
<1>3. Pended(Compiled)
  BY <1>1 DEF Pended, Waits, Compiled
<1>4. shLife[Compiled] # "new"
  BY <1>1, <1>2 DEF SCount, Fresh, Compiled
<1> QED BY <1>1, <1>2, <1>3, <1>4

\* a compilation starts with a program
LEMMA BeginSInv ==
  ASSUME SInv, ~ shCrashed, BeginCompile
  PROVE  SInv'
<1> DEFINE c == Compiled
<1>1. STypes /\ SCount
  BY DEF SInv
<1>2. /\ locked /\ pos <= Len(compiling) /\ state[c] # "ongoing"
      /\ shCrashed' = (shLife[c] = "dead")
      /\ state' = [state EXCEPT ![c] = "ongoing"]
      /\ prog' = [prog EXCEPT ![c] = {c}]
      /\ programs' = programs \cup {c}
      /\ UNCHANGED <<shLife, compiling, locked, pos, stages>>
  BY DEF BeginCompile, Touch
<1>3. c \in Shaders /\ pos \in DOMAIN compiling /\ Pended(c) /\ shLife[c] # "new"
  BY <1>1, <1>2, CompiledWaits
<1>4. compiling[pos] = c
  BY DEF Compiled
<1> HIDE DEF c
<1>5. state \in [Shaders -> CompileState] /\ prog \in [Shaders -> SUBSET Shaders]
  BY <1>1 DEF STypes
<1>6. state' \in [Shaders -> CompileState] /\ prog' \in [Shaders -> SUBSET Shaders]
  BY <1>2, <1>3, <1>5 DEF CompileState
<1>7. STypes'
  BY <1>1, <1>2, <1>6 DEF STypes
<1>8. ASSUME NEW s \in Shaders
      PROVE  /\ shLife'[s] = "new" => Fresh(s)'
             /\ shLife'[s] # "new" => InTurn(s)'
             /\ AtWork(s)'
             /\ HasProgram(s)'
  <2>1. /\ shLife[s] = "new" => Fresh(s)
        /\ shLife[s] # "new" => InTurn(s)
        /\ AtWork(s)
        /\ HasProgram(s)
    BY <1>1 DEF SCount
  <2>2. Pended(s)' <=> Pended(s)
    BY <1>2 DEF Pended, Waits
  <2>3. CASE s = c
    <3>1. state'[s] = "ongoing" /\ prog'[s] = {s} /\ s \in programs'
      BY <1>2, <1>3, <1>5, <2>3
    <3> QED BY <1>2, <1>3, <1>4, <2>2, <2>3, <3>1 DEF InTurn, AtWork, HasProgram
  <2>4. CASE s # c
    <3>1. state'[s] = state[s] /\ prog'[s] = prog[s] /\ (s \in programs' <=> s \in programs)
      BY <1>2, <1>3, <1>5, <2>4
    <3>2. HasProgram(s)'
      BY <2>1, <3>1 DEF HasProgram
    <3>3. AtWork(s)'
      BY <1>2, <2>1, <3>1 DEF AtWork
    <3>4. shLife'[s] # "new" => InTurn(s)'
      BY <1>2, <2>1, <2>2, <3>1 DEF InTurn
    <3>5. shLife'[s] = "new" => Fresh(s)'
      BY <1>2, <2>1, <3>1 DEF Fresh
    <3> QED BY <3>2, <3>3, <3>4, <3>5
  <2> QED BY <2>3, <2>4
<1>9. state'[c] = "ongoing"
  BY <1>2, <1>3, <1>5
<1>10. SCount'
  BY <1>1, <1>2, <1>3, <1>8, <1>9 DEF SCount
<1>11. shCrashed' \in BOOLEAN
  BY <1>2
<1> QED BY <1>7, <1>10, <1>11 DEF SInv

\* a stage becomes a GL object while a shader is at work
LEMMA StageSInv ==
  ASSUME SInv, ~ shCrashed, StageCompiles
  PROVE  SInv'
<1>1. STypes /\ SCount
  BY DEF SInv
<1>2. /\ pos <= Len(compiling) /\ state[Compiled] = "ongoing"
      /\ shCrashed' = (shLife[Compiled] = "dead")
      /\ UNCHANGED <<shLife, state, prog, compiling, locked, pos, programs>>
  BY DEF StageCompiles, Busy, Touch
<1>3. Compiled \in Shaders
  BY <1>1, <1>2, CompiledWaits
<1>4. STypes'
  BY <1>1, <1>2 DEF STypes
<1>5. SCount'
  BY <1>1, <1>2, <1>3 DEF SCount, Once, Fresh, InTurn, AtWork, HasProgram, Pended, Waits
<1>6. shCrashed' \in BOOLEAN
  BY <1>2
<1> QED BY <1>4, <1>5, <1>6 DEF SInv

\* a compilation ends, well or not, and the main thread goes on to the next
LEMMA DoneSInv ==
  ASSUME SInv, ~ shCrashed, Failed \/ (Links /\ Busy), Busy
  PROVE  SInv'
<1> DEFINE c == Compiled
<1>1. STypes /\ SCount
  BY DEF SInv
<1>2. /\ locked /\ pos <= Len(compiling) /\ state[c] = "ongoing"
      /\ shCrashed' = (shLife[c] = "dead")
      /\ stages' = {}
      /\ pos' = pos + 1
      /\ UNCHANGED <<shLife, compiling, locked>>
  BY DEF Busy, Failed, Links, Touch
<1>3. \/ /\ state' = [state EXCEPT ![c] = "failed"]
         /\ prog' = [prog EXCEPT ![c] = {}]
         /\ programs' = programs \ prog[c]
      \/ /\ state' = [state EXCEPT ![c] = "success"]
         /\ UNCHANGED <<prog, programs>>
  BY DEF Failed, Links
<1>4. c \in Shaders /\ pos \in DOMAIN compiling /\ Pended(c) /\ shLife[c] # "new"
  BY <1>1, <1>2, CompiledWaits
<1>5. compiling[pos] = c
  BY DEF Compiled
<1> HIDE DEF c
<1>6. /\ state \in [Shaders -> CompileState] /\ prog \in [Shaders -> SUBSET Shaders]
      /\ compiling \in Seq(Shaders) /\ Len(compiling) \in Nat /\ pos \in 1 .. Len(compiling)
      /\ DOMAIN compiling = 1 .. Len(compiling)
  BY <1>1, <1>2 DEF STypes
<1>7. /\ state' \in [Shaders -> CompileState] /\ prog' \in [Shaders -> SUBSET Shaders]
      /\ state'[c] \in {"failed", "success"}
      /\ \A s \in Shaders : s # c => state'[s] = state[s] /\ prog'[s] = prog[s]
  BY <1>3, <1>4, <1>6 DEF CompileState
<1>8. STypes'
  BY <1>1, <1>2, <1>6, <1>7 DEF STypes
<1>9. prog[c] = {c} /\ c \in programs
  BY <1>1, <1>2, <1>4 DEF SCount, HasProgram
<1>10. \A i \in DOMAIN compiling : i >= pos + 1 <=> i >= pos /\ i # pos
  BY <1>6
<1>11. ~ Waits(c, compiling, pos + 1)
  BY <1>1, <1>4, <1>5, <1>10 DEF SCount, Once, Waits
<1>12. ASSUME NEW s \in Shaders
       PROVE  /\ shLife'[s] = "new" => Fresh(s)'
              /\ shLife'[s] # "new" => InTurn(s)'
              /\ AtWork(s)'
              /\ HasProgram(s)'
              /\ state'[s] # "ongoing"
  <2>1. /\ shLife[s] = "new" => Fresh(s)
        /\ shLife[s] # "new" => InTurn(s)
        /\ AtWork(s)
        /\ HasProgram(s)
    BY <1>1 DEF SCount
  <2>2. CASE s = c
    <3>1. HasProgram(s)'
      <4>1. CASE programs' = programs \ prog[c] /\ state' = [state EXCEPT ![c] = "failed"]
                 /\ prog' = [prog EXCEPT ![c] = {}]
        BY <1>4, <1>6, <1>9, <2>2, <4>1 DEF HasProgram
      <4>2. CASE UNCHANGED <<prog, programs>> /\ state' = [state EXCEPT ![c] = "success"]
        BY <1>4, <1>6, <1>9, <2>2, <4>2 DEF HasProgram
      <4> QED BY <1>3, <4>1, <4>2
    <3>2. ~ Pended(s)' /\ state'[s] \in {"failed", "success"}
      BY <1>2, <1>7, <1>11, <2>2 DEF Pended
    <3>3. InTurn(s)' /\ AtWork(s)' /\ state'[s] # "ongoing"
      BY <3>2 DEF InTurn, AtWork
    <3> QED BY <1>2, <1>4, <2>2, <3>1, <3>3
  <2>3. CASE s # c
    <3>1. state'[s] = state[s] /\ prog'[s] = prog[s] /\ (s \in programs' <=> s \in programs)
      BY <1>3, <1>7, <1>9, <2>3
    <3>2. HasProgram(s)'
      BY <2>1, <3>1 DEF HasProgram
    <3>3. state[s] # "ongoing"
      BY <1>5, <2>1, <2>3 DEF AtWork
    <3>4. AtWork(s)' /\ state'[s] # "ongoing"
      BY <3>1, <3>3 DEF AtWork
    <3>5. Pended(s)' <=> Pended(s)
      BY <1>2, <1>4, <1>5, <1>10, <2>3 DEF Pended, Waits
    <3>6. shLife'[s] # "new" => InTurn(s)'
      BY <1>2, <2>1, <3>1, <3>5 DEF InTurn
    <3>7. shLife'[s] = "new" => Fresh(s)'
      BY <1>2, <2>1, <3>1 DEF Fresh
    <3> QED BY <3>2, <3>4, <3>6, <3>7
  <2> QED BY <2>2, <2>3
<1>13. SCount'
  BY <1>1, <1>2, <1>12 DEF SCount
<1>14. shCrashed' \in BOOLEAN
  BY <1>2
<1> QED BY <1>8, <1>13, <1>14 DEF SInv

\* every step keeps the invariant
LEMMA NextSInv == SInv /\ [Next]_vars => SInv'
<1> SUFFICES ASSUME SInv, [Next]_vars
             PROVE  SInv'
  OBVIOUS
<1>1. CASE Shading
  <2>1. ~ shCrashed
    BY <1>1 DEF Shading, ShaderNext
  <2>2. ASSUME NEW s \in Shaders, NEW u \in SUBSET StageTypes, NewShader(s, u)
        PROVE  SInv'
    BY <2>1, <2>2, NewSInv
  <2>3. CASE StageFails \/ LinkFails \/ Links
    BY <2>1, <2>3, DoneSInv DEF StageFails, LinkFails, Links
  <2> QED BY <1>1, <2>1, <2>2, <2>3, DestroySInv, LockSInv, BeginSInv, StageSInv
          DEF Shading, ShaderNext
<1>2. CASE Graphics \/ Finished \/ UNCHANGED vars
  BY <1>2, KeepsShaders DEF Graphics, Finished, vars, shVars
<1> QED BY <1>1, <1>2 DEF Next

\* Every living shader waits once or has been compiled, programs belong to the
\* shaders that compiled, and no shader object is left over, for any number of
\* shaders and stages.
THEOREM ShadersCounted == Spec => []ShadersAccounted
<1>1. SInv => ShadersAccounted
  <2> SUFFICES ASSUME SInv, ~ shCrashed
               PROVE  ShadersAccounted
    BY DEF ShadersAccounted
  <2>1. SCount
    BY DEF SInv
  <2> QED BY <2>1 DEF SCount, Once, InTurn, HasProgram, Pended, Waits, ShadersAccounted
<1> QED BY <1>1, InitSInv, NextSInv, PTL DEF Spec

-----------------------------------------------------------------------------
(* What is asked for reaches GL *)

\* the tick works on t
Ticked(t) == phase = "textures" /\ at <= Len(toUpdate) /\ toUpdate[at] = t

\* the bit b of t is set, or the client is about to set it
Has(t, b) == b \in flags[t] \/ (cpc = "flag" /\ call.tex = t /\ call.flag = b)

\* the n-th if of tickGPU() has still to be taken for t
Owes(t, n) == Has(t, Parts[n]) /\ ~ (Ticked(t) /\ n < part)

Whole(g) == g = [tex |-> g.tex, size |-> g.size, samples |-> g.samples,
                 filter |-> g.filter, anisotropy |-> g.anisotropy, tiling |-> g.tiling]

GTypes ==
  /\ requested = [t \in Textures |-> requested[t]]
  /\ current = [t \in Textures |-> current[t]]
  /\ size = [t \in Textures |-> size[t]]
  /\ flags = [t \in Textures |-> flags[t]]
  /\ gpu = [t \in Textures |-> gpu[t]]
  /\ made \subseteq Textures
  /\ serial \in BOOLEAN
  /\ part \in 1 .. 8
  /\ \A t \in made : requested[t] \in Settings /\ current[t] \in Settings
  /\ \A t \in Textures : Whole(gpu[t]) /\ (flags[t] # {} => t \in made)
  /\ cpc # "idle" => call.tex \in made

\* a client on the ticking thread does nothing during update(); a texture leaves
\* the queue without flags
GPhase ==
  /\ phase # "idle" => cpc = "idle"
  /\ part # 1 => phase = "textures" /\ at <= Len(toUpdate)
  /\ part = 8 => flags[toUpdate[at]] = {}
  /\ phase = "framebuffers" => \A t \in Textures : flags[t] = {}

\* flags are set only on a texture that waits, or is about to
Flagged == \A t \in Textures : flags[t] # {} => queued[t] \/ (cpc # "idle" /\ call.tex = t)

\* the parameters of a GL texture are the settings in force
Same(g, c) ==
  /\ g.samples = c.samples
  /\ g.samples = "x1" => /\ g.filter = c.filter
                         /\ g.tiling = c.tiling
                         /\ c.anisotropy # 0 => g.anisotropy = c.anisotropy

\* where GL differs from what was asked for, the bit for it is owed
Follows(t) ==
  /\ current[t].samples = requested[t].samples \/ Owes(t, 3)
  /\ current[t].filter = requested[t].filter \/ Owes(t, 4)
  /\ current[t].anisotropy = requested[t].anisotropy \/ Owes(t, 5)
  /\ current[t].tiling = requested[t].tiling \/ Owes(t, 6)
  /\ Owes(t, 1) \/ (Same(gpu[t], current[t]) /\ (gpu[t].size = size[t] \/ Owes(t, 2)))

GInv == GTypes /\ (serial => GPhase /\ Flagged /\ \A t \in made : Follows(t))

\* nothing is made, nothing is flagged
LEMMA InitGInv == Init => GInv
<1> SUFFICES ASSUME Init
             PROVE  GInv
  OBVIOUS
<1>1. TexInit
  BY DEF Init, FramebufferInit
<1>2. GTypes
  BY <1>1 DEF TexInit, GTypes, Whole, Unset
<1>3. GPhase /\ Flagged
  BY <1>1 DEF TexInit, GPhase, Flagged
<1> QED BY <1>1, <1>2, <1>3 DEF TexInit, GInv

\* nothing of the textures changes
LEMMA KeepsTextures == ASSUME GInv, UNCHANGED texVars PROVE GInv'
<1>1. UNCHANGED <<serial, made, size, requested, current, gpu, flags, queued, toUpdate,
                  cpc, call, phase, at, part>>
  BY DEF texVars, front, back, client, tick
<1>2. GTypes'
  BY <1>1 DEF GInv, GTypes, Whole
<1>3. GPhase => GPhase'
  BY <1>1 DEF GPhase
<1>4. Flagged => Flagged'
  BY <1>1 DEF Flagged
<1>5. ASSUME NEW t \in made PROVE Follows(t) => Follows(t)'
  BY <1>1 DEF Follows, Owes, Has, Ticked, Same
<1> QED BY <1>1, <1>2, <1>3, <1>4, <1>5 DEF GInv

\* a texture whose settings and GL texture stay, and which owes no less
LEMMA KeepsFollows ==
  ASSUME NEW t, requested'[t] = requested[t], current'[t] = current[t],
         gpu'[t] = gpu[t], size'[t] = size[t],
         \A n \in 1 .. 6 : Owes(t, n) => Owes(t, n)'
  PROVE  Follows(t) => Follows(t)'
BY DEF Follows

\* the ifs of tickGPU()
LEMMA PartsAre ==
  /\ Len(Parts) = 6
  /\ Parts[1] = "recreate" /\ Parts[2] = "resize" /\ Parts[3] = FLAG_UPDATE_SAMPLING
  /\ Parts[4] = "filter" /\ Parts[5] = FLAG_UPDATE_ANISOTROPY /\ Parts[6] = "tiling"
BY DEF Parts

-----------------------------------------------------------------------------
(* The client *)

\* what a call asks for, its bit will carry out
LEMMA AsksGInv ==
  ASSUME GInv, NEW t \in Textures, NEW b, Begin(t, b),
         NEW s, NEW r \in Settings,
         made' \in {made, made \cup {t}}, t \in made', t \in made \/ b = "recreate",
         size' = [size EXCEPT ![t] = s],
         requested' = [requested EXCEPT ![t] = r],
         current' = [current EXCEPT ![t] = IF t \in made THEN current[t] ELSE r],
         s = size[t] \/ b \in {"resize", "recreate"},
         t \in made =>
           /\ r.samples = requested[t].samples \/ b = FLAG_UPDATE_SAMPLING
           /\ r.filter = requested[t].filter \/ b = "filter"
           /\ r.anisotropy = requested[t].anisotropy \/ b = FLAG_UPDATE_ANISOTROPY
           /\ r.tiling = requested[t].tiling \/ b = "tiling"
  PROVE  GInv'
<1>1. /\ cpc = "idle" /\ cpc' = "flag" /\ call' = [tex |-> t, flag |-> b]
      /\ serial => phase = "idle"
      /\ UNCHANGED <<serial, gpu, flags, queued, toUpdate, phase, at, part>>
  BY DEF Begin, tick
<1>2. GTypes
  BY DEF GInv
<1>3. /\ size'[t] = s /\ requested'[t] = r
      /\ current'[t] = IF t \in made THEN current[t] ELSE r
      /\ \A u \in Textures : u # t => /\ size'[u] = size[u] /\ requested'[u] = requested[u]
                                      /\ current'[u] = current[u] /\ (u \in made' <=> u \in made)
  BY <1>2 DEF GTypes
<1>4. GTypes'
  <2>1. \A u \in made' : requested'[u] \in Settings /\ current'[u] \in Settings
    <3> SUFFICES ASSUME NEW u \in made' PROVE requested'[u] \in Settings /\ current'[u] \in Settings
      OBVIOUS
    <3>1. u \in Textures /\ (u = t \/ u \in made)
      BY <1>2 DEF GTypes
    <3>2. CASE u = t
      BY <1>2, <1>3, <3>2 DEF GTypes
    <3>3. CASE u # t
      BY <1>2, <1>3, <3>1, <3>3 DEF GTypes
    <3> QED BY <3>2, <3>3
  <2>2. /\ requested' = [u \in Textures |-> requested'[u]]
        /\ current' = [u \in Textures |-> current'[u]]
        /\ size' = [u \in Textures |-> size'[u]]
    BY <1>2 DEF GTypes
  <2>3. made' \subseteq Textures
    BY <1>2 DEF GTypes
  <2> QED BY <1>1, <1>2, <2>1, <2>2, <2>3 DEF GTypes, Whole
<1>5. ASSUME serial
      PROVE  GPhase' /\ Flagged' /\ \A u \in made' : Follows(u)'
  <2>1. GPhase /\ Flagged /\ (\A u \in made : Follows(u)) /\ phase = "idle"
    BY <1>1, <1>5 DEF GInv
  <2>2. GPhase'
    BY <1>1, <2>1 DEF GPhase
  <2>3. Flagged'
    BY <1>1, <2>1 DEF Flagged
  <2>4. \A u, n : Owes(u, n)' <=> Owes(u, n) \/ (u = t /\ b = Parts[n])
    <3>1. \A u : ~ Ticked(u) /\ ~ Ticked(u)'
      BY <1>1, <2>1 DEF Ticked
    <3> QED BY <1>1, <3>1 DEF Owes, Has
  <2>5. ASSUME NEW u \in made', u # t
        PROVE  Follows(u)'
    <3>1. u \in made /\ u \in Textures
      BY <1>2, <2>5 DEF GTypes
    <3> QED BY <1>1, <1>3, <2>1, <2>4, <2>5, <3>1, KeepsFollows
  <2>6. Follows(t)'
    <3>1. gpu'[t] = gpu[t]
      BY <1>1
    <3>2. CASE t \in made
      <4>1. Follows(t)
        BY <2>1, <3>2
      <4> QED BY <1>3, <2>4, <3>1, <3>2, <4>1, PartsAre DEF Follows, Same
    <3>3. CASE t \notin made
      BY <1>3, <2>4, <3>3, PartsAre DEF Follows
    <3> QED BY <3>2, <3>3
  <2> QED BY <2>2, <2>3, <2>5, <2>6
<1> QED BY <1>1, <1>4, <1>5 DEF GInv

\* every call is of that form
LEMMA CallGInv ==
  ASSUME GInv, NEW t \in Textures, Call(t)
  PROVE  GInv'
<1>1. GTypes
  BY DEF GInv
<1>2. ASSUME NEW s \in Sizes, ResizeAndClear(t, s)
      PROVE  GInv'
  <2>1. /\ t \in made /\ requested[t] \in Settings /\ Begin(t, "resize")
        /\ size' = [size EXCEPT ![t] = s]
        /\ UNCHANGED <<made, requested, current>>
    BY <1>1, <1>2 DEF ResizeAndClear, GTypes
  <2>2. /\ requested' = [requested EXCEPT ![t] = requested[t]]
        /\ current' = [current EXCEPT ![t] = IF t \in made THEN current[t] ELSE requested[t]]
    BY <1>1, <2>1 DEF GTypes
  <2> QED BY <2>1, <2>2, AsksGInv
<1>3. ASSUME NEW s \in Sizes, NEW r \in Initial, Construct(t, s, r)
      PROVE  GInv'
  <2>1. /\ t \notin made /\ r \in Settings /\ Begin(t, "recreate")
        /\ made' = made \cup {t}
        /\ size' = [size EXCEPT ![t] = s]
        /\ requested' = [requested EXCEPT ![t] = r]
        /\ current' = [current EXCEPT ![t] = r]
    BY <1>3, TextureAssumption DEF Construct
  <2> QED BY <2>1, AsksGInv
<1>4. ASSUME NEW b, NEW r \in Settings, Request(t, b, r),
             /\ r.samples = requested[t].samples \/ b = FLAG_UPDATE_SAMPLING
             /\ r.filter = requested[t].filter \/ b = "filter"
             /\ r.anisotropy = requested[t].anisotropy \/ b = FLAG_UPDATE_ANISOTROPY
             /\ r.tiling = requested[t].tiling \/ b = "tiling"
      PROVE  GInv'
  <2>1. /\ t \in made /\ Begin(t, b)
        /\ requested' = [requested EXCEPT ![t] = r]
        /\ UNCHANGED <<made, size, current>>
    BY <1>4 DEF Request
  <2>2. /\ size' = [size EXCEPT ![t] = size[t]]
        /\ current' = [current EXCEPT ![t] = IF t \in made THEN current[t] ELSE r]
    BY <1>1, <2>1 DEF GTypes
  <2> QED BY <1>4, <2>1, <2>2, AsksGInv
<1>5. ASSUME NEW b, NEW r, Request(t, b, r)
      PROVE  requested[t] \in Settings
  BY <1>1, <1>5 DEF Request, GTypes
<1>6. ASSUME NEW m \in Modes, SetFilterMode(t, m) \/ SetTilingMode(t, m)
      PROVE  GInv'
  <2>1. requested[t] \in Settings
    BY <1>5, <1>6 DEF SetFilterMode, SetTilingMode
  <2>2. CASE SetFilterMode(t, m)
    BY <1>4, <2>1, <2>2 DEF SetFilterMode, Settings
  <2>3. CASE SetTilingMode(t, m)
    BY <1>4, <2>1, <2>3 DEF SetTilingMode, Settings
  <2> QED BY <1>6, <2>2, <2>3
<1>7. ASSUME NEW l \in Levels, SetAnisotropy(t, l)
      PROVE  GInv'
  <2>1. requested[t] \in Settings
    BY <1>5, <1>7 DEF SetAnisotropy
  <2> QED BY <1>4, <1>7, <2>1 DEF SetAnisotropy, Settings
<1>8. ASSUME NEW s \in Samples, SetMultiSample(t, s)
      PROVE  GInv'
  <2>1. requested[t] \in Settings
    BY <1>5, <1>8 DEF SetMultiSample
  <2> QED BY <1>4, <1>8, <2>1 DEF SetMultiSample, Settings
<1> QED BY <1>2, <1>3, <1>6, <1>7, <1>8 DEF Call

\* the client sets its bit, and queues the texture if it does not wait
LEMMA ClientGInv ==
  ASSUME GInv, QInv, ClientStep
  PROVE  GInv'
<1>1. /\ UNCHANGED <<serial, made, size, requested, current, gpu, phase, at, part>>
      /\ cpc # "idle"
  BY DEF ClientStep, SetFlag, TestQueued, Push, front, back, tick
<1>2. GTypes
  BY DEF GInv
<1>3. cpc # "idle" => call.tex \in Textures
  BY DEF QInv, QTypes
<1>4. flags' = [t \in Textures |-> flags'[t]]
  BY <1>2 DEF ClientStep, SetFlag, TestQueued, Push, GTypes
<1>5. GTypes'
  <2>1. cpc' # "idle" => call'.tex \in made'
    BY <1>1, <1>2 DEF GTypes, ClientStep, SetFlag, TestQueued, Push
  <2>2. \A t \in Textures : flags'[t] # {} => t \in made'
    <3>1. \A t \in Textures : flags[t] # {} => t \in made
      BY <1>2 DEF GTypes
    <3>2. call.tex \in made
      BY <1>1, <1>2 DEF GTypes
    <3>3. \A t \in Textures : t # call.tex => flags'[t] = flags[t]
      BY <1>2 DEF GTypes, ClientStep, SetFlag, TestQueued, Push
    <3> QED BY <1>1, <3>1, <3>2, <3>3
  <2> QED BY <1>1, <1>2, <1>4, <2>1, <2>2 DEF GTypes, Whole
<1>6. ASSUME serial
      PROVE  GPhase' /\ Flagged' /\ \A u \in made' : Follows(u)'
  <2>1. GPhase /\ Flagged /\ (\A u \in made : Follows(u)) /\ phase = "idle"
    BY <1>1, <1>6 DEF GInv, GPhase
  <2>2. GPhase'
    BY <1>1, <2>1 DEF GPhase
  <2>3. Flagged'
    <3>1. CASE SetFlag
      BY <1>2, <1>3, <2>1, <3>1 DEF SetFlag, Flagged, GTypes
    <3>2. CASE TestQueued
      BY <2>1, <3>2 DEF TestQueued, Flagged
    <3>3. CASE Push
      <4>1. queued \in [Textures -> BOOLEAN]
        BY DEF QInv, QTypes
      <4>2. queued' = [queued EXCEPT ![call.tex] = TRUE] /\ flags' = flags
        BY <3>3 DEF Push
      <4>3. \A u \in Textures : queued'[u] <=> queued[u] \/ u = call.tex
        BY <1>1, <1>3, <4>1, <4>2
      <4> QED BY <2>1, <4>2, <4>3 DEF Flagged
    <3> QED BY <3>1, <3>2, <3>3 DEF ClientStep
  <2>4. ASSUME NEW u \in Textures, NEW b
        PROVE  Has(u, b) => Has(u, b)'
    <3>1. CASE SetFlag
      BY <1>2, <1>3, <3>1 DEF SetFlag, Has, GTypes
    <3>2. CASE TestQueued \/ Push
      BY <3>2 DEF TestQueued, Push, Has
    <3> QED BY <3>1, <3>2 DEF ClientStep
  <2>5. \A u : ~ Ticked(u) /\ ~ Ticked(u)'
    BY <1>1, <2>1 DEF Ticked
  <2>6. ASSUME NEW u \in made' PROVE Follows(u)'
    <3>1. u \in Textures /\ Follows(u)
      BY <1>1, <1>2, <2>1 DEF GTypes
    <3>2. \A n \in 1 .. 6 : Owes(u, n) => Owes(u, n)'
      BY <2>4, <2>5, <3>1 DEF Owes
    <3> QED BY <1>1, <3>1, <3>2, KeepsFollows
  <2> QED BY <2>2, <2>3, <2>6
<1> QED BY <1>1, <1>5, <1>6 DEF GInv

-----------------------------------------------------------------------------
(* The tick *)

\* the GL texture made with the settings c shows them
LEMMA CreatedShows ==
  ASSUME NEW t, NEW c
  PROVE  /\ Whole(Created(t, c))
         /\ Same(Created(t, c), c)
         /\ Created(t, c).size = size[t]
         /\ Created(t, c).tex = names + 1
BY DEF Created, Whole, Same

\* what the n-th if of tickGPU() makes of the settings
Taken(n, c, r) ==
  [filter |-> IF n = 4 THEN r.filter ELSE c.filter,
   anisotropy |-> IF n = 5 THEN r.anisotropy ELSE c.anisotropy,
   samples |-> IF n = 3 THEN r.samples ELSE c.samples,
   tiling |-> IF n = 6 THEN r.tiling ELSE c.tiling]

\* an if that is taken brings its part of GL and of the settings up to date
LEMMA ApplyFacts ==
  ASSUME GTypes, NEW t \in made, NEW n \in 1 .. 6, Apply(t, n)
  PROVE  /\ current' = [current EXCEPT ![t] = Taken(n, current[t], requested[t])]
         /\ gpu' = [gpu EXCEPT ![t] = gpu'[t]]
         /\ Whole(gpu'[t])
         /\ n \in {1, 2, 3} \/ Same(gpu[t], current[t]) => Same(gpu'[t], current'[t])
         /\ n \in {1, 2, 3} => gpu'[t].size = size[t]
         /\ n \in {4, 5, 6} => gpu'[t].size = gpu[t].size
<1> DEFINE c == current[t]
           r == requested[t]
           g == gpu[t]
<1>1. t \in Textures /\ Whole(g) /\ c \in Settings /\ r \in Settings
  <2>1. made \subseteq Textures
    BY DEF GTypes
  <2>2. \A u \in Textures : Whole(gpu[u])
    BY DEF GTypes, Whole
  <2>3. \A u \in made : requested[u] \in Settings /\ current[u] \in Settings
    BY DEF GTypes
  <2> QED BY <2>1, <2>2, <2>3
<1>2. CASE n \in {1, 2, 3}
  <2> DEFINE k == IF n = 3 THEN Sampled(c, r) ELSE c
  <2>1. Recreate(t, k)
    <3>1. CASE n = 3
      BY <3>1 DEF Apply
    <3>2. CASE n = 1
      BY <3>2 DEF Apply
    <3>3. CASE n = 2
      BY <3>3 DEF Apply
    <3> QED BY <1>2, <3>1, <3>2, <3>3
  <2>2. k = Taken(n, c, r)
    BY <1>1, <1>2 DEF Taken, Sampled, Settings
  <2> HIDE DEF k
  <2>3. gpu' = [gpu EXCEPT ![t] = Created(t, k)] /\ current' = [current EXCEPT ![t] = k]
    BY <2>1 DEF Recreate
  <2>4. gpu'[t] = Created(t, k) /\ current'[t] = k
    BY <1>1, <2>3 DEF GTypes
  <2>5. Whole(gpu'[t]) /\ Same(gpu'[t], current'[t]) /\ gpu'[t].size = size[t]
    BY <2>4, CreatedShows, Zenon
  <2>6. gpu' = [gpu EXCEPT ![t] = gpu'[t]]
    BY <2>3, <2>4
  <2> QED BY <1>2, <2>2, <2>3, <2>5, <2>6
<1>3. ASSUME NEW k, NEW p, SetParameter(t, k, p), n \in {4, 5, 6},
             k = Taken(n, c, r), Whole(p), p.samples = g.samples, p.size = g.size,
             Same(g, c) /\ g.samples = "x1" => Same(p, k),
             Same(g, c) /\ g.samples # "x1" => Same(g, k)
      PROVE  /\ current' = [current EXCEPT ![t] = Taken(n, c, r)]
             /\ gpu' = [gpu EXCEPT ![t] = gpu'[t]]
             /\ Whole(gpu'[t])
             /\ Same(g, c) => Same(gpu'[t], current'[t])
             /\ gpu'[t].size = g.size
  <2>1. /\ gpu' = IF g.samples = "x1" THEN [gpu EXCEPT ![t] = p] ELSE gpu
        /\ current' = [current EXCEPT ![t] = k]
    BY <1>3 DEF SetParameter
  <2>2. /\ gpu'[t] = IF g.samples = "x1" THEN p ELSE g
        /\ current'[t] = k
        /\ gpu' = [gpu EXCEPT ![t] = gpu'[t]]
    BY <1>1, <2>1 DEF GTypes
  <2> QED BY <1>1, <1>3, <2>1, <2>2
<1>4. CASE n = 4
  <2> DEFINE k == [c EXCEPT !.filter = r.filter]
             p == [g EXCEPT !.filter = r.filter]
  <2>1. SetParameter(t, k, p)
    BY <1>4 DEF Apply
  <2>2. k = Taken(n, c, r)
    BY <1>1, <1>4 DEF Taken, Settings
  <2>3. Whole(p) /\ p.samples = g.samples /\ p.size = g.size
    BY <1>1 DEF Whole
  <2>4. /\ Same(g, c) /\ g.samples = "x1" => Same(p, k)
        /\ Same(g, c) /\ g.samples # "x1" => Same(g, k)
    BY <1>1 DEF Same, Whole, Settings
  <2> HIDE DEF k, p
  <2> QED BY <1>3, <1>4, <2>1, <2>2, <2>3, <2>4
<1>5. CASE n = 5
  <2> DEFINE k == [c EXCEPT !.anisotropy = r.anisotropy]
             p == [g EXCEPT !.anisotropy = IF r.anisotropy = 0 THEN @ ELSE r.anisotropy]
  <2>1. SetParameter(t, k, p)
    BY <1>5 DEF Apply
  <2>2. k = Taken(n, c, r)
    BY <1>1, <1>5 DEF Taken, Settings
  <2>3. Whole(p) /\ p.samples = g.samples /\ p.size = g.size
    BY <1>1 DEF Whole
  <2>4. /\ Same(g, c) /\ g.samples = "x1" => Same(p, k)
        /\ Same(g, c) /\ g.samples # "x1" => Same(g, k)
    BY <1>1 DEF Same, Whole, Settings
  <2> HIDE DEF k, p
  <2> QED BY <1>3, <1>5, <2>1, <2>2, <2>3, <2>4
<1>6. CASE n = 6
  <2> DEFINE k == [c EXCEPT !.tiling = r.tiling]
             p == [g EXCEPT !.tiling = r.tiling]
  <2>1. SetParameter(t, k, p)
    BY <1>6 DEF Apply
  <2>2. k = Taken(n, c, r)
    BY <1>1, <1>6 DEF Taken, Settings
  <2>3. Whole(p) /\ p.samples = g.samples /\ p.size = g.size
    BY <1>1 DEF Whole
  <2>4. /\ Same(g, c) /\ g.samples = "x1" => Same(p, k)
        /\ Same(g, c) /\ g.samples # "x1" => Same(g, k)
    BY <1>1 DEF Same, Whole, Settings
  <2> HIDE DEF k, p
  <2> QED BY <1>3, <1>6, <2>1, <2>2, <2>3, <2>4
<1> QED BY <1>2, <1>4, <1>5, <1>6

\* an if of tickGPU() is taken, or there is nothing to do for its bit
LEMMA PartGInv ==
  ASSUME GInv, QInv, TickPart
  PROVE  GInv'
<1>0. PICK t : t = toUpdate[at]
  OBVIOUS
<1>1. /\ phase = "textures" /\ at <= Len(toUpdate) /\ part' = part + 1
      /\ UNCHANGED <<serial, made, size, requested, flags, queued, toUpdate, cpc, call,
                     phase, at>>
  BY DEF TickPart, front, client
<1>2. GTypes
  BY DEF GInv
<1>3. part \in 1 .. 6 /\ t \in Textures
  BY <1>0, <1>2, PartsAre DEF TickPart, GTypes, QInv, QTypes
<1>4. \/ Parts[part] \in flags[t] /\ Apply(t, part)
      \/ Parts[part] \notin flags[t] /\ UNCHANGED <<current, gpu>>
  BY <1>0 DEF TickPart, back
<1>5. CASE Parts[part] \in flags[t] /\ Apply(t, part)
  <2>1. t \in made
    BY <1>2, <1>3, <1>5 DEF GTypes
  <2> DEFINE c == current[t]
             r == requested[t]
  <2>2. /\ current' = [current EXCEPT ![t] = Taken(part, c, r)]
        /\ gpu' = [gpu EXCEPT ![t] = gpu'[t]]
        /\ Whole(gpu'[t])
        /\ part \in {1, 2, 3} \/ Same(gpu[t], c) => Same(gpu'[t], current'[t])
        /\ part \in {1, 2, 3} => gpu'[t].size = size[t]
        /\ part \in {4, 5, 6} => gpu'[t].size = gpu[t].size
    BY <1>2, <1>3, <1>5, <2>1, ApplyFacts
  <2>3. /\ current'[t] = Taken(part, c, r)
        /\ \A u \in Textures : u # t => current'[u] = current[u] /\ gpu'[u] = gpu[u]
        /\ current' = [u \in Textures |-> current'[u]]
        /\ gpu' = [u \in Textures |-> gpu'[u]]
    BY <1>2, <1>3, <2>2 DEF GTypes
  <2>4. Taken(part, c, r) \in Settings
    BY <1>2, <2>1 DEF GTypes, Settings, Taken
  <2>5. GTypes'
    <3>1. \A u \in Textures : Whole(gpu'[u])
      <4>1. \A u \in Textures : Whole(gpu[u])
        BY <1>2 DEF GTypes, Whole
      <4> QED BY <2>2, <2>3, <4>1, Zenon
    <3>2. \A u \in made : requested'[u] \in Settings /\ current'[u] \in Settings
      BY <1>1, <1>2, <2>3, <2>4 DEF GTypes
    <3>3. \A u \in Textures : Whole(gpu'[u]) /\ (flags'[u] # {} => u \in made')
      <4>1. \A u \in Textures : flags[u] # {} => u \in made
        BY <1>2 DEF GTypes
      <4> QED BY <1>1, <3>1, <4>1, Zenon
    <3>4. part' \in 1 .. 8
      BY <1>1, <1>3
    <3> QED BY <1>1, <1>2, <2>3, <3>2, <3>3, <3>4 DEF GTypes
  <2>6. ASSUME serial
        PROVE  GPhase' /\ Flagged' /\ \A u \in made' : Follows(u)'
    <3>1. GPhase /\ Flagged /\ (\A u \in made : Follows(u)) /\ cpc = "idle"
      BY <1>1, <2>6 DEF GInv, GPhase
    <3>2. GPhase' /\ Flagged'
      BY <1>1, <1>3, <3>1 DEF GPhase, Flagged
    <3>3. ASSUME NEW u \in made, u # t PROVE Follows(u)'
      <4>1. u \in Textures /\ ~ Ticked(u) /\ ~ Ticked(u)'
        BY <1>0, <1>1, <1>2, <3>3 DEF GTypes, Ticked
      <4>2. \A n \in 1 .. 6 : Owes(u, n) => Owes(u, n)'
        BY <1>1, <4>1 DEF Owes, Has
      <4> QED BY <1>1, <2>3, <3>1, <3>3, <4>1, <4>2, KeepsFollows
    <3>4. Follows(t)'
      <4>1. Ticked(t) /\ Ticked(t)'
        BY <1>0, <1>1 DEF Ticked
      <4>2. \A n \in 1 .. 6 : /\ Owes(t, n) <=> Parts[n] \in flags[t] /\ n >= part
                              /\ Owes(t, n)' <=> Parts[n] \in flags[t] /\ n > part
        BY <1>1, <1>3, <3>1, <4>1 DEF Owes, Has
      <4>3. Follows(t)
        BY <2>1, <3>1
      <4>4. c.samples = r.samples \/ Owes(t, 3)
        BY <4>3 DEF Follows
      <4>5. c.filter = r.filter \/ Owes(t, 4)
        BY <4>3 DEF Follows
      <4>6. c.anisotropy = r.anisotropy \/ Owes(t, 5)
        BY <4>3 DEF Follows
      <4>7. c.tiling = r.tiling \/ Owes(t, 6)
        BY <4>3 DEF Follows
      <4>8. Owes(t, 1) \/ (Same(gpu[t], c) /\ (gpu[t].size = size[t] \/ Owes(t, 2)))
        BY <4>3, Zenon DEF Follows
      <4>9. requested'[t] = r /\ current'[t] = Taken(part, c, r)
        BY <1>1, <2>3
      <4>10. current'[t].samples = r.samples \/ Owes(t, 3)'
        BY <1>3, <4>2, <4>4, <4>9 DEF Taken
      <4>11. current'[t].filter = r.filter \/ Owes(t, 4)'
        BY <1>3, <4>2, <4>5, <4>9 DEF Taken
      <4>12. current'[t].anisotropy = r.anisotropy \/ Owes(t, 5)'
        BY <1>3, <4>2, <4>6, <4>9 DEF Taken
      <4>13. current'[t].tiling = r.tiling \/ Owes(t, 6)'
        BY <1>3, <4>2, <4>7, <4>9 DEF Taken
      <4>14. Same(gpu'[t], current'[t])
        <5>1. CASE part \in {1, 2, 3}
          BY <2>2, <5>1, Zenon
        <5>2. CASE part \notin {1, 2, 3}
          <6>1. ~ Owes(t, 1)
            BY <1>3, <4>2, <5>2
          <6> QED BY <2>2, <4>8, <6>1, Zenon
        <5> QED BY <5>1, <5>2
      <4>15. gpu'[t].size = size[t] \/ Owes(t, 2)'
        <5>1. CASE part \in {1, 2, 3}
          BY <2>2, <5>1
        <5>2. CASE part \in {4, 5, 6}
          <6>1. ~ Owes(t, 1) /\ ~ Owes(t, 2)
            BY <1>3, <4>2, <5>2
          <6> QED BY <2>2, <4>8, <5>2, <6>1
        <5> QED BY <1>3, <5>1, <5>2
      <4>16. size'[t] = size[t]
        BY <1>1
      <4> QED BY <4>9, <4>10, <4>11, <4>12, <4>13, <4>14, <4>15, <4>16 DEF Follows, Same
    <3> QED BY <1>1, <3>2, <3>3, <3>4
  <2> QED BY <1>1, <2>5, <2>6 DEF GInv
<1>6. CASE Parts[part] \notin flags[t] /\ UNCHANGED <<current, gpu>>
  <2>1. part' \in 1 .. 8
    BY <1>1, <1>3
  <2>2. GTypes'
    BY <1>1, <1>2, <1>6, <2>1 DEF GTypes, Whole
  <2>3. ASSUME serial
        PROVE  GPhase' /\ Flagged' /\ \A u \in made' : Follows(u)'
    <3>1. GPhase /\ Flagged /\ (\A u \in made : Follows(u)) /\ cpc = "idle"
      BY <1>1, <2>3 DEF GInv, GPhase
    <3>2. GPhase' /\ Flagged'
      BY <1>1, <1>3, <3>1 DEF GPhase, Flagged
    <3>3. ASSUME NEW u \in made PROVE Follows(u)'
      <4>1. (Ticked(u) <=> u = t) /\ (Ticked(u)' <=> u = t)
        BY <1>0, <1>1 DEF Ticked
      <4>2. ASSUME NEW n \in 1 .. 6, Owes(u, n) PROVE Owes(u, n)'
        <5>1. Parts[n] \in flags[u]
          BY <3>1, <4>2 DEF Owes, Has
        <5>2. u = t => n # part
          BY <1>6, <5>1
        <5> QED BY <1>1, <1>3, <4>1, <4>2, <5>1, <5>2 DEF Owes, Has
      <4> QED BY <1>1, <1>6, <3>1, <4>2, KeepsFollows
    <3> QED BY <1>1, <3>2, <3>3
  <2> QED BY <1>1, <2>2, <2>3 DEF GInv
<1> QED BY <1>4, <1>5, <1>6

\* the tick counts on and sets no flag
LEMMA KeepsGTypes ==
  ASSUME GTypes, UNCHANGED <<serial, made, size, requested, current, gpu, cpc, call>>,
         flags' = [t \in Textures |-> flags'[t]],
         \A t \in Textures : flags'[t] # {} => flags[t] # {},
         part' \in 1 .. 8
  PROVE  GTypes'
<1>1. \A t \in Textures : Whole(gpu'[t])
  BY DEF GTypes, Whole
<1>2. \A t \in Textures : flags'[t] # {} => t \in made'
  BY DEF GTypes
<1>3. \A t \in Textures : Whole(gpu'[t]) /\ (flags'[t] # {} => t \in made')
  BY <1>1, <1>2, Zenon
<1> QED BY <1>3 DEF GTypes

\* the bits are cleared when every if has been taken
LEMMA ClearGInv ==
  ASSUME GInv, QInv, ClearFlags
  PROVE  GInv'
<1> DEFINE t == toUpdate[at]
<1>1. /\ phase = "textures" /\ at <= Len(toUpdate) /\ part = 7 /\ part' = 8
      /\ flags' = [flags EXCEPT ![t] = {}]
      /\ UNCHANGED <<serial, made, size, requested, current, gpu, queued, toUpdate, cpc, call,
                     phase, at>>
  BY PartsAre DEF ClearFlags, front, back, client
<1>2. GTypes
  BY DEF GInv
<1>3. t \in Textures
  BY <1>1 DEF QInv, QTypes
<1> HIDE DEF t
<1>4. flags'[t] = {} /\ \A u \in Textures : u # t => flags'[u] = flags[u]
  BY <1>1, <1>2, <1>3 DEF GTypes
<1>5. GTypes'
  <2>1. flags' = [u \in Textures |-> flags'[u]]
    BY <1>1, <1>2 DEF GTypes
  <2> QED BY <1>1, <1>2, <1>4, <2>1, KeepsGTypes
<1>6. ASSUME serial
      PROVE  GPhase' /\ Flagged' /\ \A u \in made' : Follows(u)'
  <2>1. GPhase /\ Flagged /\ (\A u \in made : Follows(u)) /\ cpc = "idle"
    BY <1>1, <1>6 DEF GInv, GPhase
  <2>2. GPhase' /\ Flagged'
    BY <1>1, <1>4, <2>1 DEF GPhase, Flagged, t
  <2>3. ASSUME NEW u \in made PROVE Follows(u)'
    <3>1. u \in Textures
      BY <1>2 DEF GTypes
    <3>2. ASSUME NEW n \in 1 .. 6, Owes(u, n) PROVE Owes(u, n)'
      <4>1. Ticked(t) /\ (Ticked(u)' <=> Ticked(u))
        BY <1>1 DEF Ticked, t
      <4>2. u # t
        BY <1>1, <3>2, <4>1 DEF Owes
      <4>3. Has(u, Parts[n])'
        BY <1>1, <1>4, <3>1, <3>2, <4>2 DEF Owes, Has
      <4>4. ~ Ticked(u)
        BY <4>2 DEF Ticked, t
      <4> QED BY <4>1, <4>3, <4>4 DEF Owes
    <3> QED BY <1>1, <2>1, <3>2, KeepsFollows
  <2> QED BY <1>1, <2>2, <2>3
<1> QED BY <1>1, <1>5, <1>6 DEF GInv

\* the tick goes on with the next texture, which owes what it did
LEMMA UnmarkGInv ==
  ASSUME GInv, QInv, Unmark
  PROVE  GInv'
<1> DEFINE t == toUpdate[at]
<1>1. /\ phase = "textures" /\ at <= Len(toUpdate) /\ part = 8 /\ part' = 1 /\ at' = at + 1
      /\ queued' = [queued EXCEPT ![t] = FALSE]
      /\ UNCHANGED <<serial, made, size, requested, current, gpu, flags, toUpdate, cpc, call, phase>>
  BY PartsAre DEF Unmark, front, back, client
<1>2. GTypes
  BY DEF GInv
<1>3. t \in Textures /\ queued \in [Textures -> BOOLEAN]
  BY <1>1 DEF QInv, QTypes
<1> HIDE DEF t
<1>4. GTypes'
  <2>1. flags' = [u \in Textures |-> flags'[u]]
    BY <1>1, <1>2 DEF GTypes
  <2> QED BY <1>1, <1>2, <2>1, KeepsGTypes
<1>5. ASSUME serial
      PROVE  GPhase' /\ Flagged' /\ \A u \in made' : Follows(u)'
  <2>1. GPhase /\ Flagged /\ (\A u \in made : Follows(u)) /\ cpc = "idle"
    BY <1>1, <1>5 DEF GInv, GPhase
  <2>2. flags[t] = {}
    BY <1>1, <2>1 DEF GPhase, t
  <2>3. GPhase'
    BY <1>1, <2>1 DEF GPhase
  <2>4. Flagged'
    <3>1. \A u \in Textures : u # t => (queued'[u] <=> queued[u])
      BY <1>1, <1>3
    <3> QED BY <1>1, <2>1, <2>2, <3>1 DEF Flagged
  <2>5. ASSUME NEW u \in made PROVE Follows(u)'
    <3>1. ASSUME NEW n \in 1 .. 6, Owes(u, n) PROVE Owes(u, n)'
      <4>1. ~ (n < part')
        BY <1>1
      <4> QED BY <1>1, <3>1, <4>1 DEF Owes, Has
    <3> QED BY <1>1, <2>1, <3>1, KeepsFollows
  <2> QED BY <1>1, <2>3, <2>4, <2>5
<1> QED BY <1>1, <1>4, <1>5 DEF GInv

\* update() begins, and when the queue has been worked through nothing is flagged
LEMMA PhaseGInv ==
  ASSUME GInv, QInv, BeginUpdate \/ EndTextures \/ EndUpdate
  PROVE  GInv'
<1>1. /\ UNCHANGED <<serial, made, size, requested, current, gpu, flags, queued, cpc, call, part>>
  BY DEF BeginUpdate, EndTextures, EndUpdate, front, back, client
<1>2. GTypes
  BY DEF GInv
<1>3. GTypes'
  BY <1>1, <1>2 DEF GTypes, Whole
<1>4. ASSUME serial
      PROVE  GPhase' /\ Flagged' /\ \A u \in made' : Follows(u)'
  <2>1. GPhase /\ Flagged /\ (\A u \in made : Follows(u)) /\ cpc = "idle" /\ part = 1
    <3>1. GPhase
      BY <1>4 DEF GInv
    <3>2. cpc = "idle" /\ part = 1
      <4>1. CASE BeginUpdate
        BY <1>4, <3>1, <4>1 DEF GPhase, BeginUpdate
      <4>2. CASE EndTextures
        BY <3>1, <4>2 DEF GPhase, EndTextures, QInv, QTypes
      <4>3. CASE EndUpdate
        BY <3>1, <4>3 DEF GPhase, EndUpdate
      <4> QED BY <4>1, <4>2, <4>3
    <3> QED BY <1>4, <3>1, <3>2 DEF GInv
  <2>2. EndTextures => \A t \in Textures : flags[t] = {}
    <3> SUFFICES ASSUME EndTextures, NEW t \in Textures PROVE flags[t] = {}
      OBVIOUS
    <3>1. ~ queued[t]
      BY DEF EndTextures, QInv, QTypes, Waits
    <3> QED BY <2>1, <3>1 DEF Flagged
  <2>3. phase' = "framebuffers" => EndTextures
    BY DEF BeginUpdate, EndTextures, EndUpdate, After
  <2>4. GPhase'
    BY <1>1, <2>1, <2>2, <2>3 DEF GPhase
  <2>5. Flagged'
    BY <1>1, <2>1 DEF Flagged
  <2>6. ASSUME NEW u \in made PROVE Follows(u)'
    <3>1. \A n \in 1 .. 6 : Owes(u, n) => Owes(u, n)'
      BY <1>1, <2>1 DEF Owes, Has
    <3> QED BY <1>1, <2>1, <3>1, KeepsFollows
  <2> QED BY <1>1, <2>4, <2>5, <2>6
<1> QED BY <1>1, <1>3, <1>4 DEF GInv

\* every step keeps the invariant
LEMMA NextGInv == QInv /\ GInv /\ [Next]_vars => GInv'
<1> SUFFICES ASSUME QInv, GInv, [Next]_vars
             PROVE  GInv'
  OBVIOUS
<1>1. CASE Graphics
  <2>1. ASSUME NEW t \in Textures, TextureCall(t)
        PROVE  GInv'
    BY <2>1, CallGInv DEF TextureCall
  <2>2. ASSUME NEW f \in Framebuffers, FramebufferCall(f)
        PROVE  GInv'
    BY <2>2, KeepsTextures DEF FramebufferCall, NewFramebuffer, RecreateFramebuffer,
       DestroyFramebuffer, Post
  <2>3. CASE TextureStep
    BY <2>3, ClientGInv, PartGInv, ClearGInv, UnmarkGInv, PhaseGInv DEF TextureStep, TickStep
  <2>4. CASE ServeRequest
    BY <2>4, KeepsTextures DEF ServeRequest
  <2>5. CASE EndUpdate
    BY <2>5, PhaseGInv
  <2> QED BY <1>1, <2>1, <2>2, <2>3, <2>4, <2>5 DEF Graphics, FramebufferNext, FramebufferStep
<1>2. CASE Shading \/ Finished \/ UNCHANGED vars
  BY <1>2, KeepsTextures DEF Shading, Finished, vars, fbAll
<1> QED BY <1>1, <1>2 DEF Next

\* With the client on the ticking thread, a texture that is not queued shows what
\* was asked for last: whatever setters were called, and in whatever order
\* tickGPU() took their bits, for any number of textures and calls.
THEOREM SettingsArrive == Spec => []SettingsReachTheGPU
<1>1. GInv => SettingsReachTheGPU
  <2> SUFFICES ASSUME GInv, serial, cpc = "idle", NEW t \in made, ~ queued[t]
               PROVE  ShowsRequest(t)
    BY DEF SettingsReachTheGPU
  <2>1. /\ GTypes /\ Flagged /\ Follows(t)
    BY DEF GInv
  <2>2. flags[t] = {}
    BY <2>1 DEF GTypes, Flagged
  <2>3. \A n : ~ Owes(t, n)
    BY <2>2 DEF Owes, Has
  <2>4. /\ current[t].samples = requested[t].samples /\ current[t].filter = requested[t].filter
        /\ current[t].anisotropy = requested[t].anisotropy
        /\ current[t].tiling = requested[t].tiling
        /\ Same(gpu[t], current[t]) /\ gpu[t].size = size[t]
    BY <2>1, <2>3, Zenon DEF Follows
  <2>5. current[t] = requested[t]
    <3>1. current[t] \in Settings /\ requested[t] \in Settings
      BY <2>1 DEF GTypes
    <3> QED BY <2>4, <3>1 DEF Settings
  <2> QED BY <2>4, <2>5 DEF ShowsRequest, Same
<1> QED BY <1>1, InitQInv, NextQInv, InitGInv, NextGInv, PTL DEF Spec

-----------------------------------------------------------------------------
(* The framebuffers *)

Held(n)   == \E f \in Framebuffers : life[f] = "alive" /\ fbo[f] = n
Doomed(n) == \E i \in DOMAIN requests : requests[i].self = NoFramebuffer /\ requests[i].fbo = n

Requests == [self : Framebuffers \cup {NoFramebuffer}, fbo : Nat]

FTypes ==
  /\ life \in [Framebuffers -> {"new", "alive", "dead"}]
  /\ fboNames \in Nat
  /\ fbo \in [Framebuffers -> 0 .. fboNames]
  /\ requests \in Seq(Requests)
  /\ crashed \in BOOLEAN

\* no two framebuffers share a GL framebuffer
Distinct == \A f, g \in Framebuffers : fbo[f] = fbo[g] /\ fbo[f] # 0 => f = g

\* a framebuffer that is not there yet has nothing and waits for nothing
Unborn == \A f \in Framebuffers : life[f] = "new" => fbo[f] = 0 /\ ~ Pending(f)

\* the first request for a framebuffer is the one to create it
CreatedFirst ==
  \A i \in DOMAIN requests :
    requests[i].self \in Framebuffers /\ requests[i].fbo = 0 =>
      /\ fbo[requests[i].self] = 0
      /\ \A j \in DOMAIN requests : j < i => requests[j].self # requests[i].self

Deletes(i) == requests[i].self = NoFramebuffer /\ requests[i].fbo # 0

\* a GL framebuffer is deleted once, for a framebuffer that is gone
DeletedOnce ==
  \A i \in DOMAIN requests : Deletes(i) =>
    /\ \E f \in Framebuffers : life[f] = "dead" /\ fbo[f] = requests[i].fbo
    /\ \A j \in DOMAIN requests : Deletes(j) /\ requests[j].fbo = requests[i].fbo => i = j

Accounted == \A n : n \in framebuffers <=> n # 0 /\ (Held(n) \/ Doomed(n))

FInv ==
  /\ FTypes
  /\ ~ crashed => Distinct /\ Unborn /\ CreatedFirst /\ DeletedOnce /\ Accounted

\* there is none
LEMMA InitFInv == Init => FInv
<1> SUFFICES ASSUME Init
             PROVE  FInv
  OBVIOUS
<1>1. /\ life = [f \in Framebuffers |-> "new"] /\ fbo = [f \in Framebuffers |-> 0]
      /\ requests = <<>> /\ framebuffers = {} /\ fboNames = 0 /\ crashed = FALSE
  BY DEF Init, FramebufferInit
<1>2. DOMAIN requests = {} /\ requests \in Seq(Requests)
  BY <1>1
<1>3. FTypes
  <2>1. life \in [Framebuffers -> {"new", "alive", "dead"}]
    BY <1>1
  <2>2. fbo \in [Framebuffers -> 0 .. fboNames]
    BY <1>1
  <2> QED BY <1>1, <1>2, <2>1, <2>2 DEF FTypes
<1>4. Distinct /\ Unborn /\ CreatedFirst /\ DeletedOnce
  BY <1>1, <1>2 DEF Distinct, Unborn, Pending, CreatedFirst, DeletedOnce
<1>5. Accounted
  BY <1>1, <1>2 DEF Accounted, Held, Doomed
<1> QED BY <1>3, <1>4, <1>5 DEF FInv

\* nothing of the framebuffers changes, whatever becomes of their textures
LEMMA KeepsFramebuffers ==
  ASSUME FInv, UNCHANGED <<life, fbo, requests, framebuffers, fboNames, crashed>>
  PROVE  FInv'
BY DEF FInv, FTypes, Distinct, Unborn, Pending, CreatedFirst, DeletedOnce, Deletes, Accounted,
       Held, Doomed

\* a request is appended
LEMMA PostFacts ==
  ASSUME FInv, NEW e \in Requests, requests' = Append(requests, e)
  PROVE  /\ requests' \in Seq(Requests)
         /\ \E n \in Nat : /\ DOMAIN requests = 1 .. n /\ DOMAIN requests' = 1 .. n + 1
                           /\ requests'[n + 1] = e
                           /\ \A i \in 1 .. n : requests'[i] = requests[i]
         /\ \A n : Doomed(n)' <=> Doomed(n) \/ (e.self = NoFramebuffer /\ e.fbo = n)
         /\ \A f : Pending(f)' <=> Pending(f) \/ e.self = f
<1> DEFINE n == Len(requests)
<1>1. requests \in Seq(Requests) /\ n \in Nat
  BY DEF FInv, FTypes
<1>2. /\ requests' \in Seq(Requests)
      /\ DOMAIN requests = 1 .. n /\ DOMAIN requests' = 1 .. n + 1
      /\ requests'[n + 1] = e
      /\ \A i \in 1 .. n : requests'[i] = requests[i]
  BY <1>1
<1> HIDE DEF n
<1>3. /\ n + 1 \in 1 .. n + 1
      /\ \A i \in 1 .. n + 1 : i = n + 1 \/ i \in 1 .. n
      /\ \A i \in 1 .. n : i \in 1 .. n + 1
  BY <1>1
<1>4. \A k : Doomed(k)' <=> Doomed(k) \/ (e.self = NoFramebuffer /\ e.fbo = k)
  BY <1>2, <1>3 DEF Doomed
<1>5. \A f : Pending(f)' <=> Pending(f) \/ e.self = f
  BY <1>2, <1>3 DEF Pending
<1> QED BY <1>1, <1>2, <1>4, <1>5

\* a request for a framebuffer that is there, or the first one
LEMMA AskFInv ==
  ASSUME FInv, ~ crashed, NEW f \in Framebuffers, NEW b \in {0, 1},
         life[f] # "dead", b = 0 => life[f] = "new",
         requests' = Append(requests, [self |-> f, fbo |-> b]),
         life' = [life EXCEPT ![f] = "alive"],
         UNCHANGED <<fbo, framebuffers, fboNames, crashed>>
  PROVE  FInv'
<1> DEFINE e == [self |-> f, fbo |-> b]
<1>1. e \in Requests /\ e.self = f /\ e.fbo = b /\ f # NoFramebuffer
  <2>1. NoFramebuffer \notin Framebuffers
    BY FramebufferAssumption DEF FramebufferAssumption
  <2>2. e.self = f /\ e.fbo = b /\ b \in Nat
    OBVIOUS
  <2>3. e \in Requests
    BY <2>2 DEF Requests
  <2> QED BY <2>1, <2>2, <2>3
<1>2. /\ FTypes /\ Distinct /\ Unborn /\ CreatedFirst /\ DeletedOnce /\ Accounted
  BY DEF FInv
<1> HIDE DEF e
<1>3. requests' = Append(requests, e)
  BY DEF e
<1>4. /\ requests' \in Seq(Requests)
      /\ \E n \in Nat : /\ DOMAIN requests = 1 .. n /\ DOMAIN requests' = 1 .. n + 1
                        /\ requests'[n + 1] = e
                        /\ \A i \in 1 .. n : requests'[i] = requests[i]
      /\ \A n : Doomed(n)' <=> Doomed(n) \/ (e.self = NoFramebuffer /\ e.fbo = n)
      /\ \A g : Pending(g)' <=> Pending(g) \/ e.self = g
  BY <1>1, <1>3, PostFacts
<1>5. PICK n \in Nat : /\ DOMAIN requests = 1 .. n /\ DOMAIN requests' = 1 .. n + 1
                       /\ requests'[n + 1] = e
                       /\ \A i \in 1 .. n : requests'[i] = requests[i]
  BY <1>4
<1>6. /\ life'[f] = "alive"
      /\ \A g \in Framebuffers : g # f => life'[g] = life[g]
      /\ life' \in [Framebuffers -> {"new", "alive", "dead"}]
  BY <1>2 DEF FTypes
<1>7. FTypes' /\ Distinct'
  BY <1>2, <1>4, <1>6 DEF FTypes, Distinct
<1>8. Unborn'
  BY <1>1, <1>2, <1>4, <1>6 DEF Unborn
<1>9. CreatedFirst'
  <2> SUFFICES ASSUME NEW i \in 1 .. n + 1, requests'[i].self \in Framebuffers,
                      requests'[i].fbo = 0
               PROVE  /\ fbo[requests'[i].self] = 0
                      /\ \A j \in 1 .. n + 1 : j < i => requests'[j].self # requests'[i].self
    BY <1>5 DEF CreatedFirst
  <2>1. CASE i = n + 1
    <3>1. requests'[i].self = f /\ life[f] = "new"
      BY <1>1, <1>5, <2>1
    <3>2. fbo[f] = 0 /\ ~ Pending(f)
      BY <1>2, <3>1 DEF Unborn
    <3>3. \A j \in 1 .. n + 1 : j < i => requests'[j] = requests[j] /\ j \in 1 .. n
      BY <1>5, <2>1
    <3> QED BY <1>5, <3>1, <3>2, <3>3 DEF Pending
  <2>2. CASE i # n + 1
    <3>1. i \in 1 .. n /\ \A j \in 1 .. n + 1 : j < i => j \in 1 .. n
      BY <2>2
    <3> QED BY <1>2, <1>5, <3>1 DEF CreatedFirst
  <2> QED BY <2>1, <2>2
<1>10. DeletedOnce'
  <2> SUFFICES ASSUME NEW i \in 1 .. n + 1, Deletes(i)'
               PROVE  /\ \E g \in Framebuffers : life'[g] = "dead" /\ fbo[g] = requests'[i].fbo
                      /\ \A j \in 1 .. n + 1 :
                           Deletes(j)' /\ requests'[j].fbo = requests'[i].fbo => i = j
    BY <1>5 DEF DeletedOnce
  <2>1. \A j \in 1 .. n + 1 : Deletes(j)' => j \in 1 .. n /\ Deletes(j)
    BY <1>1, <1>5 DEF Deletes
  <2>2. i \in 1 .. n /\ Deletes(i)
    BY <2>1
  <2>3. PICK g \in Framebuffers : life[g] = "dead" /\ fbo[g] = requests[i].fbo
    BY <1>2, <1>5, <2>2 DEF DeletedOnce
  <2>4. life'[g] = "dead"
    BY <1>6, <2>3
  <2> QED BY <1>2, <1>5, <2>1, <2>2, <2>3, <2>4 DEF DeletedOnce
<1>11. Accounted'
  <2>1. \A k : Doomed(k)' <=> Doomed(k)
    BY <1>1, <1>4
  <2>2. ASSUME NEW k, k # 0 PROVE Held(k)' <=> Held(k)
    <3>1. life[f] = "alive" \/ fbo[f] = 0
      BY <1>2 DEF FTypes, Unborn
    <3> QED BY <1>6, <2>2, <3>1 DEF Held
  <2> QED BY <1>2, <2>1, <2>2 DEF Accounted
<1> QED BY <1>7, <1>8, <1>9, <1>10, <1>11 DEF FInv

\* a destroyed framebuffer hands over what it holds
LEMMA DestroyFInv ==
  ASSUME FInv, NEW f \in Framebuffers, DestroyFramebuffer(f)
  PROVE  FInv'
<1> DEFINE e == [self |-> NoFramebuffer, fbo |-> fbo[f]]
<1>1. /\ ~ crashed /\ life[f] = "alive"
      /\ requests' = Append(requests, e)
      /\ life' = [life EXCEPT ![f] = "dead"]
      /\ UNCHANGED <<fbo, framebuffers, fboNames, crashed>>
  BY DEF DestroyFramebuffer, Post
<1>2. /\ FTypes /\ Distinct /\ Unborn /\ CreatedFirst /\ DeletedOnce /\ Accounted
  BY <1>1 DEF FInv
<1>3. e \in Requests /\ e.self = NoFramebuffer /\ e.fbo = fbo[f] /\ NoFramebuffer \notin Framebuffers
  <2>1. NoFramebuffer \notin Framebuffers
    BY FramebufferAssumption DEF FramebufferAssumption
  <2>2. fbo[f] \in Nat
    BY <1>2 DEF FTypes
  <2>3. e \in Requests
    BY <2>2 DEF Requests
  <2> QED BY <2>1, <2>3
<1> HIDE DEF e
<1>4. /\ requests' \in Seq(Requests)
      /\ \E n \in Nat : /\ DOMAIN requests = 1 .. n /\ DOMAIN requests' = 1 .. n + 1
                        /\ requests'[n + 1] = e
                        /\ \A i \in 1 .. n : requests'[i] = requests[i]
      /\ \A n : Doomed(n)' <=> Doomed(n) \/ (e.self = NoFramebuffer /\ e.fbo = n)
      /\ \A g : Pending(g)' <=> Pending(g) \/ e.self = g
  BY <1>1, <1>3, PostFacts
<1>5. PICK n \in Nat : /\ DOMAIN requests = 1 .. n /\ DOMAIN requests' = 1 .. n + 1
                       /\ requests'[n + 1] = e
                       /\ \A i \in 1 .. n : requests'[i] = requests[i]
  BY <1>4
<1>6. /\ life'[f] = "dead"
      /\ \A g \in Framebuffers : g # f => life'[g] = life[g]
      /\ life' \in [Framebuffers -> {"new", "alive", "dead"}]
  BY <1>1, <1>2 DEF FTypes
<1>7. FTypes' /\ Distinct'
  BY <1>1, <1>2, <1>4, <1>6 DEF FTypes, Distinct
<1>8. Unborn'
  BY <1>1, <1>2, <1>3, <1>4, <1>6 DEF Unborn
<1>9. CreatedFirst'
  <2> SUFFICES ASSUME NEW i \in 1 .. n + 1, requests'[i].self \in Framebuffers,
                      requests'[i].fbo = 0
               PROVE  /\ fbo'[requests'[i].self] = 0
                      /\ \A j \in 1 .. n + 1 : j < i => requests'[j].self # requests'[i].self
    BY <1>5 DEF CreatedFirst
  <2>1. i \in 1 .. n /\ \A j \in 1 .. n + 1 : j < i => j \in 1 .. n
    BY <1>3, <1>5
  <2> QED BY <1>1, <1>2, <1>5, <2>1 DEF CreatedFirst
<1>10. ASSUME NEW i \in 1 .. n, Deletes(i) PROVE requests[i].fbo # fbo[f]
  <2>1. PICK g \in Framebuffers : life[g] = "dead" /\ fbo[g] = requests[i].fbo
    BY <1>2, <1>5, <1>10 DEF DeletedOnce
  <2> QED BY <1>1, <1>2, <1>10, <2>1 DEF Distinct, Deletes
<1>11. DeletedOnce'
  <2> SUFFICES ASSUME NEW i \in 1 .. n + 1, Deletes(i)'
               PROVE  /\ \E g \in Framebuffers : life'[g] = "dead" /\ fbo'[g] = requests'[i].fbo
                      /\ \A j \in 1 .. n + 1 :
                           Deletes(j)' /\ requests'[j].fbo = requests'[i].fbo => i = j
    BY <1>5 DEF DeletedOnce
  <2>1. \A j \in 1 .. n : Deletes(j)' <=> Deletes(j)
    BY <1>5 DEF Deletes
  <2>2. \A j \in 1 .. n + 1 : j = n + 1 \/ j \in 1 .. n
    OBVIOUS
  <2>3. CASE i = n + 1
    <3>1. requests'[i].fbo = fbo[f]
      BY <1>3, <1>5, <2>3
    <3> QED BY <1>1, <1>5, <1>6, <1>10, <2>1, <2>2, <2>3, <3>1
  <2>4. CASE i # n + 1
    <3>1. i \in 1 .. n /\ Deletes(i) /\ requests'[i] = requests[i]
      BY <1>5, <2>1, <2>2, <2>4
    <3>2. PICK g \in Framebuffers : life[g] = "dead" /\ fbo[g] = requests[i].fbo
      BY <1>2, <1>5, <3>1 DEF DeletedOnce
    <3>3. life'[g] = "dead"
      BY <1>1, <1>6, <3>2
    <3>4. requests'[n + 1].fbo # requests'[i].fbo
      BY <1>3, <1>5, <1>10, <3>1
    <3> QED BY <1>1, <1>2, <1>5, <2>1, <2>2, <3>1, <3>2, <3>3, <3>4 DEF DeletedOnce
  <2> QED BY <2>3, <2>4
<1>12. Accounted'
  <2>1. \A k : Doomed(k)' <=> Doomed(k) \/ k = fbo[f]
    BY <1>3, <1>4
  <2>2. ASSUME NEW k, k # 0 PROVE Held(k)' \/ k = fbo[f] <=> Held(k) \/ k = fbo[f]
    BY <1>1, <1>6, <2>2 DEF Held
  <2>3. Held(fbo[f])
    BY <1>1 DEF Held
  <2> QED BY <1>1, <1>2, <2>1, <2>2, <2>3 DEF Accounted
<1> QED BY <1>7, <1>8, <1>9, <1>11, <1>12 DEF FInv

\* the first request is served
LEMMA TailFacts ==
  ASSUME FTypes, requests # <<>>, requests' = Tail(requests), NEW h, h = Head(requests)
  PROVE  /\ h \in Requests /\ requests' \in Seq(Requests)
         /\ \E n \in Nat : /\ DOMAIN requests = 1 .. n + 1 /\ DOMAIN requests' = 1 .. n
                           /\ requests[1] = h
                           /\ \A i \in 1 .. n : requests'[i] = requests[i + 1]
         /\ \A n : Doomed(n) <=> Doomed(n)' \/ (h.self = NoFramebuffer /\ h.fbo = n)
         /\ \A f : Pending(f) <=> Pending(f)' \/ h.self = f
<1> DEFINE n == Len(requests) - 1
<1>1. requests \in Seq(Requests) /\ n \in Nat /\ Len(requests) = n + 1
  BY DEF FTypes
<1>2. /\ h \in Requests /\ requests' \in Seq(Requests) /\ requests[1] = h
      /\ DOMAIN requests = 1 .. n + 1 /\ DOMAIN requests' = 1 .. n
      /\ \A i \in 1 .. n : requests'[i] = requests[i + 1]
  BY <1>1
<1> HIDE DEF n
<1>3. /\ 1 \in 1 .. n + 1
      /\ \A i \in 1 .. n + 1 : i = 1 \/ (i - 1 \in 1 .. n /\ i - 1 + 1 = i)
      /\ \A i \in 1 .. n : i + 1 \in 1 .. n + 1
  BY <1>1
<1>4. ASSUME NEW k
      PROVE  Doomed(k) <=> Doomed(k)' \/ (h.self = NoFramebuffer /\ h.fbo = k)
  <2>1. ASSUME NEW i \in 1 .. n + 1, requests[i].self = NoFramebuffer, requests[i].fbo = k
        PROVE  Doomed(k)' \/ (h.self = NoFramebuffer /\ h.fbo = k)
    <3>1. CASE i = 1
      BY <1>2, <2>1, <3>1
    <3>2. CASE i # 1
      <4>1. i - 1 \in 1 .. n /\ requests'[i - 1] = requests[i]
        BY <1>2, <1>3, <3>2
      <4> QED BY <1>2, <2>1, <4>1 DEF Doomed
    <3> QED BY <3>1, <3>2
  <2>2. ASSUME NEW i \in 1 .. n, requests'[i].self = NoFramebuffer, requests'[i].fbo = k
        PROVE  Doomed(k)
    <3>1. i + 1 \in 1 .. n + 1 /\ requests'[i] = requests[i + 1]
      BY <1>2, <1>3
    <3> QED BY <1>2, <2>2, <3>1 DEF Doomed
  <2>3. h.self = NoFramebuffer /\ h.fbo = k => Doomed(k)
    BY <1>2, <1>3 DEF Doomed
  <2> QED BY <1>2, <2>1, <2>2, <2>3 DEF Doomed
<1>5. ASSUME NEW f
      PROVE  Pending(f) <=> Pending(f)' \/ h.self = f
  <2>1. ASSUME NEW i \in 1 .. n + 1, requests[i].self = f
        PROVE  Pending(f)' \/ h.self = f
    <3>1. CASE i = 1
      BY <1>2, <2>1, <3>1
    <3>2. CASE i # 1
      <4>1. i - 1 \in 1 .. n /\ requests'[i - 1] = requests[i]
        BY <1>2, <1>3, <3>2
      <4> QED BY <1>2, <2>1, <4>1 DEF Pending
    <3> QED BY <3>1, <3>2
  <2>2. ASSUME NEW i \in 1 .. n, requests'[i].self = f
        PROVE  Pending(f)
    <3>1. i + 1 \in 1 .. n + 1 /\ requests'[i] = requests[i + 1]
      BY <1>2, <1>3
    <3> QED BY <1>2, <2>2, <3>1 DEF Pending
  <2>3. h.self = f => Pending(f)
    BY <1>2, <1>3 DEF Pending
  <2> QED BY <1>2, <2>1, <2>2, <2>3 DEF Pending
<1> QED BY <1>1, <1>2, <1>4, <1>5

\* the requests that are left are in order as before
LEMMA ServedOrder ==
  ASSUME FTypes, CreatedFirst, DeletedOnce,
         requests # <<>>, requests' = Tail(requests),
         \A f \in Framebuffers : life'[f] = life[f],
         \A f \in Framebuffers : fbo'[f] = fbo[f] \/ f = Head(requests).self,
         Head(requests).self \in Framebuffers => life[Head(requests).self] = "alive"
  PROVE  /\ CreatedFirst'
         /\ DeletedOnce'
         /\ ~ \E i \in DOMAIN requests' :
                Deletes(i)' /\ Deletes(1) /\ requests'[i].fbo = Head(requests).fbo
<1>1. PICK h : h = Head(requests)
  OBVIOUS
<1>2. /\ h \in Requests
      /\ \E n \in Nat : /\ DOMAIN requests = 1 .. n + 1 /\ DOMAIN requests' = 1 .. n
                        /\ requests[1] = h
                        /\ \A i \in 1 .. n : requests'[i] = requests[i + 1]
  BY <1>1, TailFacts
<1>3. PICK n \in Nat : /\ DOMAIN requests = 1 .. n + 1 /\ DOMAIN requests' = 1 .. n
                       /\ requests[1] = h
                       /\ \A i \in 1 .. n : requests'[i] = requests[i + 1]
  BY <1>2
<1>4. /\ 1 \in 1 .. n + 1
      /\ \A i \in 1 .. n : i + 1 \in 1 .. n + 1 /\ i + 1 # 1 /\ 1 < i + 1
      /\ \A i, j \in 1 .. n : (i + 1 = j + 1 => i = j) /\ (j < i => j + 1 < i + 1)
  OBVIOUS
<1>5. CreatedFirst'
  <2> SUFFICES ASSUME NEW i \in 1 .. n, requests'[i].self \in Framebuffers,
                      requests'[i].fbo = 0
               PROVE  /\ fbo'[requests'[i].self] = 0
                      /\ \A j \in 1 .. n : j < i => requests'[j].self # requests'[i].self
    BY <1>3 DEF CreatedFirst
  <2>1. /\ fbo[requests[i + 1].self] = 0
        /\ \A j \in 1 .. n + 1 : j < i + 1 => requests[j].self # requests[i + 1].self
    BY <1>3, <1>4 DEF CreatedFirst
  <2>2. h.self # requests'[i].self
    BY <1>3, <1>4, <2>1
  <2> QED BY <1>1, <1>3, <1>4, <2>1, <2>2
<1>6. ASSUME NEW i \in 1 .. n, Deletes(i)'
      PROVE  /\ \E f \in Framebuffers : life'[f] = "dead" /\ fbo'[f] = requests'[i].fbo
             /\ \A j \in 1 .. n : Deletes(j)' /\ requests'[j].fbo = requests'[i].fbo => i = j
             /\ ~ (Deletes(1) /\ requests'[i].fbo = h.fbo)
  <2>1. \A j \in 1 .. n : Deletes(j)' <=> Deletes(j + 1)
    BY <1>3 DEF Deletes
  <2>2. Deletes(i + 1) /\ i + 1 \in 1 .. n + 1
    BY <1>4, <1>6, <2>1
  <2>3. PICK f \in Framebuffers : life[f] = "dead" /\ fbo[f] = requests[i + 1].fbo
    BY <1>3, <2>2 DEF DeletedOnce
  <2>4. life'[f] = "dead" /\ fbo'[f] = requests'[i].fbo
    BY <1>3, <2>3
  <2>5. \A j \in 1 .. n + 1 : Deletes(j) /\ requests[j].fbo = requests[i + 1].fbo => i + 1 = j
    BY <1>3, <2>2 DEF DeletedOnce
  <2>6. \A j \in 1 .. n : Deletes(j)' /\ requests'[j].fbo = requests'[i].fbo => i = j
    BY <1>3, <1>4, <2>1, <2>5
  <2>7. ~ (Deletes(1) /\ requests'[i].fbo = h.fbo)
    BY <1>3, <1>4, <2>5
  <2> QED BY <2>4, <2>6, <2>7
<1>7. DeletedOnce'
  BY <1>3, <1>6 DEF DeletedOnce
<1> QED BY <1>1, <1>3, <1>5, <1>6, <1>7

\* a request is served
LEMMA ServeFInv ==
  ASSUME FInv, ServeRequest
  PROVE  FInv'
<1>1. PICK h : h = Head(requests)
  OBVIOUS
<1>2. /\ ~ crashed /\ requests # <<>> /\ requests' = Tail(requests) /\ life' = life
  BY DEF ServeRequest
<1>3. /\ FTypes /\ Distinct /\ Unborn /\ CreatedFirst /\ DeletedOnce /\ Accounted
  BY <1>2 DEF FInv
<1>4. /\ h \in Requests /\ requests' \in Seq(Requests)
      /\ \A n : Doomed(n) <=> Doomed(n)' \/ (h.self = NoFramebuffer /\ h.fbo = n)
      /\ \A f : Pending(f) <=> Pending(f)' \/ h.self = f
  BY <1>1, <1>2, <1>3, TailFacts
<1>5. /\ \E n \in Nat : DOMAIN requests = 1 .. n + 1 /\ requests[1] = h
      /\ \A i \in DOMAIN requests' : requests'[i] \in Requests
  <2>1. \E n \in Nat : DOMAIN requests = 1 .. n + 1 /\ requests[1] = h
    BY <1>1, <1>2, <1>3, TailFacts
  <2> QED BY <1>4, <2>1
<1>6. NoFramebuffer \notin Framebuffers
  BY FramebufferAssumption DEF FramebufferAssumption
<1>7. CASE h.self = NoFramebuffer
  <2>1. framebuffers' = framebuffers \ {h.fbo} /\ UNCHANGED <<fbo, fboNames, crashed>>
    BY <1>1, <1>7 DEF ServeRequest
  <2>2. FTypes' /\ Distinct' /\ Unborn'
    BY <1>2, <1>3, <1>4, <2>1 DEF FTypes, Distinct, Unborn
  <2>3. /\ CreatedFirst' /\ DeletedOnce'
        /\ ~ \E i \in DOMAIN requests' :
               Deletes(i)' /\ Deletes(1) /\ requests'[i].fbo = h.fbo
    BY <1>1, <1>2, <1>3, <1>6, <1>7, <2>1, ServedOrder
  <2>4. Accounted'
    <3>1. h.fbo # 0 => ~ Held(h.fbo) /\ ~ Doomed(h.fbo)'
      <4> SUFFICES ASSUME h.fbo # 0 PROVE ~ Held(h.fbo) /\ ~ Doomed(h.fbo)'
        OBVIOUS
      <4>1. Deletes(1) /\ 1 \in DOMAIN requests
        BY <1>5, <1>7 DEF Deletes
      <4>2. PICK f \in Framebuffers : life[f] = "dead" /\ fbo[f] = h.fbo
        BY <1>3, <1>5, <4>1 DEF DeletedOnce
      <4>3. ~ Held(h.fbo)
        BY <1>3, <4>2 DEF Distinct, Held
      <4>4. ~ Doomed(h.fbo)'
        BY <2>3, <4>1 DEF Doomed, Deletes
      <4> QED BY <4>3, <4>4
    <3>2. \A k : Held(k)' <=> Held(k)
      BY <1>2, <2>1 DEF Held
    <3>3. \A k : Doomed(k) <=> Doomed(k)' \/ h.fbo = k
      BY <1>4, <1>7
    <3> QED BY <1>3, <2>1, <3>1, <3>2, <3>3 DEF Accounted
  <2> QED BY <2>2, <2>3, <2>4 DEF FInv
<1>8. CASE h.self # NoFramebuffer /\ life[h.self] = "dead"
  <2>1. crashed' = TRUE /\ UNCHANGED <<fbo, fboNames>>
    BY <1>1, <1>8 DEF ServeRequest
  <2>2. FTypes'
    BY <1>2, <1>3, <1>4, <2>1 DEF FTypes
  <2> QED BY <2>1, <2>2 DEF FInv
<1>9. CASE h.self # NoFramebuffer /\ life[h.self] # "dead"
  <2>1. PICK f : f = h.self
    OBVIOUS
  <2>2. f \in Framebuffers /\ f # NoFramebuffer
    BY <1>4, <1>9, <2>1 DEF Requests
  <2>3. Pending(f)
    BY <1>4, <2>1
  <2>4. life[f] = "alive"
    BY <1>3, <1>9, <2>1, <2>2, <2>3 DEF FTypes, Unborn
  <2>5. \/ h.fbo = 0 /\ Create(f, {})
        \/ h.fbo # 0 /\ Create(f, {fbo[f]})
    BY <1>1, <1>9, <2>1 DEF ServeRequest, RecreateBackend
  <2>6. /\ fbo' = [fbo EXCEPT ![f] = fboNames + 1]
        /\ fboNames' = fboNames + 1
        /\ UNCHANGED crashed
        /\ \/ h.fbo = 0 /\ framebuffers' = framebuffers \cup {fboNames + 1}
           \/ framebuffers' = (framebuffers \ {fbo[f]}) \cup {fboNames + 1}
    BY <2>5 DEF Create
  <2>7. /\ fboNames \in Nat /\ fbo'[f] = fboNames + 1
        /\ \A g \in Framebuffers : fbo[g] \in 0 .. fboNames
        /\ \A g \in Framebuffers : g # f => fbo'[g] = fbo[g]
    BY <1>3, <2>2, <2>6 DEF FTypes
  <2>8. FTypes'
    <3>1. fbo' \in [Framebuffers -> 0 .. fboNames + 1]
      <4>1. \A k \in 0 .. fboNames : k \in 0 .. fboNames + 1
        BY <2>7
      <4>2. fboNames + 1 \in 0 .. fboNames + 1
        BY <2>7
      <4>3. \A g \in Framebuffers : fbo'[g] \in 0 .. fboNames + 1
        BY <2>7, <4>1, <4>2
      <4>4. fbo' = [g \in Framebuffers |-> fbo'[g]]
        BY <1>3, <2>6 DEF FTypes
      <4> QED BY <4>3, <4>4
    <3> QED BY <1>2, <1>3, <1>4, <2>6, <2>7, <3>1 DEF FTypes
  <2>9. Distinct'
    BY <1>3, <2>7 DEF Distinct
  <2>10. Unborn'
    BY <1>2, <1>3, <1>4, <2>4, <2>7 DEF Unborn
  <2>11. CreatedFirst' /\ DeletedOnce'
    BY <1>1, <1>2, <1>3, <2>1, <2>4, <2>7, ServedOrder
  <2>12. h.fbo = 0 => fbo[f] = 0
    <3>1. 1 \in DOMAIN requests /\ requests[1] = h
      BY <1>5
    <3> QED BY <1>3, <2>1, <2>2, <3>1 DEF CreatedFirst
  <2>13. \A k : k \in framebuffers' <=> (k \in framebuffers /\ k # fbo[f]) \/ k = fboNames + 1
    <3>1. 0 \notin framebuffers
      BY <1>3 DEF Accounted
    <3> QED BY <2>6, <2>12, <3>1
  <2>14. Accounted'
    <3>1. \A k : Doomed(k)' <=> Doomed(k)
      BY <1>4, <1>9
    <3>2. \A k : Held(k)' <=> k = fboNames + 1
                              \/ \E g \in Framebuffers : g # f /\ life[g] = "alive" /\ fbo[g] = k
      BY <1>2, <2>2, <2>4, <2>7 DEF Held
    <3>3. \A k : k # 0 => (Held(k) /\ k # fbo[f] <=>
                             \E g \in Framebuffers : g # f /\ life[g] = "alive" /\ fbo[g] = k)
      BY <1>3, <2>2 DEF Held, Distinct
    <3>4. ASSUME NEW k, k # 0, Doomed(k) PROVE k # fbo[f]
      <4>1. PICK i \in DOMAIN requests : Deletes(i) /\ requests[i].fbo = k
        BY <3>4 DEF Doomed, Deletes
      <4>2. PICK g \in Framebuffers : life[g] = "dead" /\ fbo[g] = k
        BY <1>3, <4>1 DEF DeletedOnce
      <4> QED BY <1>3, <2>2, <2>4, <3>4, <4>2 DEF Distinct
    <3>5. fboNames + 1 # 0
      BY <2>7
    <3> QED BY <1>3, <2>13, <3>1, <3>2, <3>3, <3>4, <3>5 DEF Accounted
  <2> QED BY <1>2, <2>6, <2>8, <2>9, <2>10, <2>11, <2>14 DEF FInv
<1> QED BY <1>7, <1>8, <1>9

\* every step keeps the invariant
LEMMA NextFInv == FInv /\ [Next]_vars => FInv'
<1> SUFFICES ASSUME FInv, [Next]_vars
             PROVE  FInv'
  OBVIOUS
<1>1. CASE Graphics
  <2>1. ASSUME NEW t \in Textures, TextureCall(t)
        PROVE  FInv'
    BY <2>1, KeepsFramebuffers DEF TextureCall
  <2>2. ASSUME NEW f \in Framebuffers, NewFramebuffer(f)
        PROVE  FInv'
    <3>1. /\ ~ crashed /\ life[f] = "new"
          /\ requests' = Append(requests, [self |-> f, fbo |-> 0])
          /\ life' = [life EXCEPT ![f] = "alive"]
          /\ UNCHANGED <<fbo, framebuffers, fboNames, crashed>>
      BY <2>2 DEF NewFramebuffer, Post
    <3> QED BY <3>1, AskFInv
  <2>3. ASSUME NEW f \in Framebuffers, RecreateFramebuffer(f)
        PROVE  FInv'
    <3>1. /\ ~ crashed /\ life[f] = "alive" /\ life' = life
          /\ requests' = Append(requests, [self |-> f, fbo |-> 1])
          /\ UNCHANGED <<fbo, framebuffers, fboNames, crashed>>
      BY <2>3 DEF RecreateFramebuffer, Post
    <3>2. life' = [life EXCEPT ![f] = "alive"]
      BY <3>1 DEF FInv, FTypes
    <3>3. 1 \in {0, 1} /\ (1 = 0 => life[f] = "new") /\ life[f] # "dead"
      BY <3>1
    <3> QED BY <3>1, <3>2, <3>3, AskFInv
  <2>4. CASE TextureStep \/ EndUpdate
    BY <2>4, KeepsFramebuffers DEF TextureStep, EndUpdate, fbVars
  <2> QED BY <1>1, <2>1, <2>2, <2>3, <2>4, DestroyFInv, ServeFInv
          DEF Graphics, FramebufferNext, FramebufferCall, FramebufferStep
<1>2. CASE Shading \/ Finished \/ UNCHANGED vars
  BY <1>2, KeepsFramebuffers DEF Shading, Finished, vars, fbAll, fbVars
<1> QED BY <1>1, <1>2 DEF Next

\* every GL framebuffer has an owner, or a request that deletes it
LEMMA AccountsFor == FInv => FramebuffersAccounted
<1> SUFFICES ASSUME FInv, ~ crashed
             PROVE  FramebuffersAccounted
  BY DEF FramebuffersAccounted
<1> QED BY DEF FInv, Accounted, Held, Doomed, FramebuffersAccounted

-----------------------------------------------------------------------------
(* What the framebuffers draw into *)

\* a numbered attachment point has a last texture, which is one of f's
LEMMA AtIsOwn ==
  ASSUME NEW f \in Framebuffers, NEW p \in Points(f)
  PROVE  At(f, p) \in TexturesOf(f)
<1> DEFINE D == DOMAIN Attached[f]
           n == Len(Attached[f])
           T == {k \in Nat : k <= n /\ Point(f, n - k) = p /\ n - k \in D}
           Less == {q \in Nat \X Nat : q[1] < q[2]}
<1>1. Attached[f] \in Seq(Textures) /\ n \in Nat /\ D = 1 .. n
  <2>1. Attached[f] \in Seq(Textures)
    BY FramebufferAssumption DEF FramebufferAssumption
  <2> HIDE DEF T, Less
  <2> QED BY <2>1
<1>2. PICK i \in D : Point(f, i) = p
  BY DEF Points
<1>3. n - i \in T
  <2>1. n - i \in Nat /\ n - i <= n /\ n - (n - i) = i
    BY <1>1, <1>2
  <2> QED BY <1>2, <2>1
<1>4. IsWellFoundedOn(Less, Nat)
  BY NatLessThanWellFounded, Zenon DEF OpToRel
<1> HIDE DEF n, D
<1>5. PICK k \in T : \A l \in T : ~ (<<l, k>> \in Less)
  <2>1. T \subseteq Nat /\ T # {}
    BY <1>3
  <2> HIDE DEF Less, T
  <2> QED BY <1>4, <2>1, WFMin, Zenon
<1>6. k \in Nat /\ k <= n /\ n - k \in D /\ Point(f, n - k) = p
  BY <1>5
<1>7. ASSUME NEW j \in D, Point(f, j) = p PROVE j <= n - k
  <2>1. n - j \in Nat /\ n - j <= n /\ n - (n - j) = j
    BY <1>1, <1>7
  <2>2. n - j \in T
    BY <1>7, <2>1
  <2>3. ~ (n - j < k)
    BY <1>5, <1>6, <2>1, <2>2
  <2> QED BY <1>1, <1>6, <1>7, <2>1, <2>3
<1>8. \E m \in D : Point(f, m) = p /\ \A j \in D : Point(f, j) = p => j <= m
  BY <1>6, <1>7
<1>9. (CHOOSE m \in D : Point(f, m) = p /\ \A j \in D : Point(f, j) = p => j <= m) \in D
  BY <1>8
<1> QED BY <1>9 DEF At, TexturesOf, D

\* GL textures are numbered, and each belongs to one texture
NInv ==
  /\ names \in Nat
  /\ textures \subseteq 1 .. names
  /\ \A t \in Textures : gpu[t].tex \in 0 .. names
  /\ \A t, u \in Textures : gpu[t].tex = gpu[u].tex /\ gpu[t].tex # 0 => t = u
  /\ serial => \A t \in made : gpu[t].tex \in textures \/ Owes(t, 1)

\* f draws into GL textures that exist, and none of them is about to be replaced
Steady(f) ==
  /\ \A p \in Points(f) : /\ attachment[f][p] = gpu[At(f, p)].tex
                          /\ attachment[f][p] \in textures
  /\ \A t \in TexturesOf(f) : \A n \in 1 .. 3 : ~ Has(t, Parts[n])

Due(f) == life[f] = "alive" /\ ~ Pending(f) /\ f \notin changed

AInv ==
  /\ attachment = [f \in Framebuffers |-> attachment[f]]
  /\ \A f \in Framebuffers : life[f] # "new" => TexturesOf(f) \subseteq made
  /\ serial /\ ~ crashed => \A f \in Framebuffers : Due(f) => Steady(f)

\* nothing is there
LEMMA InitAInv == Init => NInv /\ AInv
<1> SUFFICES ASSUME Init
             PROVE  NInv /\ AInv
  OBVIOUS
<1>1. TexInit /\ life = [f \in Framebuffers |-> "new"]
      /\ attachment = [f \in Framebuffers |-> <<>>]
  BY DEF Init, FramebufferInit
<1>2. NInv
  BY <1>1 DEF TexInit, NInv, Unset
<1>3. AInv
  <2>1. attachment = [f \in Framebuffers |-> attachment[f]]
    BY <1>1
  <2> QED BY <1>1, <2>1 DEF AInv, Due
<1> QED BY <1>2, <1>3

\* f keeps what it draws into
LEMMA KeepsSteady ==
  ASSUME NEW f \in Framebuffers, Steady(f), attachment'[f] = attachment[f],
         \A t \in TexturesOf(f) :
           /\ gpu'[t].tex = gpu[t].tex
           /\ gpu[t].tex \in textures => gpu[t].tex \in textures'
           /\ \A n \in 1 .. 3 : Has(t, Parts[n])' => Has(t, Parts[n])
  PROVE  Steady(f)'
<1>1. \A p \in Points(f) : At(f, p) \in TexturesOf(f)
  BY AtIsOwn
<1> QED BY <1>1 DEF Steady

\* GL keeps its textures, and what is owed stays owed
LEMMA KeepsNames ==
  ASSUME NInv, UNCHANGED <<serial, names, textures, gpu>>,
         serial => \A t \in made' : \/ t \in made /\ (Owes(t, 1) => Owes(t, 1)')
                                    \/ Owes(t, 1)'
  PROVE  NInv'
BY DEF NInv

\* nothing of the textures changes
LEMMA KeepsBoth == ASSUME NInv, AInv, UNCHANGED fbAll PROVE NInv' /\ AInv'
<1>1. UNCHANGED <<serial, made, names, textures, gpu, flags, cpc, call, phase, at, part, toUpdate,
                  life, attachment, requests, changed, crashed>>
  BY DEF fbAll, texVars, fbVars, front, back, client, tick
<1>2. \A t, n : (Owes(t, n)' <=> Owes(t, n)) /\ (Has(t, Parts[n])' <=> Has(t, Parts[n]))
  BY <1>1 DEF Owes, Has, Ticked
<1>3. NInv'
  BY <1>1, <1>2, KeepsNames
<1>4. ASSUME NEW f \in Framebuffers, Due(f)', serial, ~ crashed PROVE Steady(f)'
  <2>1. Due(f)
    BY <1>1, <1>4 DEF Due, Pending
  <2> QED BY <1>1, <1>2, <1>4, <2>1, KeepsSteady DEF AInv
<1> QED BY <1>1, <1>3, <1>4 DEF AInv

\* a texture that is to be replaced has its framebuffers changed at once
LEMMA CallBoth ==
  ASSUME GInv, NInv, AInv, NEW t \in Textures, TextureCall(t)
  PROVE  NInv' /\ AInv'
<1>1. PICK b : /\ cpc = "idle" /\ cpc' = "flag" /\ call' = [tex |-> t, flag |-> b]
               /\ serial => phase = "idle"
               /\ UNCHANGED <<serial, gpu, textures, names, flags, phase>>
               /\ made' = made \/ (b = "recreate" /\ made' = made \cup {t})
  <2>1. ASSUME NEW b, Begin(t, b)
        PROVE  /\ cpc = "idle" /\ cpc' = "flag" /\ call' = [tex |-> t, flag |-> b]
               /\ serial => phase = "idle"
               /\ UNCHANGED <<serial, gpu, textures, names, flags, phase>>
    BY <2>1 DEF Begin, tick
  <2>2. Call(t)
    BY DEF TextureCall
  <2>3. \E b : /\ Begin(t, b)
               /\ made' = made \/ (b = "recreate" /\ made' = made \cup {t})
    BY <2>2 DEF Call, ResizeAndClear, Construct, SetFilterMode, SetTilingMode, SetAnisotropy,
       SetMultiSample, Request
  <2> QED BY <2>1, <2>3
<1>2. /\ UNCHANGED <<life, attachment, requests, crashed>>
      /\ changed' = IF b \in Replacing
                    THEN changed \cup {f \in Framebuffers : t \in TexturesOf(f)} ELSE changed
  BY <1>1 DEF TextureCall
<1>3. \A u, n : Has(u, Parts[n])' <=> Has(u, Parts[n]) \/ (u = t /\ b = Parts[n])
  BY <1>1 DEF Has
<1>4. NInv'
  <2>1. serial => \A u, n : Owes(u, n)' <=> Has(u, Parts[n])'
    BY <1>1 DEF Owes, Ticked
  <2>2. \A u, n : Owes(u, n) => Has(u, Parts[n])
    BY DEF Owes
  <2> QED BY <1>1, <1>3, <2>1, <2>2, PartsAre, KeepsNames
<1>5. ASSUME NEW f \in Framebuffers, Due(f)', serial, ~ crashed PROVE Steady(f)'
  <2>1. Due(f) /\ f \notin changed'
    BY <1>2, <1>5 DEF Due, Pending
  <2>2. Steady(f)
    BY <1>5, <2>1 DEF AInv
  <2>3. ASSUME NEW u \in TexturesOf(f), NEW n \in 1 .. 3, Has(u, Parts[n])'
        PROVE  Has(u, Parts[n])
    <3>1. Parts[n] \in Replacing
      BY PartsAre DEF Replacing, Flags, FLAG_UPDATE_ANISOTROPY, FLAG_UPDATE_SAMPLING
    <3>2. ~ (u = t /\ b = Parts[n])
      BY <1>2, <2>1, <3>1
    <3> QED BY <1>3, <2>3, <3>2
  <2> QED BY <1>1, <1>2, <2>2, <2>3, KeepsSteady
<1>6. AInv'
  BY <1>1, <1>2, <1>5 DEF AInv
<1> QED BY <1>4, <1>6

\* the steps that leave GL alone
LEMMA QuietBoth ==
  ASSUME QInv, GInv, NInv, AInv,
         \/ (ClientStep \/ BeginUpdate \/ ClearFlags \/ Unmark \/ EndTextures) /\ UNCHANGED fbVars
         \/ EndUpdate
  PROVE  NInv' /\ AInv'
<1>1. /\ UNCHANGED <<serial, made, names, textures, gpu, life, attachment, requests, changed,
                     crashed>>
  BY DEF ClientStep, SetFlag, TestQueued, Push, BeginUpdate, ClearFlags, Unmark, EndTextures,
     EndUpdate, front, back, fbVars
<1>2. GTypes /\ QTypes
  BY DEF GInv, QInv
<1>3. /\ cpc # "idle" => call.tex \in Textures
      /\ at <= Len(toUpdate) => toUpdate[at] \in Textures
  BY <1>2 DEF QTypes
<1>4. \A t \in made : t \in Textures
  BY <1>2 DEF GTypes
<1>5. ASSUME NEW t \in Textures, NEW b, Has(t, b)' PROVE Has(t, b)
  <2>1. CASE SetFlag
    BY <1>2, <1>3, <1>5, <2>1 DEF SetFlag, Has, GTypes
  <2>2. CASE TestQueued \/ Push
    BY <1>5, <2>2 DEF TestQueued, Push, Has
  <2>3. CASE ClearFlags
    BY <1>2, <1>3, <1>5, <2>3 DEF ClearFlags, Has, GTypes, client
  <2>4. CASE BeginUpdate \/ Unmark \/ EndTextures \/ EndUpdate
    BY <1>5, <2>4 DEF BeginUpdate, Unmark, EndTextures, EndUpdate, Has, client
  <2> QED BY <2>1, <2>2, <2>3, <2>4 DEF ClientStep
<1>6. ASSUME serial, NEW t \in made, Owes(t, 1) PROVE Owes(t, 1)'
  <2>1. GPhase /\ t \in Textures /\ Has(t, Parts[1])
    BY <1>4, <1>6 DEF GInv, Owes
  <2>2. CASE ClientStep
    <3>1. cpc # "idle" /\ UNCHANGED phase
      BY <2>2 DEF ClientStep, SetFlag, TestQueued, Push, tick
    <3>2. ~ Ticked(t)'
      BY <2>1, <3>1 DEF GPhase, Ticked
    <3>3. Has(t, Parts[1])'
      <4>1. CASE SetFlag
        BY <1>2, <1>3, <2>1, <4>1 DEF SetFlag, Has, GTypes
      <4>2. CASE TestQueued \/ Push
        BY <2>1, <4>2 DEF TestQueued, Push, Has
      <4> QED BY <2>2, <4>1, <4>2 DEF ClientStep
    <3> QED BY <3>2, <3>3 DEF Owes
  <2>3. CASE ClearFlags
    <3>1. /\ phase = "textures" /\ at <= Len(toUpdate) /\ part = 7
          /\ flags' = [flags EXCEPT ![toUpdate[at]] = {}]
          /\ UNCHANGED <<cpc, call, phase, at, toUpdate>>
      BY <2>3, PartsAre DEF ClearFlags, client
    <3>2. toUpdate[at] # t
      BY <1>6, <3>1 DEF Owes, Ticked
    <3>3. flags'[t] = flags[t]
      BY <1>2, <1>3, <2>1, <3>1, <3>2 DEF GTypes
    <3> QED BY <2>1, <3>1, <3>2, <3>3 DEF Owes, Has, Ticked
  <2>4. CASE Unmark
    <3>1. part' = 1 /\ UNCHANGED <<flags, cpc, call>>
      BY <2>4 DEF Unmark, client
    <3> QED BY <2>1, <3>1 DEF Owes, Has
  <2>5. CASE BeginUpdate \/ EndTextures \/ EndUpdate
    <3>1. UNCHANGED <<flags, cpc, call, part>>
      BY <2>5 DEF BeginUpdate, EndTextures, EndUpdate, client
    <3>2. part = 1
      <4>1. CASE BeginUpdate
        BY <2>1, <4>1 DEF BeginUpdate, GPhase
      <4>2. CASE EndTextures
        BY <1>2, <2>1, <4>2 DEF EndTextures, GPhase, QTypes
      <4>3. CASE EndUpdate
        BY <2>1, <4>3 DEF EndUpdate, GPhase
      <4> QED BY <2>5, <4>1, <4>2, <4>3
    <3> QED BY <2>1, <3>1, <3>2 DEF Owes, Has
  <2> QED BY <2>2, <2>3, <2>4, <2>5
<1>7. NInv'
  BY <1>1, <1>6, KeepsNames
<1>8. ASSUME NEW f \in Framebuffers, Due(f)', serial, ~ crashed PROVE Steady(f)'
  <2>1. Due(f) /\ TexturesOf(f) \subseteq made
    BY <1>1, <1>8 DEF Due, Pending, AInv
  <2>2. \A t \in TexturesOf(f) : \A n \in 1 .. 3 : Has(t, Parts[n])' => Has(t, Parts[n])
    BY <1>4, <1>5, <2>1
  <2> QED BY <1>1, <1>8, <2>1, <2>2, KeepsSteady DEF AInv
<1>9. AInv'
  BY <1>1, <1>8 DEF AInv
<1> QED BY <1>7, <1>9

\* an if of tickGPU() replaces the GL texture, or leaves it
LEMMA ReplaceFacts ==
  ASSUME GTypes, NEW t \in made, NEW n \in 1 .. 6, Apply(t, n)
  PROVE  /\ \A u \in Textures : u # t => gpu'[u] = gpu[u]
         /\ \/ /\ n \in {1, 2, 3} /\ gpu'[t].tex = names + 1 /\ names' = names + 1
               /\ \/ textures' = textures \cup {names + 1}
                  \/ textures' = (textures \ {gpu[t].tex}) \cup {names + 1}
            \/ n \in {4, 5, 6} /\ gpu'[t].tex = gpu[t].tex /\ UNCHANGED <<names, textures>>
<1>1. t \in Textures /\ gpu = [u \in Textures |-> gpu[u]]
  BY DEF GTypes
<1>2. Whole(gpu[t])
  BY <1>1 DEF GTypes, Whole
<1>3. ASSUME NEW c, n \in {1, 2, 3}, Recreate(t, c)
      PROVE  /\ gpu' = [gpu EXCEPT ![t] = Created(t, c)]
             /\ names' = names + 1
             /\ \/ textures' = textures \cup {names + 1}
                \/ textures' = (textures \ {gpu[t].tex}) \cup {names + 1}
  <2>1. textures' = {names + 1} \cup
          (IF gpu[t].size # size[t] THEN textures \ {gpu[t].tex} ELSE textures)
    BY <1>3 DEF Recreate
  <2> QED BY <1>3, <2>1 DEF Recreate
<1>4. CASE n \in {1, 2, 3}
  <2>1. PICK c : Recreate(t, c)
    <3>1. CASE n = 1
      BY <3>1 DEF Apply
    <3>2. CASE n = 2
      BY <3>2 DEF Apply
    <3>3. CASE n = 3
      BY <3>3 DEF Apply
    <3> QED BY <1>4, <3>1, <3>2, <3>3
  <2>2. Created(t, c).tex = names + 1
    BY CreatedShows
  <2>3. gpu'[t] = Created(t, c) /\ \A u \in Textures : u # t => gpu'[u] = gpu[u]
    BY <1>1, <1>3, <1>4, <2>1
  <2> QED BY <1>3, <1>4, <2>1, <2>2, <2>3
<1>5. ASSUME NEW c, NEW p, SetParameter(t, c, p), p.tex = gpu[t].tex
      PROVE  /\ gpu'[t].tex = gpu[t].tex /\ UNCHANGED <<names, textures>>
             /\ \A u \in Textures : u # t => gpu'[u] = gpu[u]
  BY <1>1, <1>5 DEF SetParameter
<1>6. CASE n = 4
  <2> DEFINE p == [gpu[t] EXCEPT !.filter = requested[t].filter]
  <2>1. SetParameter(t, [current[t] EXCEPT !.filter = requested[t].filter], p)
    BY <1>6 DEF Apply
  <2>2. p.tex = gpu[t].tex
    BY <1>2 DEF Whole
  <2> HIDE DEF p
  <2> QED BY <1>5, <1>6, <2>1, <2>2
<1>7. CASE n = 5
  <2> DEFINE p == [gpu[t] EXCEPT !.anisotropy =
                     IF requested[t].anisotropy = 0 THEN @ ELSE requested[t].anisotropy]
  <2>1. SetParameter(t, [current[t] EXCEPT !.anisotropy = requested[t].anisotropy], p)
    BY <1>7 DEF Apply
  <2>2. p.tex = gpu[t].tex
    BY <1>2 DEF Whole
  <2> HIDE DEF p
  <2> QED BY <1>5, <1>7, <2>1, <2>2
<1>8. CASE n = 6
  <2> DEFINE p == [gpu[t] EXCEPT !.tiling = requested[t].tiling]
  <2>1. SetParameter(t, [current[t] EXCEPT !.tiling = requested[t].tiling], p)
    BY <1>8 DEF Apply
  <2>2. p.tex = gpu[t].tex
    BY <1>2 DEF Whole
  <2> HIDE DEF p
  <2> QED BY <1>5, <1>8, <2>1, <2>2
<1> QED BY <1>4, <1>6, <1>7, <1>8

\* tickGPU() replaces no GL texture that a steady framebuffer draws into
LEMMA PartBoth ==
  ASSUME QInv, GInv, NInv, AInv, TickPart, UNCHANGED fbVars
  PROVE  NInv' /\ AInv'
<1>0. PICK t : t = toUpdate[at]
  OBVIOUS
<1>1. /\ phase = "textures" /\ at <= Len(toUpdate) /\ part' = part + 1
      /\ UNCHANGED <<serial, made, flags, toUpdate, cpc, call, phase, at>>
      /\ UNCHANGED <<life, attachment, requests, changed, crashed>>
  BY DEF TickPart, front, client, fbVars
<1>2. GTypes
  BY DEF GInv
<1>3. part \in 1 .. 6 /\ t \in Textures
  BY <1>0, <1>2, PartsAre DEF TickPart, GTypes, QInv, QTypes
<1>4. \/ Parts[part] \in flags[t] /\ Apply(t, part)
      \/ Parts[part] \notin flags[t] /\ UNCHANGED <<gpu, textures, names>>
  BY <1>0 DEF TickPart, back
<1>5. \A u \in made : u \in Textures
  BY <1>2 DEF GTypes
<1>6. \A u, n : Has(u, Parts[n])' <=> Has(u, Parts[n])
  BY <1>1 DEF Has
<1>7. \A u : (Ticked(u) <=> u = t) /\ (Ticked(u)' <=> u = t)
  BY <1>0, <1>1 DEF Ticked
<1>8. \A u : u # t => (Owes(u, 1)' <=> Owes(u, 1))
  BY <1>6, <1>7 DEF Owes
<1>9. \A f \in Framebuffers : (Due(f)' <=> Due(f)) /\ (life[f] = "alive" => TexturesOf(f) \subseteq made)
  BY <1>1 DEF Due, Pending, AInv
<1>10. CASE Parts[part] \notin flags[t] /\ UNCHANGED <<gpu, textures, names>>
  <2>1. serial => (Owes(t, 1) => Owes(t, 1)')
    <3> SUFFICES ASSUME serial, Owes(t, 1) PROVE FALSE
      OBVIOUS
    <3>1. cpc = "idle"
      BY <1>1 DEF GInv, GPhase
    <3>2. part = 1
      BY <1>3, <1>7 DEF Owes
    <3> QED BY <1>10, <3>1, <3>2 DEF Owes, Has
  <2>2. NInv'
    BY <1>1, <1>8, <1>10, <2>1, KeepsNames
  <2>3. ASSUME NEW f \in Framebuffers, Due(f)', serial, ~ crashed PROVE Steady(f)'
    BY <1>1, <1>6, <1>9, <1>10, <2>3, KeepsSteady DEF AInv
  <2>4. AInv'
    BY <1>1, <2>3 DEF AInv
  <2> QED BY <2>2, <2>4
<1>11. CASE Parts[part] \in flags[t] /\ Apply(t, part)
  <2>1. t \in made
    BY <1>2, <1>3, <1>11 DEF GTypes
  <2>2. /\ \A u \in Textures : u # t => gpu'[u] = gpu[u]
        /\ \/ /\ part \in {1, 2, 3} /\ gpu'[t].tex = names + 1 /\ names' = names + 1
              /\ \/ textures' = textures \cup {names + 1}
                 \/ textures' = (textures \ {gpu[t].tex}) \cup {names + 1}
           \/ part \in {4, 5, 6} /\ gpu'[t].tex = gpu[t].tex /\ UNCHANGED <<names, textures>>
    BY <1>2, <1>3, <1>11, <2>1, ReplaceFacts
  <2>3. \A u \in Textures : u # t /\ gpu[u].tex \in textures => gpu[u].tex \in textures'
    <3> SUFFICES ASSUME NEW u \in Textures, u # t, gpu[u].tex \in textures
                 PROVE  gpu[u].tex \in textures'
      OBVIOUS
    <3>1. gpu[u].tex # gpu[t].tex
      BY <1>3 DEF NInv
    <3> QED BY <2>2, <3>1
  <2>4. NInv'
    <3>1. CASE part \in {1, 2, 3} /\ gpu'[t].tex = names + 1 /\ names' = names + 1
               /\ \/ textures' = textures \cup {names + 1}
                  \/ textures' = (textures \ {gpu[t].tex}) \cup {names + 1}
      <4>1. /\ names \in Nat /\ textures \subseteq 1 .. names
            /\ \A u \in Textures : gpu[u].tex \in 0 .. names
        BY DEF NInv
      <4>2. names' \in Nat /\ textures' \subseteq 1 .. names'
        <5>1. \A k \in 1 .. names : k \in 1 .. names + 1
          BY <4>1
        <5>2. names + 1 \in Nat /\ names + 1 \in 1 .. names + 1
          BY <4>1
        <5>3. textures' \subseteq textures \cup {names + 1}
          BY <3>1
        <5> QED BY <3>1, <4>1, <5>1, <5>2, <5>3
      <4>3. \A u \in Textures : gpu'[u].tex \in 0 .. names'
        BY <2>2, <3>1, <4>1
      <4>4. \A u \in Textures : u # t => gpu'[u].tex # gpu'[t].tex
        BY <2>2, <3>1, <4>1
      <4>5. \A u, v \in Textures : gpu'[u].tex = gpu'[v].tex /\ gpu'[u].tex # 0 => u = v
        <5> SUFFICES ASSUME NEW u \in Textures, NEW v \in Textures,
                            gpu'[u].tex = gpu'[v].tex, gpu'[u].tex # 0
                     PROVE  u = v
          OBVIOUS
        <5> QED BY <1>3, <2>2, <4>4 DEF NInv
      <4>6. gpu'[t].tex \in textures'
        BY <3>1
      <4>7. serial' => \A u \in made' : gpu'[u].tex \in textures' \/ Owes(u, 1)'
        <5> SUFFICES ASSUME serial, NEW u \in made, u # t
                     PROVE  gpu'[u].tex \in textures' \/ Owes(u, 1)'
          BY <1>1, <4>6
        <5>1. gpu[u].tex \in textures \/ Owes(u, 1)
          BY DEF NInv
        <5> QED BY <1>5, <1>8, <2>2, <2>3, <5>1
      <4> QED BY <4>2, <4>3, <4>5, <4>7 DEF NInv
    <3>2. CASE part \in {4, 5, 6} /\ gpu'[t].tex = gpu[t].tex /\ UNCHANGED <<names, textures>>
      <4>1. \A u \in Textures : gpu'[u].tex = gpu[u].tex
        BY <2>2, <3>2
      <4>2. ~ Owes(t, 1)
        BY <1>3, <1>7, <3>2 DEF Owes
      <4> QED BY <1>1, <1>5, <1>8, <3>2, <4>1, <4>2 DEF NInv
    <3> QED BY <2>2, <3>1, <3>2
  <2>5. ASSUME NEW f \in Framebuffers, Due(f)', serial, ~ crashed PROVE Steady(f)'
    <3>1. Due(f) /\ Steady(f) /\ TexturesOf(f) \subseteq Textures
      BY <1>5, <1>9, <2>5 DEF AInv, Due
    <3>2. t \in TexturesOf(f) => part \notin {1, 2, 3}
      BY <1>11, <3>1 DEF Steady, Has
    <3>3. \A u \in TexturesOf(f) : /\ gpu'[u].tex = gpu[u].tex
                                   /\ gpu[u].tex \in textures => gpu[u].tex \in textures'
      BY <2>2, <2>3, <3>1, <3>2
    <3> QED BY <1>1, <1>6, <3>1, <3>3, KeepsSteady
  <2>6. AInv'
    BY <1>1, <2>5 DEF AInv
  <2> QED BY <2>4, <2>6
<1> QED BY <1>4, <1>10, <1>11

\* a framebuffer that was asked for is not due until it has been served
LEMMA AskBoth ==
  ASSUME FInv, NInv, AInv, NEW f \in Framebuffers, FramebufferCall(f)
  PROVE  NInv' /\ AInv'
<1>1. UNCHANGED texVars /\ UNCHANGED <<attachment, crashed>>
  BY DEF FramebufferCall, NewFramebuffer, RecreateFramebuffer, DestroyFramebuffer, Post
<1>2. UNCHANGED <<serial, made, names, textures, gpu, flags, cpc, call, phase, at, part, toUpdate>>
  BY <1>1 DEF texVars, front, back, client, tick
<1>3. \A t, n : (Owes(t, n)' <=> Owes(t, n)) /\ (Has(t, Parts[n])' <=> Has(t, Parts[n]))
  BY <1>2 DEF Owes, Has, Ticked
<1>4. NInv'
  BY <1>2, <1>3, KeepsNames
<1>5. NoFramebuffer \notin Framebuffers
  BY FramebufferAssumption DEF FramebufferAssumption
<1>6. /\ FTypes /\ life[f] # "dead" /\ ~ crashed
  BY DEF FramebufferCall, NewFramebuffer, RecreateFramebuffer, DestroyFramebuffer, FInv, Post
<1>7. \/ /\ requests' = Append(requests, [self |-> f, fbo |-> 0])
         /\ life' = [life EXCEPT ![f] = "alive"] /\ changed' = changed \ {f}
         /\ TexturesOf(f) \subseteq made
      \/ /\ requests' = Append(requests, [self |-> f, fbo |-> 1])
         /\ life' = life /\ life[f] = "alive" /\ changed' = changed \ {f}
      \/ /\ requests' = Append(requests, [self |-> NoFramebuffer, fbo |-> fbo[f]])
         /\ life' = [life EXCEPT ![f] = "dead"] /\ life[f] = "alive" /\ changed' = changed
  BY DEF FramebufferCall, NewFramebuffer, RecreateFramebuffer, DestroyFramebuffer, Post
<1>8. life \in [Framebuffers -> {"new", "alive", "dead"}] /\ fbo[f] \in Nat
  BY <1>6 DEF FTypes
<1>9. \A g \in Framebuffers : g # f => life'[g] = life[g] /\ (g \in changed' <=> g \in changed)
  BY <1>7, <1>8
<1>10. \A g \in Framebuffers : /\ Pending(g)' <=> Pending(g) \/ (g = f /\ Pending(f)')
                               /\ life'[f] = "alive" => Pending(f)'
  <2>1. PICK e : /\ e \in Requests /\ requests' = Append(requests, e)
                 /\ e.self = f \/ (e.self = NoFramebuffer /\ life'[f] = "dead")
    <3>1. \A n \in Nat : [self |-> f, fbo |-> n] \in Requests
                         /\ [self |-> NoFramebuffer, fbo |-> n] \in Requests
      BY DEF Requests
    <3>2. life[f] \in {"new", "alive", "dead"} /\ f \in DOMAIN life
      BY <1>8
    <3>3. CASE requests' = Append(requests, [self |-> f, fbo |-> 0])
      <4>1. [self |-> f, fbo |-> 0] \in Requests
        BY <3>1
      <4> QED BY <3>3, <4>1
    <3>4. CASE requests' = Append(requests, [self |-> f, fbo |-> 1])
      <4>1. [self |-> f, fbo |-> 1] \in Requests
        BY <3>1
      <4> QED BY <3>4, <4>1
    <3>5. CASE /\ requests' = Append(requests, [self |-> NoFramebuffer, fbo |-> fbo[f]])
               /\ life' = [life EXCEPT ![f] = "dead"]
      <4>1. [self |-> NoFramebuffer, fbo |-> fbo[f]] \in Requests /\ life'[f] = "dead"
        BY <1>8, <3>1, <3>2, <3>5
      <4> QED BY <3>5, <4>1
    <3> QED BY <1>7, <3>3, <3>4, <3>5
  <2>2. \A g : Pending(g)' <=> Pending(g) \/ e.self = g
    BY <2>1, PostFacts
  <2> QED BY <1>5, <2>1, <2>2
<1>11. ASSUME NEW g \in Framebuffers, Due(g)', serial, ~ crashed PROVE Steady(g)'
  <2>1. g # f /\ Due(g)
    BY <1>9, <1>10, <1>11 DEF Due
  <2> QED BY <1>1, <1>2, <1>3, <1>11, <2>1, KeepsSteady DEF AInv
<1>12. \A g \in Framebuffers : life'[g] # "new" => TexturesOf(g) \subseteq made'
  <2>1. TexturesOf(f) \subseteq made
    BY <1>7 DEF AInv
  <2> QED BY <1>2, <1>9, <2>1 DEF AInv
<1> QED BY <1>1, <1>2, <1>4, <1>11, <1>12 DEF AInv

\* a framebuffer that is served draws into the present GL textures
LEMMA ServeBoth ==
  ASSUME GInv, FInv, NInv, AInv, ServeRequest
  PROVE  NInv' /\ AInv'
<1>0. PICK h : h = Head(requests)
  OBVIOUS
<1>1. /\ UNCHANGED texVars /\ UNCHANGED <<life, changed>>
      /\ phase = "framebuffers" /\ ~ crashed /\ requests # <<>> /\ requests' = Tail(requests)
  BY DEF ServeRequest
<1>2. UNCHANGED <<serial, made, names, textures, gpu, flags, cpc, call, phase, at, part, toUpdate>>
  BY <1>1 DEF texVars, front, back, client, tick
<1>3. \A t, n : (Owes(t, n)' <=> Owes(t, n)) /\ (Has(t, Parts[n])' <=> Has(t, Parts[n]))
  BY <1>2 DEF Owes, Has, Ticked
<1>4. NInv'
  BY <1>2, <1>3, KeepsNames
<1>5. /\ h \in Requests
      /\ \A f : Pending(f) <=> Pending(f)' \/ h.self = f
  <2>1. FTypes
    BY DEF FInv
  <2> QED BY <1>0, <1>1, <2>1, TailFacts
<1>6. ASSUME NEW g \in Framebuffers, Due(g)', serial, g # h.self, attachment'[g] = attachment[g]
      PROVE  Steady(g)'
  <2>1. Due(g)
    BY <1>1, <1>5, <1>6 DEF Due
  <2> QED BY <1>1, <1>2, <1>3, <1>6, <2>1, KeepsSteady DEF AInv
<1>7. attachment = [f \in Framebuffers |-> attachment[f]]
  BY DEF AInv
<1>8. CASE h.self = NoFramebuffer
  <2>1. UNCHANGED <<attachment, crashed>>
    BY <1>0, <1>8 DEF ServeRequest
  <2>2. NoFramebuffer \notin Framebuffers
    BY FramebufferAssumption DEF FramebufferAssumption
  <2>3. \A g \in Framebuffers : g # h.self
    BY <1>8, <2>2
  <2> QED BY <1>1, <1>2, <1>4, <1>6, <2>1, <2>3 DEF AInv
<1>9. CASE h.self # NoFramebuffer /\ life[h.self] = "dead"
  <2>1. UNCHANGED attachment /\ crashed'
    BY <1>0, <1>9 DEF ServeRequest
  <2> QED BY <1>1, <1>2, <1>4, <2>1 DEF AInv
<1>10. CASE h.self # NoFramebuffer /\ life[h.self] # "dead"
  <2>1. PICK f : f = h.self
    OBVIOUS
  <2>2. f \in Framebuffers
    BY <1>5, <1>10, <2>1 DEF Requests
  <2>3. /\ attachment' = [attachment EXCEPT ![f] = [p \in Points(f) |-> gpu[At(f, p)].tex]]
        /\ UNCHANGED crashed
    BY <1>0, <1>10, <2>1 DEF ServeRequest, RecreateBackend, Create
  <2>4. /\ attachment'[f] = [p \in Points(f) |-> gpu[At(f, p)].tex]
        /\ \A g \in Framebuffers : g # f => attachment'[g] = attachment[g]
        /\ attachment' = [g \in Framebuffers |-> attachment'[g]]
    BY <1>7, <2>2, <2>3
  <2>5. ASSUME Due(f)', serial PROVE Steady(f)'
    <3>1. TexturesOf(f) \subseteq made
      BY <1>1, <2>2, <2>5 DEF AInv, Due
    <3>2. \A t \in TexturesOf(f) : t \in Textures
      BY <3>1 DEF GInv, GTypes
    <3>3. cpc = "idle" /\ \A t \in Textures : flags[t] = {}
      BY <1>1, <2>5 DEF GInv, GPhase
    <3>4. \A t \in TexturesOf(f) : \A n \in 1 .. 3 : ~ Has(t, Parts[n])
      BY <3>2, <3>3 DEF Has
    <3>5. \A t \in TexturesOf(f) : gpu[t].tex \in textures
      BY <2>5, <3>1, <3>4 DEF NInv, Owes
    <3>6. \A p \in Points(f) : At(f, p) \in TexturesOf(f)
      BY <2>2, AtIsOwn
    <3>7. \A p \in Points(f) : attachment'[f][p] = gpu[At(f, p)].tex
      BY <2>4
    <3> QED BY <1>2, <1>3, <3>4, <3>5, <3>6, <3>7 DEF Steady
  <2>6. \A g \in Framebuffers : serial /\ Due(g)' => Steady(g)'
    BY <1>6, <2>1, <2>4, <2>5
  <2> QED BY <1>1, <1>2, <1>4, <2>3, <2>4, <2>6 DEF AInv
<1> QED BY <1>8, <1>9, <1>10

\* every step keeps the invariants
LEMMA NextBoth == QInv /\ GInv /\ FInv /\ NInv /\ AInv /\ [Next]_vars => NInv' /\ AInv'
<1> SUFFICES ASSUME QInv, GInv, FInv, NInv, AInv, [Next]_vars
             PROVE  NInv' /\ AInv'
  OBVIOUS
<1>1. CASE Graphics
  <2>1. CASE TextureStep
    BY <2>1, PartBoth, QuietBoth DEF TextureStep, TickStep
  <2> QED BY <1>1, <2>1, CallBoth, AskBoth, ServeBoth, QuietBoth
          DEF Graphics, FramebufferNext, FramebufferStep
<1>2. CASE Shading \/ Finished \/ UNCHANGED vars
  BY <1>2, KeepsBoth DEF Shading, Finished, vars
<1> QED BY <1>1, <1>2 DEF Next

\* With the client on the ticking thread, a framebuffer created or re-created after
\* the last change of its textures draws into their present GL textures, and every
\* GL framebuffer belongs to a living one or is about to be deleted: for any number
\* of textures, framebuffers and requests.
THEOREM AttachmentsAreAccounted == Spec => []AttachmentsAccounted
<1>1. AInv /\ FInv => AttachmentsAccounted
  <2>1. AInv => AttachmentsCurrent
    BY DEF AInv, Due, Steady, AttachmentsCurrent
  <2> QED BY <2>1, AccountsFor DEF AttachmentsAccounted
<1> QED BY <1>1, InitQInv, NextQInv, InitGInv, NextGInv, InitFInv, NextFInv, InitAInv, NextBoth,
           PTL DEF Spec

-----------------------------------------------------------------------------
(* The types of all of it *)

\* what the invariants above leave out
RestTypes ==
  /\ size \in [Textures -> Sizes]
  /\ requested \in [Textures -> Settings]
  /\ current \in [Textures -> Settings]
  /\ flags \in [Textures -> SUBSET Flags]
  /\ call \in {NoCall} \cup [tex : Textures, flag : Flags]
  /\ cpc # "idle" => call \in [tex : Textures, flag : Flags]
  /\ phase \in {"idle", "textures", "framebuffers"}
  /\ framebuffers \subseteq 1 .. fboNames
  /\ changed \subseteq Framebuffers
  /\ used \in [Shaders -> SUBSET StageTypes]
  /\ todo \in SUBSET StageTypes

\* there are sizes and settings to begin with
LEMMA InitRest == Init => RestTypes
<1> SUFFICES ASSUME Init
             PROVE  RestTypes
  OBVIOUS
<1>1. TexInit /\ changed = {} /\ framebuffers = {}
      /\ used = [s \in Shaders |-> {}] /\ todo = {}
  BY DEF Init, FramebufferInit, ShaderInit
<1>2. (CHOOSE s \in Sizes : TRUE) \in Sizes
  BY TextureAssumption
<1>3. (CHOOSE r \in Settings : TRUE) \in Settings
  <2>1. PICK l \in Levels : TRUE
    BY TextureAssumption
  <2>2. [filter |-> "first", anisotropy |-> l, samples |-> "x1", tiling |-> "first"] \in Settings
    BY DEF Settings, Modes, Samples
  <2> QED BY <2>2
<1>4. /\ size \in [Textures -> Sizes]
      /\ requested \in [Textures -> Settings]
      /\ current \in [Textures -> Settings]
      /\ flags \in [Textures -> SUBSET Flags]
  <2> DEFINE r == CHOOSE r \in Settings : TRUE
  <2> HIDE DEF r
  <2>1. r \in Settings
    BY <1>3 DEF r
  <2>2. requested = [t \in Textures |-> r] /\ current = requested
    BY <1>1 DEF TexInit, r
  <2>3. requested \in [Textures -> Settings]
    BY <2>1, <2>2
  <2>4. size \in [Textures -> Sizes]
    BY <1>1, <1>2 DEF TexInit
  <2>5. flags \in [Textures -> SUBSET Flags]
    BY <1>1 DEF TexInit
  <2> QED BY <2>2, <2>3, <2>4, <2>5
<1>5. used \in [Shaders -> SUBSET StageTypes] /\ todo \in SUBSET StageTypes
  BY <1>1
<1>6. call = NoCall /\ cpc = "idle" /\ phase = "idle"
  BY <1>1 DEF TexInit
<1> QED BY <1>1, <1>4, <1>5, <1>6 DEF RestTypes

\* a call stores sizes and settings, and flags a bit that exists
LEMMA CallRest ==
  ASSUME RestTypes, NEW t \in Textures, Call(t)
  PROVE  /\ size' \in [Textures -> Sizes]
         /\ requested' \in [Textures -> Settings]
         /\ current' \in [Textures -> Settings]
         /\ call' \in [tex : Textures, flag : Flags]
         /\ UNCHANGED <<flags, phase>>
<1>1. ASSUME NEW f \in Flags, Begin(t, f)
      PROVE  call' \in [tex : Textures, flag : Flags] /\ UNCHANGED <<flags, phase>>
  BY <1>1 DEF Begin, tick
<1>2. ASSUME NEW s \in Sizes, ResizeAndClear(t, s)
      PROVE  /\ size' \in [Textures -> Sizes] /\ UNCHANGED <<requested, current>>
             /\ \E f \in Flags : Begin(t, f)
  BY <1>2 DEF ResizeAndClear, RestTypes, Flags
<1>3. ASSUME NEW s \in Sizes, NEW r \in Initial, Construct(t, s, r)
      PROVE  /\ size' \in [Textures -> Sizes]
             /\ requested' \in [Textures -> Settings]
             /\ current' \in [Textures -> Settings]
             /\ \E f \in Flags : Begin(t, f)
  <2>1. r \in Settings
    BY TextureAssumption
  <2> QED BY <1>3, <2>1 DEF Construct, RestTypes, Flags
<1>4. ASSUME NEW f \in Flags, NEW r \in Settings, Request(t, f, r)
      PROVE  /\ requested' \in [Textures -> Settings] /\ UNCHANGED <<size, current>>
             /\ \E g \in Flags : Begin(t, g)
  BY <1>4 DEF Request, RestTypes
<1>5. requested[t] \in Settings
  BY DEF RestTypes
<1>6. /\ \A m \in Modes : [requested[t] EXCEPT !.filter = m] \in Settings
                          /\ [requested[t] EXCEPT !.tiling = m] \in Settings
      /\ \A l \in Levels : [requested[t] EXCEPT !.anisotropy = l] \in Settings
      /\ \A s \in Samples : [requested[t] EXCEPT !.samples = s] \in Settings
  BY <1>5 DEF Settings
<1>7. {"filter", "tiling", FLAG_UPDATE_ANISOTROPY, FLAG_UPDATE_SAMPLING} \subseteq Flags
  BY DEF Flags
<1>8. \/ \E s \in Sizes : ResizeAndClear(t, s) \/ \E r \in Initial : Construct(t, s, r)
      \/ \E f \in Flags, r \in Settings : Request(t, f, r)
  BY <1>6, <1>7 DEF Call, SetFilterMode, SetTilingMode, SetAnisotropy, SetMultiSample
<1> QED BY <1>1, <1>2, <1>3, <1>4, <1>8 DEF RestTypes

\* what the tick does to a texture leaves it with settings
LEMMA ApplyRest ==
  ASSUME RestTypes, NEW t \in Textures, NEW n \in 1 .. 6, Apply(t, n)
  PROVE  current' \in [Textures -> Settings]
<1>1. current[t] \in Settings /\ requested[t] \in Settings
  BY DEF RestTypes
<1> DEFINE c == current[t]
           r == requested[t]
<1>2. /\ [c EXCEPT !.filter = r.filter] \in Settings
      /\ [c EXCEPT !.anisotropy = r.anisotropy] \in Settings
      /\ Sampled(c, r) \in Settings
      /\ [c EXCEPT !.tiling = r.tiling] \in Settings
  BY <1>1 DEF Settings, Sampled
<1>3. \E d \in Settings : current' = [current EXCEPT ![t] = d]
  <2>1. CASE n \in {1, 2}
    <3>1. Recreate(t, current[t])
      <4>1. n = 1 \/ n = 2
        BY <2>1
      <4>2. CASE n = 1
        BY <4>2 DEF Apply
      <4>3. CASE n = 2
        BY <4>3 DEF Apply
      <4> QED BY <4>1, <4>2, <4>3
    <3>2. current' = [current EXCEPT ![t] = current[t]]
      BY <3>1 DEF Recreate
    <3> QED BY <1>1, <3>2
  <2>2. CASE n = 3
    BY <1>2, <2>2 DEF Apply, Recreate
  <2>3. CASE n = 4
    BY <1>2, <2>3 DEF Apply, SetParameter
  <2>4. CASE n = 5
    BY <1>2, <2>4 DEF Apply, SetParameter
  <2>5. CASE n = 6
    BY <1>2, <2>5 DEF Apply, SetParameter
  <2> QED BY <2>1, <2>2, <2>3, <2>4, <2>5
<1> QED BY <1>3 DEF RestTypes

\* The client and the tick keep the types of the textures.
LEMMA TextureRest ==
  ASSUME QInv, GInv, RestTypes, ClientStep \/ TickStep
  PROVE  /\ current' \in [Textures -> Settings]
         /\ UNCHANGED <<size, requested>>
         /\ flags' \in [Textures -> SUBSET Flags]
         /\ call' \in {NoCall} \cup [tex : Textures, flag : Flags]
         /\ cpc' # "idle" => call' \in [tex : Textures, flag : Flags]
         /\ phase' \in {"idle", "textures", "framebuffers"}
<1>0. UNCHANGED <<size, requested>>
  BY DEF ClientStep, TickStep, SetFlag, TestQueued, Push, BeginUpdate, TickPart, ClearFlags,
         Unmark, EndTextures, front
<1>1. CASE SetFlag
  <2>1. call.flag \in Flags
    BY <1>1 DEF SetFlag, RestTypes
  <2>2. flags' \in [Textures -> SUBSET Flags]
    BY <1>1, <2>1 DEF SetFlag, RestTypes
  <2> QED BY <1>0, <1>1, <2>2 DEF SetFlag, RestTypes, back, tick
<1>2. CASE TestQueued
  BY <1>0, <1>2 DEF TestQueued, RestTypes, back, tick
<1>3. CASE Push
  BY <1>0, <1>3 DEF Push, RestTypes, back, tick
<1>4. CASE BeginUpdate
  BY <1>0, <1>4 DEF BeginUpdate, After, RestTypes, back, client
<1>5. CASE TickPart
  <2>1. toUpdate[at] \in Textures
    BY <1>5 DEF TickPart, QInv, QTypes
  <2>2. part \in 1 .. 6
    BY <1>5, PartsAre DEF TickPart, GInv, GTypes
  <2>3. current' \in [Textures -> Settings]
    BY <1>5, <2>1, <2>2, ApplyRest DEF TickPart, RestTypes, back
  <2> QED BY <1>0, <1>5, <2>3 DEF TickPart, RestTypes, client
<1>6. CASE ClearFlags
  <2>1. flags' \in [Textures -> SUBSET Flags]
    BY <1>6 DEF ClearFlags, RestTypes
  <2> QED BY <1>0, <1>6, <2>1 DEF ClearFlags, RestTypes, back, client
<1>7. CASE Unmark
  BY <1>0, <1>7 DEF Unmark, RestTypes, back, client
<1>8. CASE EndTextures
  BY <1>0, <1>8 DEF EndTextures, After, RestTypes, back, client
<1> QED BY <1>1, <1>2, <1>3, <1>4, <1>5, <1>6, <1>7, <1>8 DEF ClientStep, TickStep

\* GL numbers its framebuffers.
LEMMA ServeRest ==
  ASSUME FInv, RestTypes, ServeRequest
  PROVE  framebuffers' \subseteq 1 .. fboNames'
<1>1. fboNames \in Nat /\ framebuffers \subseteq 1 .. fboNames
  BY DEF FInv, FTypes, RestTypes
<1>2. \/ framebuffers' \subseteq framebuffers /\ UNCHANGED fboNames
      \/ \E f, gone : Create(f, gone)
  BY DEF ServeRequest, RecreateBackend
<1>3. ASSUME NEW f, NEW gone, Create(f, gone)
      PROVE  framebuffers' \subseteq 1 .. fboNames'
  <2>1. fboNames' = fboNames + 1 /\ framebuffers' \subseteq framebuffers \cup {fboNames + 1}
    BY <1>3 DEF Create
  <2>2. 1 .. fboNames \subseteq 1 .. fboNames + 1 /\ fboNames + 1 \in 1 .. fboNames + 1
    BY <1>1
  <2> QED BY <1>1, <2>1, <2>2
<1> QED BY <1>1, <1>2, <1>3

\* The stages of a shader are some of its types.
LEMMA ShaderRest ==
  ASSUME SInv, RestTypes, ShaderNext
  PROVE  used' \in [Shaders -> SUBSET StageTypes] /\ todo' \in SUBSET StageTypes
<1>1. used \in [Shaders -> SUBSET StageTypes] /\ todo \in SUBSET StageTypes
  BY DEF RestTypes
<1>2. ASSUME NEW s \in Shaders, NEW u \in SUBSET StageTypes, NewShader(s, u)
      PROVE  used' \in [Shaders -> SUBSET StageTypes] /\ UNCHANGED todo
  BY <1>1, <1>2 DEF NewShader
<1>3. CASE BeginCompile
  <2>1. Compiled \in Shaders
    BY <1>3 DEF BeginCompile, Compiled, SInv, STypes
  <2> QED BY <1>1, <1>3, <2>1 DEF BeginCompile
<1>4. CASE StageCompiles
  BY <1>1, <1>4 DEF StageCompiles
<1>5. CASE StageFails \/ LinkFails
  BY <1>1, <1>5 DEF StageFails, LinkFails, Failed
<1>6. CASE Links \/ BeginCompileAll \/ EndCompileAll \/ \E s \in Shaders : DestroyShader(s)
  BY <1>1, <1>6 DEF Links, BeginCompileAll, EndCompileAll, DestroyShader
<1> QED BY <1>1, <1>2, <1>3, <1>4, <1>5, <1>6 DEF ShaderNext

\* Every step keeps the types.
LEMMA NextRest == QInv /\ SInv /\ GInv /\ FInv /\ RestTypes /\ [Next]_vars => RestTypes'
<1> SUFFICES ASSUME QInv, SInv, GInv, FInv, RestTypes, [Next]_vars
             PROVE  RestTypes'
  OBVIOUS
<1> DEFINE OfTextures == <<size, requested, current, flags, call, cpc, phase>>
           OfFramebuffers == <<framebuffers, fboNames, changed>>
           OfShaders == <<used, todo>>
<1>1. CASE Graphics
  <2>0. UNCHANGED OfShaders
    BY <1>1 DEF Graphics, shVars
  <2>1. ASSUME NEW t \in Textures, TextureCall(t)
        PROVE  RestTypes'
    <3>1. changed' \subseteq Framebuffers /\ UNCHANGED <<framebuffers, fboNames>>
      BY <2>1 DEF TextureCall, RestTypes
    <3> QED BY <2>0, <2>1, <3>1, CallRest DEF TextureCall, RestTypes
  <2>2. ASSUME NEW f \in Framebuffers, FramebufferCall(f)
        PROVE  RestTypes'
    <3>1. UNCHANGED OfTextures /\ UNCHANGED <<framebuffers, fboNames>> /\ changed' \subseteq changed
      BY <2>2 DEF FramebufferCall, NewFramebuffer, RecreateFramebuffer, DestroyFramebuffer,
         Post, texVars, front, back, client, tick
    <3> QED BY <2>0, <3>1 DEF RestTypes
  <2>3. CASE TextureStep
    <3>1. UNCHANGED OfFramebuffers
      BY <2>3 DEF TextureStep, fbVars
    <3> QED BY <2>0, <2>3, <3>1, TextureRest DEF TextureStep, RestTypes
  <2>4. CASE ServeRequest
    <3>1. UNCHANGED OfTextures /\ UNCHANGED changed
      BY <2>4 DEF ServeRequest, texVars, front, back, client, tick
    <3> QED BY <2>0, <2>4, <3>1, ServeRest DEF RestTypes
  <2>5. CASE EndUpdate
    <3>1. /\ UNCHANGED <<size, requested, current, flags, call, cpc>>
          /\ UNCHANGED OfFramebuffers /\ phase' = "idle"
      BY <2>5 DEF EndUpdate, After, front, back, client, fbVars
    <3> QED BY <2>0, <3>1 DEF RestTypes
  <2> QED BY <1>1, <2>1, <2>2, <2>3, <2>4, <2>5 DEF Graphics, FramebufferNext, FramebufferStep
<1>2. CASE Shading
  <2>1. UNCHANGED OfTextures /\ UNCHANGED OfFramebuffers
    BY <1>2 DEF Shading, fbAll, texVars, fbVars, front, back, client, tick
  <2> QED BY <1>2, <2>1, ShaderRest DEF Shading, RestTypes
<1>3. CASE Finished \/ UNCHANGED vars
  <2>1. UNCHANGED OfTextures /\ UNCHANGED OfFramebuffers /\ UNCHANGED OfShaders
    BY <1>3 DEF Finished, vars, fbAll, texVars, fbVars, shVars, front, back, client, tick
  <2> QED BY <2>1 DEF RestTypes
<1> QED BY <1>1, <1>2, <1>3 DEF Next

\* The variables of the queues and of what waits in them keep their types, and the
\* tick stays within its queue and within tickGPU().
THEOREM GraphicKeepsTypes == Spec => []TypeOK
<1>1. QInv /\ SInv /\ GInv /\ FInv /\ NInv /\ RestTypes => TypeOK
  <2> SUFFICES ASSUME QInv, SInv, GInv, FInv, NInv, RestTypes
               PROVE  TypeOK
    OBVIOUS
  <2>1. /\ serial \in BOOLEAN
        /\ made \subseteq Textures
        /\ part \in 1 .. 8
    BY DEF GInv, GTypes
  <2>2. /\ queued \in [Textures -> BOOLEAN]
        /\ toUpdate \in Seq(Textures)
        /\ cpc \in {"idle", "flag", "test", "push"}
        /\ at \in 1 .. Len(toUpdate) + 1
    BY DEF QInv, QTypes
  <2>3. /\ \A t \in Textures : gpu[t].tex \in 0 .. names
        /\ textures \subseteq 1 .. names
    BY DEF NInv
  <2>4. /\ life \in [Framebuffers -> {"new", "alive", "dead"}]
        /\ fbo \in [Framebuffers -> 0 .. fboNames]
        /\ crashed \in BOOLEAN
    BY DEF FInv, FTypes
  <2>5. /\ shLife \in [Shaders -> {"new", "alive", "dead"}]
        /\ state \in [Shaders -> CompileState]
        /\ compiling \in Seq(Shaders)
        /\ pos \in 1 .. Len(compiling) + 1
        /\ locked \in BOOLEAN
    BY DEF SInv, STypes
  <2>6. part \in 1 .. Len(Parts) + 2
    BY <2>1, PartsAre
  <2> QED BY <2>1, <2>2, <2>3, <2>4, <2>5, <2>6 DEF TypeOK, RestTypes
<1> QED BY <1>1, InitQInv, NextQInv, InitSInv, NextSInv, InitGInv, NextGInv, InitFInv, NextFInv,
           InitAInv, NextBoth, InitRest, NextRest, PTL DEF Spec

=============================================================================
